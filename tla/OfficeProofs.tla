---------------------------- MODULE OfficeProofs ----------------------------
(***************************************************************************)
(* Theorems about the owner's office.                                      *)
(*                                                                         *)
(* The back office, for any number of accounts, sessions and requests: an  *)
(* owner remains, the shop has the plan it pays for, and the cached        *)
(* verdict on the plan errs only within its lifetime.                      *)
(*                                                                         *)
(* The start of a process and the migration tool, for any number of        *)
(* processes, shops, appointments, faults and edits: the keys of the slots *)
(* and the catalogues are in order, and a start after one that ended well  *)
(* changes nothing.                                                        *)
(***************************************************************************)
EXTENDS MCOffice, Sequences, FiniteSetTheorems, WellFoundedInduction, TLAPS

------------------------------------------------------------------------------
(* Types *)

Asked ==
    [step : Steps, by : Admins \cup {NoAdmin}, claim : Roles \cup {"none"}, route : Routes \cup {"none"},
     target : Admins \cup {NoAdmin}, to : ManagedRoles \cup {"none"}, frozen : BOOLEAN, plan : Plans \cup {"none"}]

\* A request carries what its handler needs.
Complete(q) ==
    /\ q.route \in MemberRoutes => q.target \in Admins
    /\ q.route \in {"role", "create"} => q.to \in ManagedRoles
    /\ q.route \in PlanRoutes => q.plan \in Plans
    /\ q.step = "write" => q.route \in {"role", "disable"}
    /\ q.step \in {"create", "shop"} => q.route = "renew"
    /\ q.step = "idle" => q = Idle

RequestsOK == req \in [Requests -> Asked] /\ \A r \in Requests : Complete(req[r])

------------------------------------------------------------------------------
(* The inductive invariants *)

HasOwner == \E a \in Admins \ disabled : role[a] = "owner"

\* What CheckMember has seen is still so when WriteMember comes.
LeavesOwner(r) ==
    LET a == req[r].target IN
    /\ role[a] # "none"
    /\ role[a] = "owner" /\ (req[r].route = "disable" \/ req[r].to = "staff") => OtherOwners(a) # {}

MembersInv ==
    "members" \notin raced => HasOwner /\ \A r \in Requests : req[r].step = "write" => LeavesOwner(r)

OnlyOpen(p) == \E s \in subs : subs = {s} /\ s.plan = p

\* One renewal at a time: it has closed what was open, then opened what the shop will get.
PlanInv ==
    "renew" \notin raced =>
        /\ (\A r \in Requests : ~Renewing(r)) => OnlyOpen(paidPlan)
        /\ \A r, q \in Requests : Renewing(r) /\ Renewing(q) => r = q
        /\ \A r \in Requests : req[r].step = "create" => subs = {}
        /\ \A r \in Requests : req[r].step = "shop" => OnlyOpen(req[r].plan)

WillClear == \E r \in Requests : req[r].step \in {"shop", "clear"}

\* A verdict was true when it was kept; who pays after that will clear it.
VerdictInv ==
    "gate" \notin raced /\ cache.kept =>
        /\ cache.frozen => ~Paid \/ WillClear
        /\ ~cache.frozen => ~Frozen(cache.at)

OfficeInv == MembersInv /\ PlanInv /\ VerdictInv

------------------------------------------------------------------------------
(* The shapes of the steps *)

LEMMA NextCases ==
    ASSUME Next
    PROVE  \/ \E a \in Admins : Login(a)
           \/ \E t \in tokens : Expire(t)
           \/ \E r \in Requests : Request(r)
           \/ \E r \in Requests : Serve(r)
           \/ \E ro \in ManagedRoles, ps \in SUBSET Permissions : SetPermissions(ro, ps)
           \/ Restart
           \/ Tick
BY DEF Next

LEMMA ServeCases ==
    ASSUME NEW r \in Requests, Serve(r)
    PROVE  \/ ReadPlan(r) \/ StorePlan(r) \/ Authorize(r)
           \/ CheckMember(r) \/ WriteMember(r) \/ CreateMember(r)
           \/ CancelOld(r) \/ OpenNew(r) \/ UpdateShop(r) \/ SetPlan(r) \/ ClearCache(r)
BY DEF Serve

LEMMA IdleOK == Idle \in Asked /\ Complete(Idle)
BY DEF Idle, Asked, Complete, Steps, MemberRoutes, PlanRoutes

\* One request moves, to a value that is complete.
LEMMA OneMoves ==
    ASSUME RequestsOK, NEW r \in Requests, NEW v, v \in Asked, Complete(v), req' = [req EXCEPT ![r] = v]
    PROVE  /\ RequestsOK' /\ req'[r] = v
           /\ \A q \in Requests : q # r => req'[q] = req[q]
<1>1. /\ req' \in [Requests -> Asked] /\ req'[r] = v
      /\ \A q \in Requests : q # r => req'[q] = req[q]
  BY DEF RequestsOK
<1>2. \A q \in Requests : Complete(req'[q])
  BY <1>1 DEF RequestsOK
<1> QED
  BY <1>1, <1>2 DEF RequestsOK, Complete, Idle

LEMMA AnswerOK ==
    ASSUME RequestsOK, NEW r \in Requests, Answer(r)
    PROVE  RequestsOK' /\ req'[r] = Idle /\ \A q \in Requests : q # r => req'[q] = req[q]
BY IdleOK, OneMoves DEF Answer

\* A request that goes on keeps all but its step.
Went(r, s) ==
    /\ req'[r].step = s /\ req'[r].route = req[r].route /\ req'[r].target = req[r].target
    /\ req'[r].to = req[r].to /\ req'[r].plan = req[r].plan
    /\ req'[r].claim = req[r].claim /\ req'[r].by = req[r].by

LEMMA StepGoes ==
    ASSUME RequestsOK, NEW r \in Requests, NEW s \in Steps \ {"idle"}, Step(r, s),
           s = "write" => req[r].route \in {"role", "disable"},
           s \in {"create", "shop"} => req[r].route = "renew"
    PROVE  RequestsOK' /\ Went(r, s) /\ \A q \in Requests : q # r => req'[q] = req[q]
<1> DEFINE v == [req[r] EXCEPT !.step = s]
<1>1. req[r] \in Asked /\ Complete(req[r])
  BY DEF RequestsOK
<1>2. v \in Asked /\ v.step = s /\ v.route = req[r].route /\ v.target = req[r].target
      /\ v.to = req[r].to /\ v.plan = req[r].plan /\ v.claim = req[r].claim /\ v.by = req[r].by
  BY <1>1 DEF Asked
<1>3. Complete(v)
  BY <1>1, <1>2 DEF Complete
<1>4. req' = [req EXCEPT ![r] = v]
  BY <1>1 DEF Step, RequestsOK
<1> QED
  BY <1>2, <1>3, <1>4, OneMoves DEF Went

OthersStay(r) == \A q \in Requests : q # r => req'[q] = req[q]

LEMMA RequestStarts ==
    ASSUME TypeOK, RequestsOK, NEW r \in Requests, Request(r)
    PROVE  /\ RequestsOK' /\ OthersStay(r)
           /\ req[r].step = "idle" /\ req'[r].step \in {"perm", "gate"}
           /\ req'[r].step = "perm" /\ req'[r].claim # "platform_admin" => Fresh /\ ~cache.frozen
           /\ UNCHANGED <<members, access, billing, now, cache, raced>>
<1>1. PICK t \in tokens, route \in Routes, target \in Admins \cup {NoAdmin}, to \in ManagedRoles \cup {"none"},
           plan \in Plans \cup {"none"} :
           /\ Start(r, t, route, target, to, plan)
           /\ route \in MemberRoutes => target \in Admins
           /\ route \in {"role", "create"} => to \in ManagedRoles
           /\ route \in PlanRoutes => plan \in Plans
  <2>1. PICK t \in tokens, route \in Routes :
           \/ /\ route \in MemberRoutes \ {"disable"}
              /\ \E a \in Admins, to \in ManagedRoles : Start(r, t, route, a, to, "none")
           \/ /\ route = "disable"
              /\ \E a \in Admins : Start(r, t, route, a, "none", "none")
           \/ /\ route \in PlanRoutes
              /\ \E p \in Plans : Start(r, t, route, NoAdmin, "none", p)
    BY DEF Request
  <2>2. CASE route \in MemberRoutes \ {"disable"} /\ \E a \in Admins, to \in ManagedRoles : Start(r, t, route, a, to, "none")
    BY <2>2 DEF MemberRoutes, PlanRoutes
  <2>3. CASE route = "disable" /\ \E a \in Admins : Start(r, t, route, a, "none", "none")
    BY <2>3 DEF PlanRoutes
  <2>4. CASE route \in PlanRoutes /\ \E p \in Plans : Start(r, t, route, NoAdmin, "none", p)
    BY <2>4 DEF MemberRoutes, PlanRoutes
  <2> QED
    BY <2>1, <2>2, <2>3, <2>4
<1> DEFINE at(s) == [step |-> s, by |-> t.who, claim |-> t.role, route |-> route,
                     target |-> target, to |-> to, frozen |-> FALSE, plan |-> plan]
<1>2. t \in [who : Admins, role : Roles]
  BY DEF TypeOK
<1>3. \A s \in {"perm", "gate"} : at(s) \in Asked /\ Complete(at(s))
  BY <1>1, <1>2 DEF Asked, Complete, Steps
<1>4. /\ req[r] = Idle
      /\ UNCHANGED <<members, access, billing, now, cache, raced>>
      /\ \/ t.role = "platform_admin" /\ req' = [req EXCEPT ![r] = at("perm")]
         \/ Fresh /\ ~cache.frozen /\ req' = [req EXCEPT ![r] = at("perm")]
         \/ req' = [req EXCEPT ![r] = at("gate")]
  BY <1>1 DEF Start
<1>5. \A s \in {"perm", "gate"} : req' = [req EXCEPT ![r] = at(s)] => RequestsOK' /\ OthersStay(r) /\ req'[r] = at(s)
  BY <1>3, OneMoves DEF OthersStay
<1>6. at("perm").step = "perm" /\ at("gate").step = "gate" /\ at("perm").claim = t.role
  OBVIOUS
<1> QED
  BY <1>4, <1>5, <1>6 DEF Idle

LEMMA ReadPlanGoes ==
    ASSUME RequestsOK, NEW r \in Requests, ReadPlan(r)
    PROVE  /\ RequestsOK' /\ OthersStay(r) /\ req[r].step = "gate" /\ req'[r].step = "store"
           /\ UNCHANGED <<members, access, billing, now, cache, raced>>
<1>1. PICK f \in {Frozen(now), FALSE} : req' = [req EXCEPT ![r].step = "store", ![r].frozen = f]
  BY DEF ReadPlan
<1> DEFINE v == [req[r] EXCEPT !.step = "store", !.frozen = f]
<1>2. req[r] \in Asked /\ Complete(req[r]) /\ f \in BOOLEAN
  BY DEF RequestsOK, Frozen
<1>3. v \in Asked /\ v.step = "store" /\ v.route = req[r].route /\ v.target = req[r].target
      /\ v.to = req[r].to /\ v.plan = req[r].plan
  BY <1>2 DEF Asked, Steps
<1>4. Complete(v)
  BY <1>2, <1>3 DEF Complete
<1>5. req' = [req EXCEPT ![r] = v]
  BY <1>1, <1>2 DEF RequestsOK
<1> QED
  BY <1>3, <1>4, <1>5, OneMoves DEF OthersStay, ReadPlan

LEMMA StorePlanGoes ==
    ASSUME RequestsOK, NEW r \in Requests, StorePlan(r)
    PROVE  /\ RequestsOK' /\ OthersStay(r) /\ req[r].step = "store"
           /\ IF req[r].frozen THEN req'[r] = Idle ELSE Went(r, "perm")
           /\ UNCHANGED <<members, access, billing, now>>
BY AnswerOK, StepGoes DEF StorePlan, OthersStay, Steps

LEMMA AuthorizeGoes ==
    ASSUME RequestsOK, NEW r \in Requests, Authorize(r)
    PROVE  /\ RequestsOK' /\ OthersStay(r) /\ req[r].step = "perm"
           /\ req'[r] = Idle \/ Went(r, "work")
           /\ UNCHANGED <<members, access, billing, now, cache, raced>>
BY AnswerOK, StepGoes DEF Authorize, OthersStay, Steps

\* The checks on members: what they have seen when the update comes next.
LEMMA CheckMemberGoes ==
    ASSUME RequestsOK, NEW r \in Requests, CheckMember(r)
    PROVE  /\ RequestsOK' /\ OthersStay(r) /\ req[r].step = "work"
           /\ req'[r] = Idle \/ (Went(r, "write") /\ LeavesOwner(r))
           /\ UNCHANGED <<members, access, billing, now, cache, raced>>
BY AnswerOK, StepGoes DEF CheckMember, OthersStay, Steps, LeavesOwner

LEMMA WriteMemberGoes ==
    ASSUME RequestsOK, NEW r \in Requests, WriteMember(r)
    PROVE  /\ RequestsOK' /\ OthersStay(r) /\ req[r].step = "write" /\ req'[r] = Idle
           /\ UNCHANGED <<access, billing, now, cache>>
BY AnswerOK DEF WriteMember, OthersStay

LEMMA CreateMemberGoes ==
    ASSUME RequestsOK, NEW r \in Requests, CreateMember(r)
    PROVE  /\ RequestsOK' /\ OthersStay(r) /\ req[r].step = "work" /\ req'[r] = Idle
           /\ UNCHANGED <<disabled, access, billing, now, cache, raced>>
BY AnswerOK DEF CreateMember, OthersStay

LEMMA CancelOldGoes ==
    ASSUME RequestsOK, NEW r \in Requests, CancelOld(r)
    PROVE  /\ RequestsOK' /\ OthersStay(r) /\ req[r].step = "work" /\ Went(r, "create")
           /\ UNCHANGED <<members, access, opened, paidPlan, now, cache>>
BY StepGoes DEF CancelOld, OthersStay, Steps

LEMMA OpenNewGoes ==
    ASSUME RequestsOK, NEW r \in Requests, OpenNew(r)
    PROVE  /\ RequestsOK' /\ OthersStay(r) /\ req[r].step = "create"
           /\ \/ Went(r, "shop") /\ subs' = subs \cup {Sub(req[r].plan)} /\ raced' = Disturbed(r)
              \/ req'[r] = Idle /\ subs' = subs /\ raced' = raced \cup {"renew"}
           /\ UNCHANGED <<members, access, paidPlan, now, cache>>
<1>1. req[r].route = "renew"
  BY DEF RequestsOK, Complete, OpenNew
<1> QED
  BY <1>1, AnswerOK, StepGoes DEF OpenNew, OthersStay, Steps

LEMMA UpdateShopGoes ==
    ASSUME RequestsOK, NEW r \in Requests, UpdateShop(r)
    PROVE  /\ RequestsOK' /\ OthersStay(r) /\ req[r].step = "shop" /\ Went(r, "clear")
           /\ UNCHANGED <<members, access, subs, opened, now, cache>>
BY StepGoes DEF UpdateShop, OthersStay, Steps

LEMMA SetPlanGoes ==
    ASSUME RequestsOK, NEW r \in Requests, SetPlan(r)
    PROVE  /\ RequestsOK' /\ OthersStay(r) /\ req[r].step = "work"
           /\ \/ Went(r, "clear") /\ subs' = {Sub(req[r].plan)} /\ paidPlan' = req[r].plan
                 /\ raced' = Disturbed(r)
              \/ req'[r] = Idle /\ UNCHANGED <<billing, raced>>
           /\ UNCHANGED <<members, access, now, cache>>
BY AnswerOK, StepGoes DEF SetPlan, Replaced, OthersStay, Steps

LEMMA ClearCacheGoes ==
    ASSUME RequestsOK, NEW r \in Requests, ClearCache(r)
    PROVE  /\ RequestsOK' /\ OthersStay(r) /\ req[r].step = "clear" /\ req'[r] = Idle /\ cache' = NoCache
           /\ UNCHANGED <<members, access, billing, now, raced>>
BY AnswerOK DEF ClearCache, Cleared, OthersStay

------------------------------------------------------------------------------
(* Types are invariant *)

LEMMA InitTypes == Init => TypeOK /\ RequestsOK
<1> SUFFICES ASSUME Init PROVE TypeOK /\ RequestsOK
  OBVIOUS
<1>1. RequestsOK
  BY IdleOK DEF Init, RequestsOK
<1>2. DefaultPerms \in [Roles -> SUBSET Permissions]
  BY DEF DefaultPerms, Permissions
<1>3. subs = {[id |-> 1, plan |-> paidPlan, exp |-> 0]} /\ opened = 1 /\ MaxSubs \in Nat \ {0}
  BY BackOfficeAssumption DEF Init
<1> QED
  BY <1>1, <1>2, <1>3, BackOfficeAssumption DEF Init, TypeOK, NoCache, Steps, Idle

LEMMA StepRequests ==
    ASSUME TypeOK, RequestsOK, [Next]_vars
    PROVE  RequestsOK'
<1>1. ASSUME NEW r \in Requests, Serve(r) PROVE RequestsOK'
  BY <1>1, ServeCases, ReadPlanGoes, StorePlanGoes, AuthorizeGoes, CheckMemberGoes, WriteMemberGoes,
     CreateMemberGoes, CancelOldGoes, OpenNewGoes, UpdateShopGoes, SetPlanGoes, ClearCacheGoes
<1>2. CASE UNCHANGED req
  BY <1>2 DEF RequestsOK, Complete
<1>3. CASE Restart
  BY <1>3, IdleOK DEF Restart, RequestsOK, Complete, Idle
<1> QED
  BY <1>1, <1>2, <1>3, NextCases, RequestStarts DEF vars, Login, Expire, SetPermissions, Tick

\* The parts of TypeOK.
MembersType ==
    /\ role \in [Admins -> Roles \cup {"none"}] /\ disabled \subseteq Admins
    /\ perms \in [Roles -> SUBSET Permissions]
    /\ tokens \subseteq [who : Admins, role : Roles]
    /\ \A t \in tokens : role[t.who] # "none"
    /\ revoked \subseteq Roles \X Permissions

BillingType ==
    /\ \A s \in subs : s.id \in 1..opened /\ s.plan \in Plans /\ s.exp \in Nat
    /\ opened \in 0..MaxSubs /\ paidPlan \in Plans

TimeType ==
    /\ now \in 0..MaxTime
    /\ cache \in [kept : BOOLEAN, frozen : BOOLEAN, at : 0..MaxTime] /\ cache.at <= now
    /\ raced \subseteq {"members", "gate", "renew"}

LEMMA TypeParts ==
    ASSUME RequestsOK
    PROVE  TypeOK <=> MembersType /\ BillingType /\ TimeType
<1>1. \A r \in Requests : req[r].step \in Steps /\ (req[r].step = "idle") = (req[r] = Idle)
  BY DEF RequestsOK, Asked, Complete, Idle
<1> QED
  BY <1>1 DEF TypeOK, MembersType, BillingType, TimeType

LEMMA TypePartsNext ==
    ASSUME RequestsOK'
    PROVE  TypeOK' <=> MembersType' /\ BillingType' /\ TimeType'
<1>1. \A r \in Requests : req'[r].step \in Steps /\ (req'[r].step = "idle") = (req'[r] = Idle)
  BY DEF RequestsOK, Asked, Complete, Idle
<1> QED
  BY <1>1 DEF TypeOK, MembersType, BillingType, TimeType

\* The sessions, the accounts and the permissions.
LEMMA StepMembersType ==
    ASSUME TypeOK, RequestsOK, MembersType, [Next]_vars
    PROVE  MembersType'
<1>1. CASE UNCHANGED <<role, disabled, perms, tokens, revoked>>
  BY <1>1 DEF MembersType
<1>2. ASSUME NEW a \in Admins, Login(a) PROVE MembersType'
  BY <1>2 DEF Login, MembersType, members
<1>3. ASSUME NEW t \in tokens, Expire(t) PROVE MembersType'
  BY <1>3 DEF Expire, MembersType, members
<1>4. ASSUME NEW r \in Requests, WriteMember(r) PROVE MembersType'
  <2>1. Complete(req[r]) /\ req[r].route \in {"role", "disable"} /\ req[r].target \in Admins
        /\ (req[r].route = "role" => req[r].to \in ManagedRoles)
    BY <1>4 DEF RequestsOK, Complete, WriteMember, MemberRoutes
  <2>2. /\ role' \in [Admins -> Roles \cup {"none"}] /\ disabled' \subseteq Admins
        /\ \A a \in Admins : role[a] # "none" => role'[a] # "none"
    BY <1>4, <2>1 DEF WriteMember, MembersType, ManagedRoles, Roles
  <2> QED
    BY <1>4, <2>2 DEF WriteMember, MembersType, access
<1>5. ASSUME NEW r \in Requests, CreateMember(r) PROVE MembersType'
  <2>1. req[r].target \in Admins /\ req[r].to \in ManagedRoles
    BY <1>5 DEF RequestsOK, Complete, CreateMember, MemberRoutes
  <2>2. /\ role' \in [Admins -> Roles \cup {"none"}]
        /\ \A a \in Admins : role[a] # "none" => role'[a] # "none"
    BY <1>5, <2>1 DEF CreateMember, MembersType, ManagedRoles, Roles
  <2> QED
    BY <1>5, <2>2 DEF CreateMember, MembersType, access
<1>6. ASSUME NEW r \in Requests, Serve(r) PROVE MembersType'
  BY <1>1, <1>4, <1>5, <1>6, ServeCases, ReadPlanGoes, StorePlanGoes, AuthorizeGoes, CheckMemberGoes,
     CancelOldGoes, OpenNewGoes, UpdateShopGoes, SetPlanGoes, ClearCacheGoes DEF members, access
<1>7. ASSUME NEW ro \in ManagedRoles, NEW ps \in SUBSET Permissions, SetPermissions(ro, ps) PROVE MembersType'
  <2>1. ro \in Roles
    BY DEF ManagedRoles, Roles
  <2>2. perms' \in [Roles -> SUBSET Permissions] /\ revoked' \subseteq Roles \X Permissions
    BY <1>7, <2>1 DEF SetPermissions, MembersType
  <2> QED
    BY <1>7, <2>2 DEF SetPermissions, MembersType, members
<1>8. CASE Restart
  <2>1. DefaultPerms \in [Roles -> SUBSET Permissions]
    BY DEF DefaultPerms, Permissions
  <2> QED
    BY <1>8, <2>1 DEF Restart, MembersType, members
<1> QED
  BY <1>1, <1>2, <1>3, <1>6, <1>7, <1>8, NextCases, RequestStarts DEF vars, Tick, members, access

\* Subscriptions have the numbers up to the last, and plans that are sold.
LEMMA StepBillingType ==
    ASSUME TypeOK, RequestsOK, BillingType, TimeType, [Next]_vars
    PROVE  BillingType'
<1>1. CASE UNCHANGED billing
  BY <1>1 DEF BillingType, billing
<1>2. ASSUME NEW r \in Requests, CancelOld(r) PROVE BillingType'
  BY <1>2 DEF CancelOld, BillingType
<1>3. ASSUME NEW p \in Plans
      PROVE  Sub(p).id = opened + 1 /\ Sub(p).plan \in Plans /\ Sub(p).exp \in Nat
  BY BackOfficeAssumption DEF Sub, TimeType
<1>4. ASSUME NEW r \in Requests, OpenNew(r) PROVE BillingType'
  <2>1. req[r].plan \in Plans
    BY <1>4 DEF RequestsOK, Complete, OpenNew, PlanRoutes
  <2>2. CASE opened < MaxSubs /\ subs' = subs \cup {Sub(req[r].plan)} /\ opened' = opened + 1
    <3>1. opened \in Nat /\ opened' \in 1..MaxSubs /\ \A i \in 1..opened : i \in 1..opened'
      BY <2>2, BackOfficeAssumption DEF BillingType
    <3>2. opened + 1 \in 1..opened'
      BY <2>2, <3>1
    <3> QED
      BY <1>3, <1>4, <2>1, <2>2, <3>1, <3>2 DEF OpenNew, BillingType
  <2>3. CASE UNCHANGED <<subs, opened>>
    BY <1>4, <2>3 DEF OpenNew, BillingType
  <2> QED
    BY <1>4, <2>2, <2>3 DEF OpenNew
<1>5. ASSUME NEW r \in Requests, UpdateShop(r) PROVE BillingType'
  <2>1. req[r].plan \in Plans
    BY <1>5 DEF RequestsOK, Complete, UpdateShop, PlanRoutes
  <2> QED
    BY <1>5, <2>1 DEF UpdateShop, BillingType
<1>6. ASSUME NEW r \in Requests, SetPlan(r) PROVE BillingType'
  <2>1. req[r].plan \in Plans
    BY <1>6 DEF RequestsOK, Complete, SetPlan, PlanRoutes
  <2>2. CASE opened < MaxSubs /\ Replaced(req[r].plan)
    <3>1. opened \in Nat /\ opened' \in 1..MaxSubs /\ opened + 1 \in 1..opened'
      BY <2>2, BackOfficeAssumption DEF BillingType, Replaced
    <3> QED
      BY <1>3, <2>1, <2>2, <3>1 DEF Replaced, BillingType
  <2> QED
    BY <1>1, <1>6, <2>2 DEF SetPlan
<1>7. ASSUME NEW r \in Requests, Serve(r) PROVE BillingType'
  BY <1>1, <1>2, <1>4, <1>5, <1>6, <1>7, ServeCases, ReadPlanGoes, StorePlanGoes, AuthorizeGoes, CheckMemberGoes,
     WriteMemberGoes, CreateMemberGoes, ClearCacheGoes
<1> QED
  BY <1>1, <1>7, NextCases, RequestStarts DEF vars, Login, Expire, SetPermissions, Restart, Tick

\* A verdict is not from the future.
LEMMA StepTimeType ==
    ASSUME TypeOK, RequestsOK, TimeType, [Next]_vars
    PROVE  TimeType'
<1>1. CASE UNCHANGED <<now, cache>> /\ raced' \subseteq raced \cup {"members", "gate", "renew"}
  BY <1>1 DEF TimeType
<1>2. NoCache \in [kept : BOOLEAN, frozen : BOOLEAN, at : 0..MaxTime] /\ NoCache.at = 0
  BY BackOfficeAssumption DEF NoCache
<1>3. ASSUME NEW r \in Requests, StorePlan(r) PROVE TimeType'
  <2>1. req[r].frozen \in BOOLEAN
    BY DEF RequestsOK, Asked
  <2> DEFINE c == [kept |-> TRUE, frozen |-> req[r].frozen, at |-> now]
  <2>2. c \in [kept : BOOLEAN, frozen : BOOLEAN, at : 0..MaxTime] /\ c.at = now
    BY <2>1 DEF TimeType
  <2>3. cache' = c /\ now' = now /\ raced' \subseteq raced \cup {"gate"}
    BY <1>3 DEF StorePlan
  <2> QED
    BY <2>2, <2>3 DEF TimeType
<1>4. ASSUME NEW r \in Requests, ClearCache(r) PROVE TimeType'
  BY <1>2, <1>4, ClearCacheGoes DEF TimeType
<1>5. ASSUME NEW r \in Requests, WriteMember(r) \/ CancelOld(r) \/ OpenNew(r) \/ UpdateShop(r) \/ SetPlan(r)
      PROVE  TimeType'
  BY <1>1, <1>5 DEF WriteMember, CancelOld, OpenNew, UpdateShop, SetPlan, Disturbed, billing
<1>6. ASSUME NEW r \in Requests, Serve(r) PROVE TimeType'
  BY <1>1, <1>3, <1>4, <1>5, <1>6, ServeCases, ReadPlanGoes, AuthorizeGoes, CheckMemberGoes, CreateMemberGoes
<1>7. CASE Restart
  BY <1>2, <1>7 DEF Restart, TimeType
<1>8. CASE Tick
  BY <1>8, BackOfficeAssumption DEF Tick, TimeType
<1> QED
  BY <1>1, <1>6, <1>7, <1>8, NextCases, RequestStarts DEF vars, Login, Expire, SetPermissions

LEMMA StepTypes ==
    ASSUME TypeOK, RequestsOK, [Next]_vars
    PROVE  TypeOK' /\ RequestsOK'
BY StepRequests, TypeParts, TypePartsNext, StepMembersType, StepBillingType, StepTimeType

\* Every reachable state of the back office is well typed: a session is of an
\* account that exists, and a request has what its handler needs.
THEOREM OfficeTypes == Spec => [](TypeOK /\ RequestsOK)
BY InitTypes, StepTypes, PTL DEF Spec

------------------------------------------------------------------------------
(* An owner remains *)

LEMMA InitMembers == Init => MembersInv
BY BackOfficeAssumption DEF Init, MembersInv, HasOwner, Idle

\* Nothing that removes an account, and nobody newly about to.
MembersRest ==
    /\ UNCHANGED <<role, disabled>> /\ ("members" \in raced => "members" \in raced')
    /\ \A r \in Requests : req'[r].step = "write" => req'[r] = req[r]

LEMMA MembersFrame ==
    ASSUME MembersInv, MembersRest
    PROVE  MembersInv'
BY DEF MembersInv, MembersRest, HasOwner, LeavesOwner, OtherOwners

\* A check: what it has seen holds of the table it has read.
LEMMA CheckKeepsOwner ==
    ASSUME RequestsOK, MembersInv, NEW r \in Requests, CheckMember(r)
    PROVE  MembersInv'
<1>1. ASSUME Went(r, "write"), LeavesOwner(r) PROVE LeavesOwner(r)'
  BY <1>1, CheckMemberGoes DEF LeavesOwner, OtherOwners, Went, members
<1>2. ASSUME NEW q \in Requests, q # r, LeavesOwner(q) PROVE LeavesOwner(q)'
  BY <1>2, CheckMemberGoes DEF LeavesOwner, OtherOwners, OthersStay, members
<1> QED
  BY <1>1, <1>2, CheckMemberGoes DEF MembersInv, HasOwner, OthersStay, members, Idle

\* An update alone: nobody else is about to write, and the owner the check has counted is still there.
LEMMA WriteKeepsOwner ==
    ASSUME TypeOK, RequestsOK, MembersInv, NEW r \in Requests, WriteMember(r)
    PROVE  MembersInv'
<1> SUFFICES ASSUME "members" \notin raced'
             PROVE  HasOwner' /\ \A q \in Requests : req'[q].step = "write" => LeavesOwner(q)'
  BY DEF MembersInv
<1> DEFINE a == req[r].target
<1>1. "members" \notin raced /\ \A q \in Requests \ {r} : req[q].step # "write"
  BY DEF WriteMember
<1>2. \A q \in Requests : req'[q].step # "write"
  BY <1>1, WriteMemberGoes DEF OthersStay, Idle
<1>3. HasOwner /\ LeavesOwner(r)
  BY <1>1, WriteMemberGoes DEF MembersInv
<1>4. a \in Admins /\ req[r].route \in {"role", "disable"} /\ (req[r].route = "role" => req[r].to \in ManagedRoles)
  BY WriteMemberGoes DEF RequestsOK, Complete, MemberRoutes
<1>5. role \in [Admins -> Roles \cup {"none"}]
  BY DEF TypeOK
<1>6. CASE role[a] = "owner" /\ (req[r].route = "disable" \/ req[r].to = "staff")
  <2>1. PICK x \in Admins \ (disabled \cup {a}) : role[x] = "owner"
    BY <1>3, <1>6 DEF LeavesOwner, OtherOwners
  <2>2. x \notin disabled' /\ role'[x] = "owner"
    BY <1>4, <1>5, <2>1 DEF WriteMember
  <2> QED
    BY <1>2, <2>2 DEF HasOwner
<1>7. CASE ~(role[a] = "owner" /\ (req[r].route = "disable" \/ req[r].to = "staff"))
  <2>1. PICK x \in Admins \ disabled : role[x] = "owner"
    BY <1>3 DEF HasOwner
  <2>2. CASE req[r].route = "role"
    <3>1. x = a => req[r].to = "owner"
      BY <1>4, <1>7, <2>1, <2>2 DEF ManagedRoles
    <3> QED
      BY <1>2, <1>4, <1>5, <2>1, <2>2, <3>1 DEF WriteMember, HasOwner
  <2>3. CASE req[r].route = "disable"
    BY <1>2, <1>4, <1>7, <2>1, <2>3 DEF WriteMember, HasOwner
  <2> QED
    BY <1>4, <2>2, <2>3
<1> QED
  BY <1>6, <1>7

\* A new account takes nothing away.
LEMMA CreateKeepsOwner ==
    ASSUME TypeOK, RequestsOK, MembersInv, NEW r \in Requests, CreateMember(r)
    PROVE  MembersInv'
<1>1. role \in [Admins -> Roles \cup {"none"}]
  BY DEF TypeOK
<1>2. \A a \in Admins : role[a] # "none" => role'[a] = role[a]
  BY <1>1 DEF CreateMember
<1>3. UNCHANGED <<disabled, raced>>
  BY DEF CreateMember
<1>4. ASSUME NEW q \in Requests, req'[q].step = "write", LeavesOwner(q), q # r
      PROVE  LeavesOwner(q)'
  <2>1. req'[q] = req[q] /\ Complete(req[q]) /\ req[q].target \in Admins
    BY <1>4, CreateMemberGoes DEF OthersStay, RequestsOK, Complete, MemberRoutes
  <2>2. role'[req[q].target] = role[req[q].target]
    BY <1>2, <1>4, <2>1 DEF LeavesOwner
  <2>3. OtherOwners(req[q].target) \subseteq OtherOwners(req[q].target)'
    BY <1>2, <1>3, <2>1 DEF OtherOwners
  <2> QED
    BY <1>4, <2>1, <2>2, <2>3 DEF LeavesOwner
<1>5. HasOwner => HasOwner'
  BY <1>2, <1>3 DEF HasOwner
<1>6. \A q \in Requests : req'[q].step = "write" => q # r /\ req'[q] = req[q]
  BY CreateMemberGoes DEF OthersStay, Idle
<1> QED
  BY <1>3, <1>4, <1>5, <1>6 DEF MembersInv

LEMMA StepMembers ==
    ASSUME TypeOK, RequestsOK, MembersInv, [Next]_vars
    PROVE  MembersInv'
<1>1. ASSUME NEW r \in Requests, Serve(r) PROVE MembersInv'
  <2>1. CASE ReadPlan(r) \/ StorePlan(r) \/ Authorize(r)
    <3>1. raced \subseteq raced'
      BY <2>1 DEF ReadPlan, StorePlan, Authorize
    <3>2. MembersRest
      BY <2>1, <3>1, ReadPlanGoes, StorePlanGoes, AuthorizeGoes DEF MembersRest, OthersStay, Went, Idle, members
    <3> QED
      BY <3>2, MembersFrame
  <2>2. CASE CancelOld(r) \/ OpenNew(r) \/ UpdateShop(r) \/ SetPlan(r) \/ ClearCache(r)
    <3>1. raced \subseteq raced'
      BY <2>2 DEF CancelOld, OpenNew, UpdateShop, SetPlan, ClearCache, Disturbed
    <3>2. MembersRest
      BY <2>2, <3>1, CancelOldGoes, OpenNewGoes, UpdateShopGoes, SetPlanGoes, ClearCacheGoes
         DEF MembersRest, OthersStay, Went, Idle, members
    <3> QED
      BY <3>2, MembersFrame
  <2> QED
    BY <1>1, <2>1, <2>2, ServeCases, CheckKeepsOwner, WriteKeepsOwner, CreateKeepsOwner
<1>2. ASSUME NEW r \in Requests, Request(r) PROVE MembersInv'
  <2>1. MembersRest
    BY <1>2, RequestStarts DEF MembersRest, OthersStay, members
  <2> QED
    BY <2>1, MembersFrame
<1>3. CASE UNCHANGED <<members, req, raced>>
  BY <1>3, MembersFrame DEF MembersRest, members
<1>4. CASE Restart
  <2>1. MembersRest
    BY <1>4 DEF Restart, MembersRest, members, Idle
  <2> QED
    BY <2>1, MembersFrame
<1> QED
  BY <1>1, <1>2, <1>3, <1>4, NextCases DEF vars, Login, Expire, SetPermissions, Tick

\* For any number of accounts and of requests at once, the shop keeps an owner who can
\* sign in, unless two updates of members overlapped: the guards of
\* changeMemberRoleHandler and disableMemberHandler (api/members.go) are enough for
\* requests one after the other.
THEOREM AnOwnerRemains == Spec => []OwnerRemains
<1>1. MembersInv => OwnerRemains
  BY DEF MembersInv, HasOwner, OwnerRemains
<1> QED
  BY <1>1, InitTypes, StepTypes, InitMembers, StepMembers, PTL DEF Spec

------------------------------------------------------------------------------
(* The plan of the shop *)

LEMMA InitPlan == Init => PlanInv
BY DEF Init, PlanInv, OnlyOpen, Renewing, Idle

\* Nothing that touches the subscriptions, and nobody enters or leaves a renewal unseen.
PlanRest ==
    /\ UNCHANGED <<subs, paidPlan>> /\ ("renew" \in raced => "renew" \in raced')
    /\ \A r \in Requests : Renewing(r) \/ Renewing(r)' => req'[r] = req[r]

LEMMA PlanFrame ==
    ASSUME PlanInv, PlanRest
    PROVE  PlanInv'
<1> SUFFICES ASSUME "renew" \notin raced'
             PROVE  /\ (\A r \in Requests : ~Renewing(r)') => OnlyOpen(paidPlan)'
                    /\ \A r, q \in Requests : Renewing(r)' /\ Renewing(q)' => r = q
                    /\ \A r \in Requests : req'[r].step = "create" => subs' = {}
                    /\ \A r \in Requests : req'[r].step = "shop" => OnlyOpen(req[r].plan)'
  BY DEF PlanInv, PlanRest, Renewing
<1>1. "renew" \notin raced /\ \A r \in Requests : Renewing(r)' <=> Renewing(r)
  BY DEF PlanRest, Renewing
<1>2. \A p : OnlyOpen(p)' <=> \E s \in subs : subs = {s} /\ s.plan = p
  BY DEF PlanRest, OnlyOpen
<1>3. \A r \in Requests : req'[r].step \in {"create", "shop"} => req'[r] = req[r]
  BY DEF PlanRest, Renewing
<1>4. subs' = subs /\ paidPlan' = paidPlan
  BY DEF PlanRest
<1> QED
  BY <1>1, <1>3, <1>4 DEF PlanInv, OnlyOpen

\* One request moves and the renewals of the others are not disturbed.
LEMMA Undisturbed ==
    ASSUME NEW r \in Requests, OthersStay(r), raced' = Disturbed(r), "renew" \notin raced'
    PROVE  "renew" \notin raced /\ \A q \in Requests : q # r => ~Renewing(q) /\ ~Renewing(q)'
<1>1. "renew" \notin raced /\ \A q \in Requests \ {r} : ~Renewing(q)
  BY DEF Disturbed
<1> QED
  BY <1>1 DEF OthersStay, Renewing

LEMMA CancelKeepsPlan ==
    ASSUME RequestsOK, PlanInv, NEW r \in Requests, CancelOld(r)
    PROVE  PlanInv'
<1> SUFFICES ASSUME "renew" \notin raced' PROVE PlanInv'
  BY DEF PlanInv
<1>1. subs' = {} /\ raced' = Disturbed(r)
  BY DEF CancelOld
<1>2. OthersStay(r) /\ Went(r, "create")
  BY CancelOldGoes
<1> QED
  BY <1>1, <1>2, Undisturbed DEF PlanInv, Renewing, Went

LEMMA OpenKeepsPlan ==
    ASSUME RequestsOK, PlanInv, NEW r \in Requests, OpenNew(r)
    PROVE  PlanInv'
<1> SUFFICES ASSUME "renew" \notin raced' PROVE PlanInv'
  BY DEF PlanInv
<1>1. OthersStay(r) /\ Went(r, "shop") /\ subs' = subs \cup {Sub(req[r].plan)} /\ raced' = Disturbed(r)
  BY OpenNewGoes
<1>2. subs = {}
  BY <1>1, Undisturbed, OpenNewGoes DEF PlanInv
<1>3. OnlyOpen(req[r].plan)' <=> \E s \in subs' : subs' = {s} /\ s.plan = req'[r].plan
  BY DEF OnlyOpen
<1>4. subs' = {Sub(req[r].plan)} /\ Sub(req[r].plan).plan = req'[r].plan
  BY <1>1, <1>2 DEF Sub, Went
<1> QED
  BY <1>1, <1>3, <1>4, Undisturbed DEF PlanInv, Renewing, Went

LEMMA UpdateKeepsPlan ==
    ASSUME RequestsOK, PlanInv, NEW r \in Requests, UpdateShop(r)
    PROVE  PlanInv'
<1> SUFFICES ASSUME "renew" \notin raced' PROVE PlanInv'
  BY DEF PlanInv
<1>1. paidPlan' = req[r].plan /\ raced' = Disturbed(r)
  BY DEF UpdateShop
<1>2. OthersStay(r) /\ Went(r, "clear") /\ subs' = subs
  BY UpdateShopGoes
<1>3. "renew" \notin raced /\ \A q \in Requests : ~Renewing(q)'
  BY <1>1, <1>2, Undisturbed DEF Renewing, Went
<1>4. \E s \in subs : subs = {s} /\ s.plan = req[r].plan
  BY <1>3, UpdateShopGoes DEF PlanInv, OnlyOpen
<1> QED
  BY <1>1, <1>2, <1>3, <1>4 DEF PlanInv, OnlyOpen, Renewing

LEMMA SetKeepsPlan ==
    ASSUME RequestsOK, PlanInv, NEW r \in Requests, SetPlan(r)
    PROVE  PlanInv'
<1>1. CASE req'[r] = Idle /\ UNCHANGED <<billing, raced>>
  <2>1. PlanRest
    BY <1>1, SetPlanGoes DEF PlanRest, OthersStay, Renewing, Idle, billing
  <2> QED
    BY <2>1, PlanFrame
<1>2. CASE Went(r, "clear") /\ subs' = {Sub(req[r].plan)} /\ paidPlan' = req[r].plan /\ raced' = Disturbed(r)
  <2> SUFFICES ASSUME "renew" \notin raced' PROVE PlanInv'
    BY DEF PlanInv
  <2>1. \A q \in Requests : ~Renewing(q)'
    BY <1>2, SetPlanGoes, Undisturbed DEF Renewing, Went
  <2>2. OnlyOpen(paidPlan)'
    BY <1>2 DEF OnlyOpen, Sub
  <2> QED
    BY <2>1, <2>2 DEF PlanInv, Renewing
<1> QED
  BY <1>1, <1>2, SetPlanGoes

LEMMA StepPlan ==
    ASSUME TypeOK, RequestsOK, PlanInv, [Next]_vars
    PROVE  PlanInv'
<1>1. ASSUME NEW r \in Requests, Serve(r) PROVE PlanInv'
  <2>1. CASE ReadPlan(r) \/ StorePlan(r) \/ Authorize(r) \/ CheckMember(r) \/ WriteMember(r) \/ CreateMember(r)
             \/ ClearCache(r)
    <3>1. raced \subseteq raced'
      BY <2>1 DEF ReadPlan, StorePlan, Authorize, CheckMember, WriteMember, CreateMember, ClearCache
    <3>2. PlanRest
      BY <2>1, <3>1, ReadPlanGoes, StorePlanGoes, AuthorizeGoes, CheckMemberGoes, WriteMemberGoes,
         CreateMemberGoes, ClearCacheGoes DEF PlanRest, OthersStay, Went, Idle, billing, Renewing
    <3> QED
      BY <3>2, PlanFrame
  <2> QED
    BY <1>1, <2>1, ServeCases, CancelKeepsPlan, OpenKeepsPlan, UpdateKeepsPlan, SetKeepsPlan
<1>2. ASSUME NEW r \in Requests, Request(r) PROVE PlanInv'
  <2>1. PlanRest
    BY <1>2, RequestStarts DEF PlanRest, OthersStay, billing, Renewing
  <2> QED
    BY <2>1, PlanFrame
<1>3. CASE UNCHANGED <<billing, req, raced>>
  BY <1>3, PlanFrame DEF PlanRest, billing
<1>4. CASE Restart
  <2> SUFFICES ASSUME "renew" \notin raced' PROVE PlanInv'
    BY DEF PlanInv
  <2>1. raced' = raced /\ \A r \in Requests : ~Renewing(r) /\ ~Renewing(r)'
    BY <1>4 DEF Restart, Renewing, Idle
  <2>2. PlanRest
    BY <1>4, <2>1 DEF Restart, PlanRest, billing
  <2> QED
    BY <2>2, PlanFrame
<1> QED
  BY <1>1, <1>2, <1>3, <1>4, NextCases DEF vars, Login, Expire, SetPermissions, Tick

------------------------------------------------------------------------------
(* The verdict on the plan *)

\* No subscription lasts longer than one that is opened now, so one of them ends last.
ExpiryInv == \A s \in subs : s.exp <= now + Month

LEMMA StepExpiry ==
    ASSUME TypeOK, RequestsOK, ExpiryInv, [Next]_vars
    PROVE  ExpiryInv'
<1>1. now \in Nat /\ Month \in Nat /\ \A s \in subs : s.exp \in Nat
  BY BackOfficeAssumption DEF TypeOK
<1>2. CASE subs' \subseteq subs /\ now' = now
  BY <1>2 DEF ExpiryInv
<1>3. ASSUME NEW p, subs' \subseteq subs \cup {Sub(p)}, now' = now PROVE ExpiryInv'
  BY <1>1, <1>3 DEF ExpiryInv, Sub
<1>4. ASSUME NEW r \in Requests, Serve(r) PROVE ExpiryInv'
  <2>1. CASE SetPlan(r)
    <3>1. now' = now /\ \E p \in {req[r].plan} : subs' \subseteq subs \cup {Sub(p)}
      BY <2>1, SetPlanGoes DEF billing
    <3> QED
      BY <1>3, <3>1
  <2>2. CASE OpenNew(r)
    <3>1. now' = now /\ \E p \in {req[r].plan} : subs' \subseteq subs \cup {Sub(p)}
      BY <2>2, OpenNewGoes
    <3> QED
      BY <1>3, <3>1
  <2>3. CASE CancelOld(r)
    BY <1>2, <2>3 DEF CancelOld
  <2> QED
    BY <1>2, <1>4, <2>1, <2>2, <2>3, ServeCases, ReadPlanGoes, StorePlanGoes, AuthorizeGoes, CheckMemberGoes,
       WriteMemberGoes, CreateMemberGoes, UpdateShopGoes, ClearCacheGoes DEF billing
<1>5. CASE Tick
  BY <1>1, <1>5 DEF Tick, billing, ExpiryInv
<1> QED
  BY <1>2, <1>4, <1>5, NextCases, RequestStarts DEF vars, Login, Expire, SetPermissions, Restart, billing

LEMMA LastIsLast ==
    TypeOK /\ ExpiryInv /\ subs # {} => LastExpiry \in Nat /\ \A s \in subs : s.exp <= LastExpiry
<1> SUFFICES ASSUME TypeOK, ExpiryInv, subs # {}
             PROVE  LastExpiry \in Nat /\ \A s \in subs : s.exp <= LastExpiry
  OBVIOUS
<1> DEFINE N == now + Month
           T == {N - s.exp : s \in subs}
<1>1. N \in Nat /\ \A s \in subs : s.exp \in Nat /\ s.exp <= N
  BY BackOfficeAssumption DEF TypeOK, ExpiryInv
<1>2. T \subseteq Nat /\ T # {}
  BY <1>1
<1>3. IsWellFoundedOn({p \in Nat \X Nat : p[1] < p[2]}, Nat)
  BY NatLessThanWellFounded DEF OpToRel
<1>4. \E x \in T : \A y \in T : ~(y < x)
  <2> DEFINE R == {p \in Nat \X Nat : p[1] < p[2]}
  <2>1. \E x \in T : \A y \in T : ~(<<y, x>> \in R)
    <3> HIDE DEF T, R
    <3> QED
      BY <1>2, <1>3, WFMin DEF R
  <2> QED
    BY <1>2, <2>1
<1>5. PICK l \in subs : \A s \in subs : ~(N - s.exp < N - l.exp)
  BY <1>4
<1>6. \A s \in subs : s.exp <= l.exp
  BY <1>1, <1>5
<1>7. LastExpiry \in {s.exp : s \in subs} /\ \A s \in subs : s.exp <= LastExpiry
  BY <1>6 DEF LastExpiry
<1> QED
  BY <1>1, <1>7

\* Who is frozen has not paid, and stays frozen if nothing is paid.
LEMMA FrozenIsUnpaid ==
    ASSUME TypeOK, ExpiryInv, NEW t \in Nat, Frozen(t), t <= now
    PROVE  ~Paid
<1>1. subs # {} /\ LastExpiry \in Nat /\ \A s \in subs : s.exp \in Nat /\ s.exp <= LastExpiry
  BY LastIsLast DEF Frozen, TypeOK
<1> QED
  BY <1>1, BackOfficeAssumption DEF Frozen, Paid, TypeOK

LEMMA FrozenForGood ==
    ASSUME TypeOK, ExpiryInv, NEW t \in Int, NEW u \in Int, t <= u, Frozen(t)
    PROVE  Frozen(u)
<1>1. subs # {} /\ LastExpiry \in Nat
  BY LastIsLast DEF Frozen
<1> QED
  BY <1>1, BackOfficeAssumption DEF Frozen

\* A subscription that has just been opened thaws the shop.
LEMMA NewThaws ==
    ASSUME TypeOK, TypeOK', ExpiryInv', NEW p, Sub(p) \in subs', NEW t \in Nat, t <= now
    PROVE  ~Frozen(t)'
<1>0. (TypeOK /\ ExpiryInv /\ subs # {} => LastExpiry \in Nat /\ \A s \in subs : s.exp <= LastExpiry)'
  BY LastIsLast, PTL
<1>1. subs' # {} /\ LastExpiry' \in Nat /\ Sub(p).exp <= LastExpiry'
  BY <1>0
<1>2. Sub(p).exp = now + Month /\ now \in Nat /\ Month \in Nat /\ Grace \in Nat
  BY BackOfficeAssumption DEF Sub, TypeOK
<1>3. \A e \in Nat : now + Month <= e => ~(e + Grace < t)
  BY <1>2
<1>4. now + Month <= LastExpiry' /\ LastExpiry' \in Nat
  BY <1>1, <1>2
<1>5. ~(LastExpiry' + Grace < t)
  BY <1>3, <1>4
<1> QED
  BY <1>5 DEF Frozen

LEMMA InitVerdict == Init => VerdictInv /\ ExpiryInv
BY BackOfficeAssumption DEF Init, VerdictInv, ExpiryInv, NoCache

\* The verdict, the subscriptions and the clock stay; who will clear the cache still will.
VerdictRest ==
    /\ UNCHANGED <<subs, now, cache>> /\ ("gate" \in raced => "gate" \in raced')
    /\ WillClear => WillClear'

LEMMA VerdictFrame ==
    ASSUME VerdictInv, VerdictRest
    PROVE  VerdictInv'
<1>1. LastExpiry' = LastExpiry
  BY DEF LastExpiry, VerdictRest
<1> QED
  BY <1>1 DEF VerdictInv, VerdictRest, Paid, Frozen

\* A request that is not about to clear the cache moves.
LEMMA WillStillClear ==
    ASSUME NEW r \in Requests, OthersStay(r), req[r].step \notin {"shop", "clear"} \/ req'[r].step \in {"shop", "clear"},
           WillClear
    PROVE  WillClear'
BY DEF WillClear, OthersStay

\* A verdict is kept: it was true of the subscriptions, unless the race is noted.
LEMMA StoreKeepsVerdict ==
    ASSUME TypeOK, TypeOK', RequestsOK, ExpiryInv, VerdictInv, NEW r \in Requests, StorePlan(r)
    PROVE  VerdictInv'
<1> SUFFICES ASSUME "gate" \notin raced'
             PROVE  (cache'.frozen => ~Paid') /\ (~cache'.frozen => ~Frozen(cache.at)')
  BY DEF VerdictInv
<1>1. req[r].frozen <=> Frozen(now)
  <2>1. req[r].frozen \in BOOLEAN /\ Frozen(now) \in BOOLEAN
    BY DEF RequestsOK, Asked, Frozen
  <2>2. req[r].frozen = Frozen(now)
    BY DEF StorePlan
  <2> QED
    BY <2>1, <2>2
<1>2. cache'.frozen = req[r].frozen /\ cache'.at = now
  BY DEF StorePlan
<1>3. UNCHANGED <<subs, now>>
  BY StorePlanGoes DEF billing
<1>4. LastExpiry' = LastExpiry
  BY <1>3 DEF LastExpiry
<1>5. now \in Nat
  BY DEF TypeOK
<1>6. Frozen(now) => ~Paid
  BY <1>5, FrozenIsUnpaid
<1> QED
  BY <1>1, <1>2, <1>3, <1>4, <1>6 DEF Paid, Frozen

\* Who pays thaws the shop and will clear the cache.
LEMMA PayKeepsVerdict ==
    ASSUME TypeOK, TypeOK', ExpiryInv', NEW p, Sub(p) \in subs', UNCHANGED <<now, cache>>, WillClear'
    PROVE  VerdictInv'
<1>1. cache.at \in Nat /\ cache.at <= now
  BY DEF TypeOK
<1>2. ~Frozen(cache.at)'
  <2>1. \A t \in Nat : t <= now => ~Frozen(t)'
    BY NewThaws
  <2>2. \A t \in Nat : t <= now => ~(subs' # {} /\ LastExpiry' + Grace < t)
    BY <2>1 DEF Frozen
  <2> QED
    BY <1>1, <2>2 DEF Frozen
<1> QED
  BY <1>2 DEF VerdictInv

LEMMA StepVerdict ==
    ASSUME TypeOK, TypeOK', RequestsOK, ExpiryInv, ExpiryInv', VerdictInv, [Next]_vars
    PROVE  VerdictInv'
<1>1. ASSUME NEW r \in Requests, Serve(r) PROVE VerdictInv'
  <2>1. CASE ReadPlan(r) \/ Authorize(r) \/ CheckMember(r) \/ WriteMember(r) \/ CreateMember(r) \/ UpdateShop(r)
    <3>1. raced \subseteq raced'
      BY <2>1 DEF ReadPlan, Authorize, CheckMember, WriteMember, CreateMember, UpdateShop, Disturbed
    <3>2. UNCHANGED <<subs, now, cache>> /\ OthersStay(r)
          /\ (req[r].step \notin {"shop", "clear"} \/ req'[r].step \in {"shop", "clear"})
      BY <2>1, ReadPlanGoes, AuthorizeGoes, CheckMemberGoes, WriteMemberGoes, CreateMemberGoes, UpdateShopGoes
         DEF billing, Went
    <3> QED
      BY <3>1, <3>2, WillStillClear, VerdictFrame DEF VerdictRest
  <2>2. CASE CancelOld(r)
    <3>1. raced \subseteq raced' /\ (subs' = subs \/ subs' = {})
      BY <2>2 DEF CancelOld, Disturbed
    <3>2. CASE subs' = subs
      <4>1. VerdictRest
        BY <2>2, <3>1, <3>2, CancelOldGoes, WillStillClear DEF VerdictRest
      <4> QED
        BY <4>1, VerdictFrame
    <3>3. CASE subs' = {}
      BY <3>3 DEF VerdictInv, Paid, Frozen
    <3> QED
      BY <3>1, <3>2, <3>3
  <2>3. CASE OpenNew(r)
    <3>1. CASE Went(r, "shop") /\ subs' = subs \cup {Sub(req[r].plan)}
      <4>1. WillClear'
        BY <3>1 DEF WillClear, Went
      <4>2. \E p \in {req[r].plan} : Sub(p) \in subs'
        BY <3>1
      <4>3. UNCHANGED <<now, cache>>
        BY <2>3, OpenNewGoes
      <4> QED
        BY <4>1, <4>2, <4>3, PayKeepsVerdict
    <3>2. CASE req'[r] = Idle /\ subs' = subs /\ raced' = raced \cup {"renew"}
      <4>1. VerdictRest
        BY <2>3, <3>2, OpenNewGoes, WillStillClear DEF VerdictRest
      <4> QED
        BY <4>1, VerdictFrame
    <3> QED
      BY <2>3, <3>1, <3>2, OpenNewGoes
  <2>4. CASE SetPlan(r)
    <3>1. CASE Went(r, "clear") /\ subs' = {Sub(req[r].plan)}
      <4>1. WillClear'
        BY <3>1 DEF WillClear, Went
      <4>2. \E p \in {req[r].plan} : Sub(p) \in subs'
        BY <3>1
      <4>3. UNCHANGED <<now, cache>>
        BY <2>4, SetPlanGoes
      <4> QED
        BY <4>1, <4>2, <4>3, PayKeepsVerdict
    <3>2. CASE req'[r] = Idle /\ UNCHANGED <<billing, raced>>
      <4>1. VerdictRest
        BY <2>4, <3>2, SetPlanGoes, WillStillClear DEF VerdictRest, billing
      <4> QED
        BY <4>1, VerdictFrame
    <3> QED
      BY <2>4, <3>1, <3>2, SetPlanGoes
  <2>5. CASE ClearCache(r)
    BY <2>5, ClearCacheGoes DEF VerdictInv, NoCache
  <2> QED
    BY <1>1, <2>1, <2>2, <2>3, <2>4, <2>5, ServeCases, StoreKeepsVerdict
<1>2. ASSUME NEW r \in Requests, Request(r) PROVE VerdictInv'
  <2>1. VerdictRest
    BY <1>2, RequestStarts, WillStillClear DEF VerdictRest, billing
  <2> QED
    BY <2>1, VerdictFrame
<1>3. CASE UNCHANGED <<billing, now, cache, req, raced>>
  BY <1>3, VerdictFrame DEF VerdictRest, WillClear, billing
<1>4. CASE Restart
  BY <1>4 DEF Restart, VerdictInv, NoCache
<1>5. CASE Tick
  <2>1. now \in Nat /\ now' = now + 1 /\ UNCHANGED <<subs, cache, req, raced>> /\ \A s \in subs : s.exp \in Nat
    BY <1>5 DEF Tick, billing, TypeOK
  <2>2. LastExpiry' = LastExpiry
    BY <2>1 DEF LastExpiry
  <2>3. Paid' => Paid
    BY <2>1 DEF Paid
  <2> QED
    BY <2>1, <2>2, <2>3 DEF VerdictInv, Frozen, WillClear
<1> QED
  BY <1>1, <1>2, <1>3, <1>4, <1>5, NextCases DEF vars, Login, Expire, SetPermissions

LEMMA OfficeSteps ==
    Spec => [](TypeOK /\ RequestsOK /\ ExpiryInv /\ OfficeInv)
<1>1. Init => TypeOK /\ RequestsOK /\ ExpiryInv /\ OfficeInv
  BY InitTypes, InitMembers, InitPlan, InitVerdict DEF OfficeInv
<1>2. TypeOK /\ RequestsOK /\ ExpiryInv /\ OfficeInv /\ [Next]_vars
      => (TypeOK /\ RequestsOK /\ ExpiryInv /\ OfficeInv)'
  BY StepTypes, StepExpiry, StepMembers, StepPlan, StepVerdict DEF OfficeInv
<1> QED
  BY <1>1, <1>2, PTL DEF Spec

\* The shop has the plan of its only open subscription, outside a renewal and unless one
\* was disturbed or failed, and no kept verdict refuses a shop that has paid, unless it was
\* read before the payment and kept after it (RequirePlanActive, renewSubscriptionHandler
\* and platformSetShopPlanHandler).
THEOREM PaidShopsAreServed == Spec => []PlanIsServed
<1>1. PlanInv => PlanIsTheOnePaid
  BY DEF PlanInv, PlanIsTheOnePaid, OnlyOpen
<1>2. VerdictInv => PaidIsServed
  BY DEF VerdictInv, PaidIsServed, Fresh, WillClear
<1> QED
  BY <1>1, <1>2, OfficeSteps, PTL DEF OfficeInv, PlanIsServed

\* A fresh verdict that lets a request pass is younger than its lifetime.
LEMMA FreshIsYoung ==
    ASSUME TypeOK, ExpiryInv, VerdictInv, "gate" \notin raced, Fresh, ~cache.frozen
    PROVE  now < TTL \/ ~Frozen(now - TTL)
<1>1. ~Frozen(cache.at)
  BY DEF VerdictInv, Fresh
<1>2. cache.at \in Int /\ now \in Int /\ TTL \in Int /\ now - TTL <= cache.at
  BY BackOfficeAssumption DEF TypeOK, Fresh
<1> QED
  BY <1>1, <1>2, FrozenForGood

LEMMA StepLetPast ==
    ASSUME TypeOK, RequestsOK, ExpiryInv, VerdictInv, Next
    PROVE  LetPast
<1> SUFFICES ASSUME NEW q \in Requests, req'[q].step = "perm", req[q].step # "perm",
                    req'[q].claim # "platform_admin", "gate" \notin raced'
             PROVE  now < TTL \/ ~Frozen(now - TTL)
  BY DEF LetPast
<1>1. ASSUME NEW r \in Requests, Request(r) PROVE now < TTL \/ ~Frozen(now - TTL)
  BY <1>1, RequestStarts, FreshIsYoung DEF OthersStay
<1>2. ASSUME NEW r \in Requests, Serve(r) PROVE now < TTL \/ ~Frozen(now - TTL)
  <2>1. CASE StorePlan(r)
    <3>1. r = q /\ ~req[r].frozen
      BY <2>1, StorePlanGoes DEF OthersStay, Idle
    <3>2. ~Frozen(now)
      BY <2>1, <3>1 DEF StorePlan
    <3>3. now \in Int /\ TTL \in Nat
      BY BackOfficeAssumption DEF TypeOK
    <3> QED
      BY <3>2, <3>3, FrozenForGood
  <2>2. CASE ~StorePlan(r)
    BY <1>2, <2>2, ServeCases, ReadPlanGoes, AuthorizeGoes, CheckMemberGoes, WriteMemberGoes, CreateMemberGoes,
       CancelOldGoes, OpenNewGoes, UpdateShopGoes, SetPlanGoes, ClearCacheGoes DEF OthersStay, Idle, Went
  <2> QED
    BY <2>1, <2>2
<1>3. ~UNCHANGED req /\ ~Restart
  BY DEF Restart, Idle
<1> QED
  BY <1>1, <1>2, <1>3, NextCases DEF Login, Expire, SetPermissions, Tick

\* Nobody of a shop past whose grace ended more than a lifetime of the cache ago passes the
\* gate, as long as every verdict was true when it was kept (RequirePlanActive,
\* storage/plan_gate.go).
THEOREM FrozenShopsAreRefused == Spec => ExpiredIsRefused
<1>1. TypeOK /\ RequestsOK /\ ExpiryInv /\ OfficeInv /\ [Next]_vars => [LetPast]_vars
  BY StepLetPast DEF OfficeInv
<1> QED
  BY <1>1, OfficeSteps, PTL DEF Spec, ExpiredIsRefused

------------------------------------------------------------------------------
(* The start of a process: types *)

\* The finite sets of an instance are those of this module.
LEMMA SameFinite ==
    /\ \A S : Boot!Cardinality(S) = Cardinality(S)
    /\ \A S : Boot!IsFiniteSet(S) <=> IsFiniteSet(S)
<1>1. \A S : Boot!Cardinality(S) = Cardinality(S)
  BY DEF Boot!Cardinality, Cardinality
<1>2. \A S : Boot!IsFiniteSet(S) <=> IsFiniteSet(S)
  BY DEF Boot!IsFiniteSet, IsFiniteSet
<1> QED
  BY <1>1, <1>2


Rows == [status : {Boot!None, "active", "cancelled", "completed"}, slot : Slots, key : Slots \cup {Boot!None},
         late : BOOLEAN, linked : BOOLEAN]
Works == [rows : SUBSET [id : Appts, slot : Slots], shops : SUBSET Shops, shop : Shops,
          left : SUBSET Defaults, names : SUBSET Boot!Names, on : BOOLEAN]
Functions == {"slots", "shop", "barbers", "place", "services", "roles", "perms", "reconcile", "customers", "platform"}
Acts == {"read", "key", "shop", "admin", "platform", "barbers", "place", "services", "roles", "perms", "reconcile",
         "customers", "platformPerms", "upgrade"}
StartSteps == [of : {"init", "tool"}, in : Functions, do : Acts]

\* The types of all variables; TypeOK bounds the services besides.
DataOK ==
    /\ shops \subseteq Shops /\ bootPerms \subseteq Perms /\ bootRole \in [Boot!Accounts -> Boot!Roles]
    /\ service \in [Shops -> [Defaults -> Nat]] /\ barber \in [Barbers -> {Boot!None, "nowhere", "placed"}]
    /\ appt \in [Appts -> Rows] /\ cust \in [Boot!Names -> {Boot!None, "wechat", "blank"}]
    /\ tally = [n \in Boot!Names |-> tally[n]]
ControlOK ==
    /\ todo \in [Procs -> Seq(StartSteps)] /\ work \in [Procs -> Works]
    /\ state \in [Procs -> {"off", "starting", "up", "done", "failed"}]
    /\ full \in [Procs -> BOOLEAN] /\ clean \in BOOLEAN /\ again \subseteq Procs
    /\ bootRaced \subseteq Appts /\ overlapped \in BOOLEAN /\ miscounted \subseteq Shops
    /\ faults \in 0..MaxFaults /\ edits \in 0..MaxEdits /\ starts \in 0..MaxStarts
    /\ \A p \in Procs : todo[p] # <<>> => state[p] = "starting"
Shapes == DataOK /\ ControlOK

------------------------------------------------------------------------------
(* The invariant *)

\* The last steps of InitDB, from the k-th, and after them steps of the tool.
ToolStep == [of : {"tool"}, in : Functions \ {"slots"}, do : Acts \ {"read", "key"}]
Ahead(p, k) ==
    /\ Len(todo[p]) >= 13 - k
    /\ \A i \in 1..13 - k : todo[p][i] = Boot!InitSteps[k + i - 1]
    /\ \A i \in 1..Len(todo[p]) : i > 13 - k => todo[p][i] \in ToolStep

\* The keys tell the status, but for what changed under a filling.
KeyIsRight(a) == appt[a].key = IF appt[a].status = "active" THEN appt[a].slot ELSE Boot!None
KeysRight == \A a \in Appts \ bootRaced : KeyIsRight(a)

\* What was read is so still.
RowsRight(p) ==
    \A a \in Appts \ bootRaced :
        /\ appt[a].status = "active" <=> \E r \in work[p].rows : r.id = a
        /\ \A r \in work[p].rows : r.id = a => r.slot = appt[a].slot

\* What the k - 1 first steps of InitDB have made of the database, if none failed and nobody
\* has edited since.
HasServices == \A s \in shops : Boot!ToSeed(s) = {}
NamesSettled == \A n \in Boot!Unlinked : ~Boot!Insertable(n)
TallyRight == Boot!Unlinked # {} => \A n \in Boot!Names : cust[n] # Boot!None => tally[n] = Boot!Recounted(n)
Settled(k) ==
    /\ k >= 4 => Default \in shops
    /\ k >= 5 => bootRole[Admin] # Boot!None
    /\ k >= 7 => \A e \in Barbers : barber[e] # Boot!None
    /\ k >= 8 => \A e \in Barbers : barber[e] = "placed"
    /\ k >= 9 => HasServices
    /\ k >= 10 => \A u \in Boot!Accounts : bootRole[u] # ""
    /\ k >= 12 => Perms \subseteq bootPerms
    /\ k >= 13 => NamesSettled /\ TallyRight

\* What a process in the middle of its services, or of its names, has done.
ServicesSoFar(p) ==
    work[p].on => \A s \in shops \ work[p].shops : Boot!ToSeed(s) = {} \/ (s = work[p].shop /\ work[p].left = Defaults)
NamesSoFar(p) == work[p].on => \A n \in Boot!Unlinked \ work[p].names : ~Boot!Insertable(n)

\* A process that comes again seeds what it has counted in vain.
InVain(p) == work[p].left # {} => work[p].shop \in miscounted

Progress(p, k) ==
    /\ k = 2 => RowsRight(p)
    /\ k >= 3 => KeysRight
    /\ full[p] => Settled(k) /\ (k = 8 => ServicesSoFar(p)) /\ (k = 12 => NamesSoFar(p))
    /\ p \in again => k # 5 /\ (k = 8 => InVain(p)) /\ (k = 12 /\ work[p].on => Boot!Unlinked # {})

OnItsWay(p) == state[p] = "starting" => \E k \in 1..13 : Ahead(p, k) /\ Progress(p, k)

\* Names that have appointments.
Seen == {NameOf[a] : a \in {x \in Appts : appt[x].status # Boot!None}}
WorkOK(p) ==
    /\ state[p] # "starting" => work[p] = Boot!Idle
    /\ work[p].on => todo[p] # <<>> /\ Boot!Now(p).do \in {"services", "customers"}
    /\ work[p].left # {} => work[p].on /\ Boot!Now(p).do = "services"
    /\ work[p].names \subseteq Seen /\ work[p].shops \subseteq shops

\* A process that will still insert a service, and the catalogues.
Waiting(s, n) == {p \in Procs : n \in work[p].left /\ work[p].shop = s}
CatalogueInv ==
    ~overlapped => \A s \in Shops \ miscounted, n \in Defaults :
                       service[s][n] <= 1 /\ (Waiting(s, n) # {} => service[s][n] = 0)

LinksHaveCustomers == \A a \in Appts : appt[a].status # Boot!None /\ appt[a].linked => cust[NameOf[a]] # Boot!None

StartInv ==
    /\ Shapes /\ CatalogueInv /\ LinksHaveCustomers
    /\ Boot!Up => KeysRight
    /\ again # {} => clean
    /\ clean => KeysRight /\ Settled(13)
    /\ \A p \in Procs : WorkOK(p) /\ OnItsWay(p)

------------------------------------------------------------------------------
(* The list of steps *)

LEMMA StepsTyped ==
    /\ \A of \in {"init", "tool"}, fn \in Functions, act \in Acts : Boot!Step(of, fn, act) \in StartSteps
    /\ \A fn \in Functions \ {"slots"}, act \in Acts \ {"read", "key"} : Boot!Step("tool", fn, act) \in ToolStep
BY DEF Boot!Step, StartSteps, ToolStep

LEMMA SeedTyped ==
    ASSUME NEW of, NEW S,
           Boot!Step(of, "shop", "shop") \in S, Boot!Step(of, "shop", "admin") \in S, Boot!Step(of, "shop", "platform") \in S,
           Boot!Step(of, "barbers", "barbers") \in S, Boot!Step(of, "place", "place") \in S, Boot!Step(of, "services", "services") \in S
    PROVE  /\ Boot!SeedSteps(of) \in Seq(S) /\ Len(Boot!SeedSteps(of)) = 6
           /\ Boot!SeedSteps(of)[1] = Boot!Step(of, "shop", "shop") /\ Boot!SeedSteps(of)[2] = Boot!Step(of, "shop", "admin")
           /\ Boot!SeedSteps(of)[3] = Boot!Step(of, "shop", "platform") /\ Boot!SeedSteps(of)[4] = Boot!Step(of, "barbers", "barbers")
           /\ Boot!SeedSteps(of)[5] = Boot!Step(of, "place", "place") /\ Boot!SeedSteps(of)[6] = Boot!Step(of, "services", "services")
BY DEF Boot!SeedSteps

LEMMA InitAre ==
    /\ Boot!InitSteps \in Seq(StartSteps) /\ Len(Boot!InitSteps) = 12
    /\ Boot!InitSteps[1] = Boot!Step("init", "slots", "read") /\ Boot!InitSteps[2] = Boot!Step("init", "slots", "key")
    /\ Boot!InitSteps[3] = Boot!Step("init", "shop", "shop") /\ Boot!InitSteps[4] = Boot!Step("init", "shop", "admin")
    /\ Boot!InitSteps[5] = Boot!Step("init", "shop", "platform") /\ Boot!InitSteps[6] = Boot!Step("init", "barbers", "barbers")
    /\ Boot!InitSteps[7] = Boot!Step("init", "place", "place") /\ Boot!InitSteps[8] = Boot!Step("init", "services", "services")
    /\ Boot!InitSteps[9] = Boot!Step("init", "roles", "roles") /\ Boot!InitSteps[10] = Boot!Step("init", "perms", "perms")
    /\ Boot!InitSteps[11] = Boot!Step("init", "reconcile", "reconcile")
    /\ Boot!InitSteps[12] = Boot!Step("init", "customers", "customers")
<1> DEFINE first == <<Boot!Step("init", "slots", "read"), Boot!Step("init", "slots", "key")>>
<1> DEFINE seed == Boot!SeedSteps("init")
<1> DEFINE rest == <<Boot!Step("init", "roles", "roles"), Boot!Step("init", "perms", "perms"), Boot!Step("init", "reconcile", "reconcile"),
                     Boot!Step("init", "customers", "customers")>>
<1>1. /\ Boot!Step("init", "slots", "read") \in StartSteps /\ Boot!Step("init", "slots", "key") \in StartSteps
      /\ Boot!Step("init", "shop", "shop") \in StartSteps /\ Boot!Step("init", "shop", "admin") \in StartSteps
      /\ Boot!Step("init", "shop", "platform") \in StartSteps /\ Boot!Step("init", "barbers", "barbers") \in StartSteps
      /\ Boot!Step("init", "place", "place") \in StartSteps /\ Boot!Step("init", "services", "services") \in StartSteps
      /\ Boot!Step("init", "roles", "roles") \in StartSteps /\ Boot!Step("init", "perms", "perms") \in StartSteps
      /\ Boot!Step("init", "reconcile", "reconcile") \in StartSteps /\ Boot!Step("init", "customers", "customers") \in StartSteps
  BY StepsTyped DEF Functions, Acts
<1>2. /\ first \in Seq(StartSteps) /\ Len(first) = 2
      /\ first[1] = Boot!Step("init", "slots", "read") /\ first[2] = Boot!Step("init", "slots", "key")
  BY <1>1
<1>3. /\ rest \in Seq(StartSteps) /\ Len(rest) = 4
      /\ rest[1] = Boot!Step("init", "roles", "roles") /\ rest[2] = Boot!Step("init", "perms", "perms")
      /\ rest[3] = Boot!Step("init", "reconcile", "reconcile") /\ rest[4] = Boot!Step("init", "customers", "customers")
  BY <1>1
<1>4. /\ seed \in Seq(StartSteps) /\ Len(seed) = 6
      /\ seed[1] = Boot!Step("init", "shop", "shop") /\ seed[2] = Boot!Step("init", "shop", "admin")
      /\ seed[3] = Boot!Step("init", "shop", "platform") /\ seed[4] = Boot!Step("init", "barbers", "barbers")
      /\ seed[5] = Boot!Step("init", "place", "place") /\ seed[6] = Boot!Step("init", "services", "services")
  BY <1>1, SeedTyped
<1>5. Boot!InitSteps = (first \o seed) \o rest
  BY DEF Boot!InitSteps
<1> HIDE DEF first, seed, rest
<1>6. PICK head : head = first \o seed
  OBVIOUS
<1>7. /\ head \in Seq(StartSteps) /\ Len(head) = Len(first) + Len(seed)
      /\ \A i \in 1..Len(first) : head[i] = first[i]
      /\ \A i \in 1..Len(seed) : head[Len(first) + i] = seed[i]
  <2>1. first \in Seq(StartSteps) /\ seed \in Seq(StartSteps)
    BY <1>2, <1>4
  <2> QED
    BY <1>6, <2>1
<1>8. /\ Len(head) = 8 /\ head[1] = first[1] /\ head[2] = first[2] /\ head[3] = seed[1] /\ head[4] = seed[2]
      /\ head[5] = seed[3] /\ head[6] = seed[4] /\ head[7] = seed[5] /\ head[8] = seed[6]
  <2>1. /\ \A i \in 1..2 : head[i] = first[i]
        /\ \A i \in 1..6 : head[2 + i] = seed[i]
    BY <1>2, <1>4, <1>7
  <2>2. /\ head[1] = first[1] /\ head[2] = first[2] /\ head[2 + 1] = seed[1] /\ head[2 + 2] = seed[2]
        /\ head[2 + 3] = seed[3] /\ head[2 + 4] = seed[4] /\ head[2 + 5] = seed[5] /\ head[2 + 6] = seed[6]
    BY <2>1
  <2> QED
    BY <1>2, <1>4, <1>7, <2>2
<1>9. PICK all : all = head \o rest
  OBVIOUS
<1>10. /\ all \in Seq(StartSteps) /\ Len(all) = Len(head) + Len(rest)
       /\ \A i \in 1..Len(head) : all[i] = head[i]
       /\ \A i \in 1..Len(rest) : all[Len(head) + i] = rest[i]
  <2>1. head \in Seq(StartSteps) /\ rest \in Seq(StartSteps)
    BY <1>3, <1>7
  <2> QED
    BY <1>9, <2>1
<1>11. /\ Len(all) = 12 /\ \A i \in 1..8 : all[i] = head[i]
       /\ all[9] = rest[1] /\ all[10] = rest[2] /\ all[11] = rest[3] /\ all[12] = rest[4]
  <2>1. \A i \in 1..4 : all[8 + i] = rest[i]
    BY <1>3, <1>8, <1>10
  <2>2. /\ all[8 + 1] = rest[1] /\ all[8 + 2] = rest[2] /\ all[8 + 3] = rest[3] /\ all[8 + 4] = rest[4]
    BY <2>1
  <2> QED
    BY <1>3, <1>8, <1>10, <2>2
<1>12. Boot!InitSteps = all
  BY <1>5, <1>6, <1>9
<1>13. all[1] = head[1] /\ all[2] = head[2] /\ all[3] = head[3] /\ all[4] = head[4] /\ all[5] = head[5]
       /\ all[6] = head[6] /\ all[7] = head[7] /\ all[8] = head[8]
  BY <1>11
<1> QED
  BY <1>2, <1>3, <1>4, <1>8, <1>10, <1>11, <1>12, <1>13

LEMMA ToolAre == ASSUME NEW only PROVE Boot!ToolSteps(only) \in Seq(ToolStep)
<1> DEFINE OfPart(which) == IF which \in only THEN Boot!PartSteps(which) ELSE <<>>
<1>1. /\ Boot!Step("tool", "shop", "shop") \in ToolStep /\ Boot!Step("tool", "shop", "admin") \in ToolStep
      /\ Boot!Step("tool", "shop", "platform") \in ToolStep /\ Boot!Step("tool", "barbers", "barbers") \in ToolStep
      /\ Boot!Step("tool", "place", "place") \in ToolStep /\ Boot!Step("tool", "services", "services") \in ToolStep
      /\ Boot!Step("tool", "roles", "roles") \in ToolStep /\ Boot!Step("tool", "perms", "perms") \in ToolStep
      /\ Boot!Step("tool", "perms", "platformPerms") \in ToolStep /\ Boot!Step("tool", "platform", "upgrade") \in ToolStep
      /\ Boot!Step("tool", "customers", "customers") \in ToolStep
  BY StepsTyped DEF Functions, Acts
<1>2. Boot!SeedSteps("tool") \in Seq(ToolStep)
  BY <1>1, SeedTyped
<1>3. /\ Boot!PartSteps("roles") \in Seq(ToolStep) /\ Boot!PartSteps("shopadmin") \in Seq(ToolStep)
      /\ Boot!PartSteps("roleperm") \in Seq(ToolStep) /\ Boot!PartSteps("platform") \in Seq(ToolStep)
      /\ Boot!PartSteps("customers") \in Seq(ToolStep)
  BY <1>1, <1>2 DEF Boot!PartSteps
<1>4. /\ OfPart("roles") \in Seq(ToolStep) /\ OfPart("shopadmin") \in Seq(ToolStep)
      /\ OfPart("roleperm") \in Seq(ToolStep) /\ OfPart("platform") \in Seq(ToolStep)
      /\ OfPart("customers") \in Seq(ToolStep)
  BY <1>3
<1>5. Boot!ToolSteps(only) = OfPart("roles") \o OfPart("shopadmin") \o OfPart("roleperm") \o OfPart("platform") \o OfPart("customers")
  BY DEF Boot!ToolSteps
<1> HIDE DEF OfPart
<1> QED
  BY <1>4, <1>5

\* At the start all steps are ahead.
LEMMA StartAhead ==
    ASSUME NEW p, NEW more \in Seq(ToolStep), todo'[p] = Boot!InitSteps \o more
    PROVE  Ahead(p, 1)' /\ todo'[p] \in Seq(StartSteps) /\ todo'[p] # <<>>
<1>1. ToolStep \subseteq StartSteps
  BY DEF ToolStep, StartSteps
<1>2. more \in Seq(StartSteps)
  BY <1>1
<1>3. /\ todo'[p] \in Seq(StartSteps) /\ Len(todo'[p]) = 12 + Len(more)
      /\ \A i \in 1..12 : todo'[p][i] = Boot!InitSteps[i]
      /\ \A i \in 1..Len(more) : todo'[p][12 + i] = more[i]
  <2>1. /\ todo'[p] \in Seq(StartSteps) /\ Len(todo'[p]) = Len(Boot!InitSteps) + Len(more)
        /\ \A i \in 1..Len(Boot!InitSteps) : todo'[p][i] = Boot!InitSteps[i]
        /\ \A i \in 1..Len(more) : todo'[p][Len(Boot!InitSteps) + i] = more[i]
    <3>1. Boot!InitSteps \in Seq(StartSteps)
      BY InitAre
    <3> QED
      BY <1>2, <3>1
  <2> QED
    BY <2>1, InitAre
<1>4. ASSUME NEW i \in 1..Len(todo'[p]), i > 12 PROVE todo'[p][i] \in ToolStep
  <2>1. PICK j \in 1..Len(more) : i = 12 + j
    <3>1. i - 12 \in 1..Len(more) /\ i = 12 + (i - 12)
      BY <1>3, <1>4
    <3> QED
      BY <3>1
  <2>2. more[j] \in ToolStep
    OBVIOUS
  <2> QED
    BY <1>3, <2>1, <2>2
<1>5. ASSUME NEW i \in 1..13 - 1 PROVE todo'[p][i] = Boot!InitSteps[1 + i - 1]
  BY SMTT(30), <1>3
<1> QED
  BY SMTT(30), <1>3, <1>4, <1>5 DEF Ahead

\* What a process does now, by what is ahead.
LEMMA NowIs ==
    ASSUME NEW p, NEW k \in 1..13, todo[p] \in Seq(StartSteps), todo[p] # <<>>, Ahead(p, k)
    PROVE  (k < 13 => Boot!Now(p) = Boot!InitSteps[k]) /\ (k = 13 => Boot!Now(p) \in ToolStep)
<1>1. Boot!Now(p) = todo[p][1] /\ Len(todo[p]) >= 1
  BY DEF Boot!Now
<1> QED
  BY <1>1 DEF Ahead

LEMMA OneOn == \A k \in 1..13 : \A i \in 1..13 - (k + 1) : (k + 1) + i - 1 = k + (i + 1) - 1
OBVIOUS

LEMMA OnePlace ==
    \A k \in 1..12 : \A n \in Nat : n >= 13 - (k + 1) =>
      \A i \in 1..13 - (k + 1) : i \in 1..n /\ i + 1 \in 1..13 - k
OBVIOUS

LEMMA TailAhead ==
    ASSUME NEW p, NEW k \in 1..13, todo[p] \in Seq(StartSteps), todo[p] # <<>>, Ahead(p, k), todo'[p] = Tail(todo[p])
    PROVE  /\ (k < 13 => Ahead(p, k + 1)') /\ (k = 13 => Ahead(p, 13)')
           /\ (todo'[p] = <<>> => k >= 12) /\ todo'[p] \in Seq(StartSteps)
<1>1. /\ todo'[p] \in Seq(StartSteps) /\ Len(todo'[p]) = Len(todo[p]) - 1 /\ Len(todo[p]) >= 1
      /\ \A i \in 1..Len(todo'[p]) : todo'[p][i] = todo[p][i + 1]
  OBVIOUS
<1>2. CASE k < 13
  <2>1. Len(todo'[p]) >= 13 - (k + 1)
    BY SMTT(30), <1>1, <1>2 DEF Ahead
  <2>2. ASSUME NEW i \in 1..13 - (k + 1) PROVE todo'[p][i] = Boot!InitSteps[(k + 1) + i - 1]
    <3>1. k \in 1..12
      BY <1>2
    <3>2. Len(todo'[p]) \in Nat
      BY <1>1
    <3>3. i \in 1..Len(todo'[p]) /\ i + 1 \in 1..13 - k
      BY <2>1, <3>1, <3>2, OnePlace, Zenon
    <3>4. todo'[p][i] = todo[p][i + 1] /\ i + 1 \in 1..13 - k
      BY <1>1, <3>3, Zenon
    <3>5. (k + 1) + i - 1 = k + (i + 1) - 1
      BY OneOn, Zenon
    <3> QED
      BY <3>4, <3>5 DEF Ahead
  <2>3. ASSUME NEW i \in 1..Len(todo'[p]), i > 13 - (k + 1) PROVE todo'[p][i] \in ToolStep
    <3>1. todo'[p][i] = todo[p][i + 1] /\ i + 1 \in 1..Len(todo[p]) /\ i + 1 > 13 - k
      BY <1>1, <1>2, <2>3
    <3> QED
      BY <3>1 DEF Ahead
  <2>4. Ahead(p, k + 1)'
    BY <2>1, <2>2, <2>3 DEF Ahead
  <2>5. ASSUME todo'[p] = <<>> PROVE k >= 12
    <3>1. Len(<<>>) = 0
      OBVIOUS
    <3>2. 0 >= 13 - (k + 1)
      BY <2>1, <2>5, <3>1, Zenon
    <3> QED
      BY <1>2, <3>2
  <2> QED
    BY <1>1, <1>2, <2>4, <2>5
<1>3. CASE k = 13
  BY <1>1, <1>3 DEF Ahead
<1> QED
  BY <1>2, <1>3

\* Where a process is when the function it is in has returned.
Past(k) == IF k <= 5 THEN 6 ELSE IF k < 13 THEN k + 1 ELSE 13

LEMMA OneToThree ==
    /\ Cardinality({1}) = 1 /\ Cardinality({1, 2}) = 2 /\ Cardinality({1, 2, 3}) = 3
<1>1. IsFiniteSet({}) /\ Cardinality({}) = 0
  BY FS_EmptySet
<1>2. IsFiniteSet({} \cup {1}) /\ Cardinality({} \cup {1}) = 1
  BY <1>1, FS_AddElement
<1>3. IsFiniteSet({1} \cup {2}) /\ Cardinality({1} \cup {2}) = 2
  <2>1. {} \cup {1} = {1} /\ 2 \notin {1}
    OBVIOUS
  <2> QED
    BY <1>2, <2>1, FS_AddElement
<1>4. IsFiniteSet({1, 2} \cup {3}) /\ Cardinality({1, 2} \cup {3}) = 3
  <2>1. {1} \cup {2} = {1, 2} /\ 3 \notin {1, 2}
    OBVIOUS
  <2> QED
    BY <1>3, <2>1, FS_AddElement
<1>5. {} \cup {1} = {1} /\ {1} \cup {2} = {1, 2} /\ {1, 2} \cup {3} = {1, 2, 3}
  OBVIOUS
<1> QED
  BY <1>2, <1>3, <1>4, <1>5

\* Of n steps ahead the first c are left out.
LEMMA LeftOut ==
    ASSUME NEW k \in 3..12, NEW l \in k + 1..13, NEW c \in Int, c = l - k, NEW n \in Nat
    PROVE  /\ l \in 1..13
           /\ n >= 13 - k => n - c >= 13 - l
           /\ \A i \in 1..13 - l : c + i \in 1..13 - k /\ k + (c + i) - 1 = l + i - 1
           /\ \A i \in 1..n - c : i > 13 - l => c + i \in 1..n /\ c + i > 13 - k
<1>1. l \in 1..13 /\ k \in Int /\ l \in Int /\ k < l /\ l <= 13
  OBVIOUS
<1>2. n >= 13 - k => n - c >= 13 - l
  BY <1>1
<1>3. ASSUME NEW i \in 1..13 - l PROVE c + i \in 1..13 - k /\ k + (c + i) - 1 = l + i - 1
  <2>1. i \in Int /\ 1 <= i /\ i <= 13 - l
    BY <1>1
  <2>2. c + i \in Int /\ 1 <= c + i /\ c + i <= 13 - k
    BY <1>1, <2>1
  <2>3. k + (c + i) - 1 = l + i - 1
    BY <1>1, <2>1
  <2> QED
    BY <1>1, <2>2, <2>3
<1>4. ASSUME NEW i \in 1..n - c, i > 13 - l PROVE c + i \in 1..n /\ c + i > 13 - k
  <2>1. i \in Int /\ 1 <= i /\ i <= n - c
    BY <1>1
  <2> QED
    BY <1>1, <1>4, <2>1
<1> QED
  BY <1>1, <1>2, <1>3, <1>4

LEMMA PastEnds == \A k \in 3..12 : 0 >= 13 - Past(k) => k >= 12
BY DEF Past

LEMMA ReturnAhead ==
    ASSUME NEW p, NEW k \in 3..13, todo[p] \in Seq(StartSteps), todo[p] # <<>>, Ahead(p, k), todo'[p] = Boot!Return(p)
    PROVE  /\ Ahead(p, Past(k))' /\ Past(k) \in 1..13 /\ todo'[p] \in Seq(StartSteps)
           /\ (todo'[p] = <<>> => k >= 12)
<1> DEFINE c == Cardinality(Boot!OfNow(p))
<1>1. /\ IsFiniteSet(Boot!OfNow(p)) /\ c \in 0..Len(todo[p])
  <2>1. IsFiniteSet(1..Len(todo[p])) /\ Cardinality(1..Len(todo[p])) = Len(todo[p])
    BY FS_Interval
  <2>2. Boot!OfNow(p) \subseteq 1..Len(todo[p])
    BY DEF Boot!OfNow
  <2> QED
    BY <2>1, <2>2, FS_Subset, FS_CardinalityType
<1>2. todo'[p] = SubSeq(todo[p], c + 1, Len(todo[p]))
  BY SameFinite DEF Boot!Return
<1> HIDE DEF c
<1>3. /\ todo'[p] \in Seq(StartSteps) /\ Len(todo'[p]) = Len(todo[p]) - c
      /\ \A i \in 1..Len(todo'[p]) : todo'[p][i] = todo[p][c + i]
  BY <1>1, <1>2
<1>4. Boot!Now(p) = todo[p][1] /\ Len(todo[p]) \in Nat \ {0}
  BY DEF Boot!Now
<1>5. CASE k = 13
  <2>1. \A i \in 1..Len(todo'[p]) : todo'[p][i] \in ToolStep
    BY <1>1, <1>3, <1>5 DEF Ahead
  <2> QED
    BY <1>3, <1>5, <2>1 DEF Ahead, Past
<1>6. CASE k \in 3..12
  <2>1. /\ Past(k) \in k + 1..13 /\ c = Past(k) - k
    <3>1. \A i \in 1..13 - k : i \in 1..Len(todo[p]) /\ todo[p][i] = Boot!InitSteps[k + i - 1]
      BY <1>6 DEF Ahead
    <3>2. CASE k = 3
      <4>1. /\ {1, 2, 3, 4} \subseteq 1..Len(todo[p])
            /\ todo[p][1] = Boot!InitSteps[3] /\ todo[p][2] = Boot!InitSteps[4] /\ todo[p][3] = Boot!InitSteps[5] /\ todo[p][4] = Boot!InitSteps[6]
        <5>1. \A i \in 1..10 : i \in 1..Len(todo[p]) /\ todo[p][i] = Boot!InitSteps[3 + i - 1]
          BY SMTT(30), <3>1, <3>2
        <5>2. /\ todo[p][1] = Boot!InitSteps[3 + 1 - 1] /\ todo[p][2] = Boot!InitSteps[3 + 2 - 1] /\ todo[p][3] = Boot!InitSteps[3 + 3 - 1]
              /\ todo[p][4] = Boot!InitSteps[3 + 4 - 1] /\ {1, 2, 3, 4} \subseteq 1..Len(todo[p])
          BY <5>1
        <5> QED
          BY <5>2
      <4>2. \A i \in {1, 2, 3} : todo[p][i].of = Boot!Now(p).of /\ todo[p][i].in = Boot!Now(p).in
        <5>1. /\ Boot!InitSteps[3].of = "init" /\ Boot!InitSteps[4].of = "init" /\ Boot!InitSteps[5].of = "init"
              /\ Boot!InitSteps[3].in = "shop" /\ Boot!InitSteps[4].in = "shop" /\ Boot!InitSteps[5].in = "shop"
          BY InitAre DEF Boot!Step
        <5> QED
          BY <1>4, <4>1, <5>1
      <4>3. todo[p][4].in # Boot!Now(p).in
        BY <1>4, <4>1, InitAre DEF Boot!Step
      <4>4. {1, 2, 3} \subseteq Boot!OfNow(p)
        BY SMTT(30), <4>1, <4>2 DEF Boot!OfNow
      <4>5. ASSUME NEW i \in Boot!OfNow(p) PROVE i \in {1, 2, 3}
        <5>1. i \in 1..Len(todo[p]) /\ (4 \in 1..i => todo[p][4].in = Boot!Now(p).in)
          BY DEF Boot!OfNow
        <5> QED
          BY <1>4, <4>3, <5>1
      <4>6. Boot!OfNow(p) = {1, 2, 3}
        BY <4>4, <4>5
      <4> QED
        BY <3>2, <4>6, OneToThree DEF Past, c
    <3>3. CASE k = 4
      <4>1. /\ {1, 2, 3} \subseteq 1..Len(todo[p])
            /\ todo[p][1] = Boot!InitSteps[4] /\ todo[p][2] = Boot!InitSteps[5] /\ todo[p][3] = Boot!InitSteps[6]
        <5>1. \A i \in 1..9 : i \in 1..Len(todo[p]) /\ todo[p][i] = Boot!InitSteps[4 + i - 1]
          BY SMTT(30), <3>1, <3>3
        <5>2. /\ todo[p][1] = Boot!InitSteps[4 + 1 - 1] /\ todo[p][2] = Boot!InitSteps[4 + 2 - 1] /\ todo[p][3] = Boot!InitSteps[4 + 3 - 1]
              /\ {1, 2, 3} \subseteq 1..Len(todo[p])
          BY <5>1
        <5> QED
          BY <5>2
      <4>2. \A i \in {1, 2} : todo[p][i].of = Boot!Now(p).of /\ todo[p][i].in = Boot!Now(p).in
        BY <1>4, <4>1, InitAre DEF Boot!Step
      <4>3. todo[p][3].in # Boot!Now(p).in
        BY <1>4, <4>1, InitAre DEF Boot!Step
      <4>4. {1, 2} \subseteq Boot!OfNow(p)
        BY <4>1, <4>2 DEF Boot!OfNow
      <4>5. ASSUME NEW i \in Boot!OfNow(p) PROVE i \in {1, 2}
        <5>1. i \in 1..Len(todo[p]) /\ (3 \in 1..i => todo[p][3].in = Boot!Now(p).in)
          BY DEF Boot!OfNow
        <5> QED
          BY <1>4, <4>3, <5>1
      <4>6. Boot!OfNow(p) = {1, 2}
        BY <4>4, <4>5
      <4> QED
        BY <3>3, <4>6, OneToThree DEF Past, c
    <3>4. CASE k \in 5..12
      <4>1. Boot!Now(p) = Boot!InitSteps[k]
        BY <1>6, NowIs
      <4>2. 2 \in 1..Len(todo[p]) => todo[p][2].in # Boot!Now(p).in \/ todo[p][2].of # Boot!Now(p).of
        <5>1. CASE k = 12
          <6>1. 2 \in 1..Len(todo[p]) => todo[p][2] \in ToolStep
            BY <5>1 DEF Ahead
          <6> QED
            BY <4>1, <5>1, <6>1, InitAre DEF Boot!Step, ToolStep
        <5>2. CASE k \in 5..11
          <6>1. todo[p][2] = Boot!InitSteps[k + 1]
            <7>1. 2 \in 1..13 - k /\ k + 2 - 1 = k + 1
              BY <5>2
            <7> QED
              BY <3>1, <7>1
          <6>2. Boot!InitSteps[k + 1].in # Boot!InitSteps[k].in
            <7>1. k \in {5, 6, 7, 8, 9, 10, 11}
              BY <5>2
            <7> QED
              BY <7>1, InitAre DEF Boot!Step
          <6> QED
            BY <4>1, <6>1, <6>2
        <5> QED
          BY <3>4, <5>1, <5>2
      <4>3. {1} \subseteq Boot!OfNow(p)
        BY <1>4 DEF Boot!OfNow
      <4>4. ASSUME NEW i \in Boot!OfNow(p) PROVE i \in {1}
        <5>1. /\ i \in 1..Len(todo[p])
              /\ 2 \in 1..i => todo[p][2].in = Boot!Now(p).in /\ todo[p][2].of = Boot!Now(p).of
          BY DEF Boot!OfNow
        <5> QED
          BY <1>4, <4>2, <5>1
      <4>5. Boot!OfNow(p) = {1}
        BY <4>3, <4>4
      <4> QED
        BY <3>4, <4>5, OneToThree DEF Past, c
    <3> QED
      BY <1>6, <3>2, <3>3, <3>4
  <2> DEFINE l == Past(k)
  <2>2. /\ l \in 1..13
        /\ Len(todo[p]) - c >= 13 - l
        /\ \A i \in 1..13 - l : c + i \in 1..13 - k /\ k + (c + i) - 1 = l + i - 1
        /\ \A i \in 1..Len(todo[p]) - c : i > 13 - l => c + i \in 1..Len(todo[p]) /\ c + i > 13 - k
    <3>1. l \in k + 1..13 /\ c = l - k /\ c \in Int /\ Len(todo[p]) \in Nat
      BY <1>1, <1>4, <2>1
    <3>2. Len(todo[p]) >= 13 - k
      BY DEF Ahead
    <3> HIDE DEF l
    <3> QED
      BY <1>6, <3>1, <3>2, LeftOut
  <2> HIDE DEF l
  <2>3. Len(todo'[p]) >= 13 - l
    BY <1>3, <2>2
  <2>4. ASSUME NEW i \in 1..13 - l PROVE todo'[p][i] = Boot!InitSteps[l + i - 1]
    <3>1. c + i \in 1..13 - k /\ k + (c + i) - 1 = l + i - 1
      BY <2>2
    <3>2. i \in 1..Len(todo'[p])
      BY SMTT(30), <1>3, <2>2, <2>3
    <3> QED
      BY <1>3, <3>1, <3>2 DEF Ahead
  <2>5. ASSUME NEW i \in 1..Len(todo'[p]), i > 13 - l PROVE todo'[p][i] \in ToolStep
    <3>1. c + i \in 1..Len(todo[p]) /\ c + i > 13 - k
      BY <1>3, <2>2, <2>5
    <3> QED
      BY <1>3, <3>1 DEF Ahead
  <2>6. \A n : n = l => Ahead(p, n)'
    BY <2>3, <2>4, <2>5 DEF Ahead
  <2>7. ASSUME todo'[p] = <<>> PROVE k >= 12
    <3>1. Len(<<>>) = 0
      OBVIOUS
    <3>2. 0 >= 13 - l
      BY <2>3, <2>7, <3>1, Zenon
    <3> QED
      BY <1>6, <3>2, PastEnds, Zenon DEF l
  <2>8. Past(k) \in 1..13 /\ Ahead(p, Past(k))'
    BY <2>2, <2>6 DEF l
  <2> QED
    BY <1>3, <2>7, <2>8, Zenon
<1> QED
  BY <1>5, <1>6

LEMMA PlaceIs ==
    ASSUME NEW p, NEW k \in 1..13, todo[p] \in Seq(StartSteps), todo[p] # <<>>, Ahead(p, k)
    PROVE  /\ Boot!Now(p).do = "read" <=> k = 1
           /\ Boot!Now(p).do = "key" <=> k = 2
           /\ Boot!Now(p).in = "slots" => k \in {1, 2}
           /\ k < 13 <=> Boot!Now(p).of = "init"
           /\ Boot!Now(p).do = "shop" => k \in {3, 13}
           /\ Boot!Now(p).do = "admin" => k \in {4, 13}
           /\ Boot!Now(p).do = "platform" => k \in {5, 13}
           /\ Boot!Now(p).do = "barbers" => k \in {6, 13}
           /\ Boot!Now(p).do = "place" => k \in {7, 13}
           /\ Boot!Now(p).do = "services" => k \in {8, 13}
           /\ Boot!Now(p).do = "roles" => k \in {9, 13}
           /\ Boot!Now(p).do = "perms" => k \in {10, 13}
           /\ Boot!Now(p).do = "reconcile" => k \in {11, 13}
           /\ Boot!Now(p).do = "customers" => k \in {12, 13}
           /\ Boot!Now(p).do \in {"platformPerms", "upgrade"} => k = 13
<1>1. CASE k = 13
  BY <1>1, NowIs DEF ToolStep
<1>2. CASE k \in 1..12
  <2>1. Boot!Now(p) = Boot!InitSteps[k]
    BY <1>2, NowIs
  <2>2. k \in {1, 2, 3, 4, 5, 6, 7, 8, 9, 10, 11, 12}
    BY <1>2
  <2> QED
    BY <2>1, <2>2, InitAre DEF Boot!Step
<1> QED
  BY <1>1, <1>2

LEMMA SettledParts ==
    ASSUME NEW k \in 1..13, Settled(k)
    PROVE  /\ k >= 4 => Default \in shops
           /\ k >= 13 => NamesSettled /\ TallyRight /\ HasServices
<1>1. k >= 13 => k >= 9
  OBVIOUS
<1> QED
  BY <1>1, Zenon DEF Settled

------------------------------------------------------------------------------
(* Types *)

LEMMA IdleTyped == Boot!Idle \in Works
BY BootAssumption DEF Boot!StartupAssumption, Boot!Idle, Works

LEMMA StepIsAt ==
    ASSUME NEW p \in Procs, Boot!DoStep(p)
    PROVE  state[p] = "starting" /\ todo[p] # <<>>
BY DEF Boot!DoStep, Boot!ReadActive, Boot!WriteKeys, Boot!SeedShop, Boot!SeedAdmin, Boot!SeedPlatform, Boot!SeedBarbers, Boot!EnsureBarberShopIDs, Boot!ListShops,
       Boot!CountServices, Boot!SeedService, Boot!BackfillRoles, Boot!SeedDefaultRolePermissions, Boot!ReconcileRolePermissions, Boot!AddPlatformPerms,
       Boot!StepPlatformAdmin, Boot!ListNames, Boot!LinkCustomer, Boot!Recount, Boot!At

LEMMA TailTyped ==
    ASSUME ControlOK, NEW p \in Procs, todo[p] # <<>>
    PROVE  Tail(todo[p]) \in Seq(StartSteps)
BY DEF ControlOK

LEMMA ReturnTyped ==
    ASSUME ControlOK, NEW p \in Procs
    PROVE  Boot!Return(p) \in Seq(StartSteps)
<1>1. todo[p] \in Seq(StartSteps)
  BY DEF ControlOK
<1>2. /\ IsFiniteSet(Boot!OfNow(p)) /\ Cardinality(Boot!OfNow(p)) \in Nat
  <2>1. IsFiniteSet(1..Len(todo[p]))
    BY <1>1, FS_Interval
  <2>2. Boot!OfNow(p) \subseteq 1..Len(todo[p])
    BY DEF Boot!OfNow
  <2> QED
    BY <2>1, <2>2, FS_Subset, FS_CardinalityType
<1> QED
  BY <1>1, <1>2, SameFinite DEF Boot!Return

LEMMA GoesTyped ==
    ASSUME ControlOK, NEW p \in Procs, state[p] = "starting", NEW steps \in Seq(StartSteps), Boot!GoTo(p, steps)
    PROVE  ControlOK'
<1>1. todo' \in [Procs -> Seq(StartSteps)] /\ work' \in [Procs -> Works]
  BY IdleTyped DEF ControlOK, Boot!GoTo
<1>2. state' \in [Procs -> {"off", "starting", "up", "done", "failed"}]
  BY DEF ControlOK, Boot!GoTo
<1>3. clean' \in BOOLEAN
  BY DEF ControlOK, Boot!GoTo
<1>4. \A q \in Procs : todo'[q] # <<>> => state'[q] = "starting"
  BY DEF ControlOK, Boot!GoTo
<1> QED
  BY <1>1, <1>2, <1>3, <1>4 DEF ControlOK, Boot!GoTo

LEMMA BusyTyped ==
    ASSUME ControlOK, NEW p \in Procs, NEW w \in Works, Boot!Busy(p, w)
    PROVE  ControlOK'
BY DEF ControlOK, Boot!Busy, Boot!history

LEMMA StepControl ==
    ASSUME Shapes, NEW p \in Procs, Boot!DoStep(p)
    PROVE  ControlOK'
<1>1. state[p] = "starting" /\ todo[p] # <<>> /\ ControlOK /\ DataOK /\ work[p] \in Works
  BY StepIsAt DEF Shapes, ControlOK
<1>2. Tail(todo[p]) \in Seq(StartSteps) /\ Boot!Return(p) \in Seq(StartSteps)
  BY <1>1, TailTyped, ReturnTyped
<1>3. Boot!Continue(p) \/ Boot!Quit(p) => ControlOK'
  BY <1>1, <1>2, GoesTyped DEF Boot!Continue, Boot!Quit
<1>4. CASE Boot!ReadActive(p)
  <2>1. todo' \in [Procs -> Seq(StartSteps)]
    BY <1>1, <1>2, <1>4 DEF Boot!ReadActive, ControlOK
  <2>2. work' \in [Procs -> Works]
    <3>1. {[id |-> a, slot |-> appt[a].slot] : a \in Boot!Active} \subseteq [id : Appts, slot : Slots]
      BY <1>1 DEF Boot!Active, DataOK, Rows
    <3> QED
      BY <1>1, <1>4, <3>1 DEF Boot!ReadActive, ControlOK, Works
  <2>3. \A q \in Procs : todo'[q] # <<>> => state'[q] = "starting"
    BY <1>1, <1>4 DEF Boot!ReadActive, ControlOK
  <2> QED
    BY <1>1, <1>4, <2>1, <2>2, <2>3 DEF Boot!ReadActive, ControlOK, Boot!history
<1>5. CASE Boot!WriteKeys(p)
  <2>1. CASE Boot!Continue(p)
    BY <1>3, <2>1
  <2>2. CASE /\ todo' = [todo EXCEPT ![p] = <<>>] /\ work' = [work EXCEPT ![p] = Boot!Idle]
             /\ state' = [state EXCEPT ![p] = "failed"]
             /\ UNCHANGED <<appt, Boot!history, faults, edits, starts>>
    <3>1. todo' \in [Procs -> Seq(StartSteps)]
      BY <1>1, <2>2 DEF ControlOK
    <3>2. work' \in [Procs -> Works] /\ state' \in [Procs -> {"off", "starting", "up", "done", "failed"}]
      BY <1>1, <2>2, IdleTyped DEF ControlOK
    <3>3. \A q \in Procs : todo'[q] # <<>> => state'[q] = "starting"
      BY <1>1, <2>2 DEF ControlOK
    <3> QED
      BY <1>1, <2>2, <3>1, <3>2, <3>3 DEF ControlOK, Boot!history
  <2> QED
    BY <1>5, <2>1, <2>2 DEF Boot!WriteKeys
<1>6. CASE Boot!SeedBarbers(p)
  <2>1. Boot!Busy(p, work[p]) => ControlOK'
    BY <1>1, BusyTyped
  <2> QED
    BY <1>3, <1>6, <2>1 DEF Boot!SeedBarbers
<1>7. CASE Boot!ListShops(p)
  <2>1. [work[p] EXCEPT !.on = TRUE, !.shops = shops] \in Works
    BY <1>1 DEF Works, DataOK
  <2> QED
    BY <1>1, <1>7, <2>1, BusyTyped DEF Boot!ListShops
<1>8. CASE Boot!CountServices(p)
  <2>1. ASSUME NEW s \in work[p].shops PROVE [work[p] EXCEPT !.shops = @ \ {s}, !.shop = s, !.left = Boot!ToSeed(s)] \in Works
    BY <1>1 DEF Works, Boot!ToSeed
  <2> QED
    BY <1>1, <1>3, <1>8, <2>1, BusyTyped DEF Boot!CountServices
<1>9. CASE Boot!SeedService(p)
  <2>1. PICK n \in work[p].left : work' = [work EXCEPT ![p].left = @ \ {n}]
    BY <1>9 DEF Boot!SeedService
  <2>2. work' \in [Procs -> Works]
    BY <1>1, <2>1 DEF ControlOK, Works
  <2>3. overlapped' \in BOOLEAN
    BY <1>1, <1>9 DEF Boot!SeedService, ControlOK
  <2> QED
    BY <1>1, <1>9, <2>2, <2>3 DEF Boot!SeedService, ControlOK
<1>10. CASE Boot!ListNames(p)
  <2>1. [work[p] EXCEPT !.on = TRUE, !.names = Boot!Unlinked] \in Works
    <3>1. Boot!Unlinked \subseteq Boot!Names
      BY DEF Boot!Unlinked, Boot!Names
    <3> QED
      BY <1>1, <3>1 DEF Works
  <2> QED
    BY <1>1, <1>3, <1>10, <2>1, BusyTyped DEF Boot!ListNames
<1>11. CASE Boot!LinkCustomer(p)
  <2>1. PICK n \in work[p].names : Boot!Busy(p, [work[p] EXCEPT !.names = @ \ {n}])
    BY <1>11 DEF Boot!LinkCustomer
  <2>2. [work[p] EXCEPT !.names = @ \ {n}] \in Works
    BY <1>1 DEF Works
  <2> QED
    BY <1>1, <2>1, <2>2, BusyTyped
<1>12. CASE Boot!SeedShop(p) \/ Boot!SeedAdmin(p) \/ Boot!SeedPlatform(p) \/ Boot!EnsureBarberShopIDs(p) \/ Boot!BackfillRoles(p)
            \/ Boot!SeedDefaultRolePermissions(p) \/ Boot!ReconcileRolePermissions(p) \/ Boot!AddPlatformPerms(p)
            \/ Boot!StepPlatformAdmin(p) \/ Boot!Recount(p)
  BY <1>3, <1>12 DEF Boot!SeedShop, Boot!SeedAdmin, Boot!SeedPlatform, Boot!EnsureBarberShopIDs, Boot!BackfillRoles, Boot!SeedDefaultRolePermissions,
                     Boot!ReconcileRolePermissions, Boot!AddPlatformPerms, Boot!StepPlatformAdmin, Boot!Recount
<1> QED
  BY <1>4, <1>5, <1>6, <1>7, <1>8, <1>9, <1>10, <1>11, <1>12 DEF Boot!DoStep

\* The rows of the appointments, of the keys and of the links.
LEMMA KeysTyped ==
    ASSUME Shapes, NEW p \in Procs, Boot!WriteKeys(p)
    PROVE  /\ appt' \in [Appts -> Rows]
           /\ \A a \in Appts : /\ appt'[a].status = appt[a].status /\ appt'[a].slot = appt[a].slot
                               /\ appt'[a].late = appt[a].late /\ appt'[a].linked = appt[a].linked
           /\ appt' = appt \/ \A a \in Appts : appt'[a].key = Boot!Keyed(p)[a]
<1>1. CASE appt' = appt
  BY <1>1 DEF Shapes, DataOK
<1>2. CASE appt' = [a \in Appts |-> [appt[a] EXCEPT !.key = Boot!Keyed(p)[a]]]
  <2>1. ASSUME NEW a \in Appts
        PROVE  /\ appt'[a] \in Rows /\ appt'[a].status = appt[a].status /\ appt'[a].slot = appt[a].slot
               /\ appt'[a].late = appt[a].late /\ appt'[a].linked = appt[a].linked /\ appt'[a].key = Boot!Keyed(p)[a]
    <3>1. appt[a] \in Rows /\ appt'[a] = [appt[a] EXCEPT !.key = Boot!Keyed(p)[a]]
      BY <1>2 DEF Shapes, DataOK
    <3>2. Boot!Keyed(p)[a] \in Slots \cup {Boot!None}
      <4>1. CASE \E r \in work[p].rows : r.id = a
        <5>1. (CHOOSE r \in work[p].rows : r.id = a) \in work[p].rows
          BY <4>1
        <5>2. work[p].rows \subseteq [id : Appts, slot : Slots]
          BY DEF Shapes, ControlOK, Works
        <5> QED
          BY <4>1, <5>1, <5>2 DEF Boot!Keyed
      <4>2. CASE ~ \E r \in work[p].rows : r.id = a
        BY <3>1, <4>2 DEF Boot!Keyed, Rows
      <4> QED
        BY <4>1, <4>2
    <3> QED
      BY <3>1, <3>2 DEF Rows
  <2> QED
    BY <1>2, <2>1
<1> QED
  BY <1>1, <1>2 DEF Boot!WriteKeys

LEMMA LinksTyped ==
    ASSUME Shapes, NEW p \in Procs, NEW n \in work[p].names,
           appt' = [a \in Appts |-> IF NameOf[a] = n /\ appt[a].status # Boot!None
                                    THEN [appt[a] EXCEPT !.linked = @ \/ Boot!Insertable(n)] ELSE appt[a]]
    PROVE  /\ appt' \in [Appts -> Rows]
           /\ \A a \in Appts : /\ appt'[a].status = appt[a].status /\ appt'[a].slot = appt[a].slot
                               /\ appt'[a].key = appt[a].key
                               /\ appt'[a].linked =
                                    (appt[a].linked \/ (NameOf[a] = n /\ appt[a].status # Boot!None /\ Boot!Insertable(n)))
<1> DEFINE may == Boot!Insertable(n)
<1>1. may \in BOOLEAN
  BY DEF Boot!Insertable
<1>2. ASSUME NEW a \in Appts
      PROVE  /\ appt'[a] \in Rows
             /\ appt'[a].status = appt[a].status /\ appt'[a].slot = appt[a].slot
             /\ appt'[a].key = appt[a].key
             /\ appt'[a].linked = (appt[a].linked \/ (NameOf[a] = n /\ appt[a].status # Boot!None /\ may))
  <2>1. appt[a] \in Rows /\ appt[a].linked \in BOOLEAN
    BY DEF Shapes, DataOK, Rows
  <2>2. appt'[a] = IF NameOf[a] = n /\ appt[a].status # Boot!None
                   THEN [appt[a] EXCEPT !.linked = appt[a].linked \/ may] ELSE appt[a]
    OBVIOUS
  <2> HIDE DEF may
  <2>3. CASE NameOf[a] = n /\ appt[a].status # Boot!None
    <3> DEFINE l == appt[a].linked \/ may
    <3>1. l \in BOOLEAN
      BY <1>1, <2>1
    <3>2. appt'[a] = [appt[a] EXCEPT !.linked = l]
      BY <2>2, <2>3
    <3> HIDE DEF l
    <3>3. appt'[a] \in Rows /\ appt'[a].linked = l /\ appt'[a].status = appt[a].status /\ appt'[a].slot = appt[a].slot
          /\ appt'[a].key = appt[a].key
      BY <2>1, <3>1, <3>2 DEF Rows
    <3>4. l = (appt[a].linked \/ (NameOf[a] = n /\ appt[a].status # Boot!None /\ may))
      BY <2>3 DEF l
    <3> QED
      BY <3>3, <3>4
  <2>4. CASE ~(NameOf[a] = n /\ appt[a].status # Boot!None)
    <3>1. appt'[a] = appt[a]
      BY <2>2, <2>4
    <3>2. appt[a].linked = (appt[a].linked \/ (NameOf[a] = n /\ appt[a].status # Boot!None /\ may))
      BY <2>1, <2>4
    <3> QED
      BY <2>1, <3>1, <3>2
  <2> QED
    BY <2>3, <2>4
<1> QED
  BY <1>2

------------------------------------------------------------------------------
(* What the steps of a start do to the database *)

\* They take nothing away.
ShopsGrow == shops' \subseteq Shops /\ shops \subseteq shops' /\ (Default \in shops => shops' = shops)
RolesGrow ==
    /\ bootRole' \in [Boot!Accounts -> Boot!Roles]
    /\ \A u \in Boot!Accounts : (bootRole[u] # Boot!None => bootRole'[u] # Boot!None) /\ (bootRole[u] # "" => bootRole'[u] # "")
BarbersGrow ==
    /\ barber' \in [Barbers -> {Boot!None, "nowhere", "placed"}]
    /\ \A e \in Barbers : (barber[e] # Boot!None => barber'[e] # Boot!None) /\ (barber[e] = "placed" => barber'[e] = "placed")
ServicesGrow ==
    /\ service' \in [Shops -> [Defaults -> Nat]]
    /\ \A s \in Shops, n \in Defaults : service'[s][n] >= service[s][n]
PermsGrow == bootPerms' \subseteq Perms /\ bootPerms \subseteq bootPerms'
SeedsGrow == ShopsGrow /\ RolesGrow /\ BarbersGrow /\ ServicesGrow /\ PermsGrow

BookedOK ==
    /\ appt \in [Appts -> Rows] /\ cust \in [Boot!Names -> {Boot!None, "wechat", "blank"}]
    /\ tally = [n \in Boot!Names |-> tally[n]]

LEMMA SeedsStay ==
    ASSUME Shapes
    PROVE  /\ UNCHANGED shops => ShopsGrow
           /\ UNCHANGED bootRole => RolesGrow
           /\ UNCHANGED barber => BarbersGrow
           /\ UNCHANGED service => ServicesGrow
           /\ UNCHANGED bootPerms => PermsGrow
<1>1. UNCHANGED shops => ShopsGrow
  BY DEF Shapes, DataOK, ShopsGrow
<1>2. UNCHANGED bootRole => RolesGrow
  BY DEF Shapes, DataOK, RolesGrow
<1>3. UNCHANGED barber => BarbersGrow
  BY DEF Shapes, DataOK, BarbersGrow
<1>4. ASSUME UNCHANGED service PROVE ServicesGrow
  <2>1. \A s \in Shops, n \in Defaults : service[s][n] \in Nat
    BY DEF Shapes, DataOK
  <2>2. \A s \in Shops, n \in Defaults : service[s][n] >= service[s][n]
    BY <2>1
  <2> QED
    BY <1>4, <2>2 DEF Shapes, DataOK, ServicesGrow
<1>5. UNCHANGED bootPerms => PermsGrow
  BY DEF Shapes, DataOK, PermsGrow
<1> QED
  BY <1>1, <1>2, <1>3, <1>4, <1>5

LEMMA AccountsAre == Admin \in Boot!Accounts /\ Platform \in Boot!Accounts
BY DEF Boot!Accounts

LEMMA ServiceAdded ==
    ASSUME service \in [Shops -> [Defaults -> Nat]], NEW s \in Shops, NEW n \in Defaults,
           service' = [service EXCEPT ![s][n] = @ + 1]
    PROVE  /\ service' \in [Shops -> [Defaults -> Nat]]
           /\ \A x \in Shops, m \in Defaults :
                 service'[x][m] = IF x = s /\ m = n THEN service[x][m] + 1 ELSE service[x][m]
OBVIOUS

LEMMA SeedEffects ==
    ASSUME Shapes, NEW p \in Procs, Boot!DoStep(p)
    PROVE  SeedsGrow
<1>1. /\ shops \subseteq Shops /\ bootPerms \subseteq Perms /\ bootRole \in [Boot!Accounts -> Boot!Roles]
      /\ service \in [Shops -> [Defaults -> Nat]] /\ barber \in [Barbers -> {Boot!None, "nowhere", "placed"}]
  BY DEF Shapes, DataOK
<1>2. ShopsGrow
  <2>1. CASE Boot!SeedShop(p)
    BY <1>1, <2>1, BootAssumption DEF Boot!SeedShop, ShopsGrow, Boot!StartupAssumption
  <2>2. Boot!SeedShop(p) \/ UNCHANGED shops
    BY DEF Boot!DoStep, Boot!ReadActive, Boot!WriteKeys, Boot!SeedAdmin, Boot!SeedPlatform, Boot!SeedBarbers, Boot!EnsureBarberShopIDs, Boot!ListShops,
           Boot!CountServices, Boot!SeedService, Boot!BackfillRoles, Boot!SeedDefaultRolePermissions, Boot!ReconcileRolePermissions,
           Boot!AddPlatformPerms, Boot!StepPlatformAdmin, Boot!ListNames, Boot!LinkCustomer, Boot!Recount, Boot!seeds
  <2> QED
    BY <2>1, <2>2, SeedsStay
<1>3. RolesGrow
  <2>1. CASE Boot!SeedAdmin(p)
    <3>1. UNCHANGED bootRole \/ bootRole' = [bootRole EXCEPT ![Admin] = "owner"]
      BY <2>1 DEF Boot!SeedAdmin
    <3>2. CASE bootRole' = [bootRole EXCEPT ![Admin] = "owner"]
      BY <1>1, <3>2 DEF RolesGrow, Boot!Roles, Boot!None
    <3> QED
      BY <3>1, <3>2, SeedsStay
  <2>2. CASE Boot!SeedPlatform(p)
    BY <1>1, <2>2, AccountsAre DEF Boot!SeedPlatform, RolesGrow, Boot!Roles, Boot!None
  <2>3. CASE Boot!BackfillRoles(p)
    BY <1>1, <2>3 DEF Boot!BackfillRoles, RolesGrow, Boot!Roles, Boot!None
  <2>4. CASE Boot!StepPlatformAdmin(p)
    BY <1>1, <2>4 DEF Boot!StepPlatformAdmin, RolesGrow, Boot!Roles, Boot!None
  <2>5. Boot!SeedAdmin(p) \/ Boot!SeedPlatform(p) \/ Boot!BackfillRoles(p) \/ Boot!StepPlatformAdmin(p) \/ UNCHANGED bootRole
    BY DEF Boot!DoStep, Boot!ReadActive, Boot!WriteKeys, Boot!SeedShop, Boot!SeedBarbers, Boot!EnsureBarberShopIDs, Boot!ListShops,
           Boot!CountServices, Boot!SeedService, Boot!SeedDefaultRolePermissions, Boot!ReconcileRolePermissions,
           Boot!AddPlatformPerms, Boot!ListNames, Boot!LinkCustomer, Boot!Recount, Boot!seeds
  <2> QED
    BY <2>1, <2>2, <2>3, <2>4, <2>5, SeedsStay
<1>4. BarbersGrow
  <2>1. CASE Boot!SeedBarbers(p)
    <3>1. UNCHANGED barber \/ \E e \in Barbers : barber' = [barber EXCEPT ![e] = "placed"]
      BY <2>1 DEF Boot!SeedBarbers
    <3>2. CASE \E e \in Barbers : barber' = [barber EXCEPT ![e] = "placed"]
      BY <1>1, <3>2 DEF BarbersGrow, Boot!None
    <3> QED
      BY <3>1, <3>2, SeedsStay
  <2>2. CASE Boot!EnsureBarberShopIDs(p)
    BY <1>1, <2>2 DEF Boot!EnsureBarberShopIDs, BarbersGrow, Boot!None
  <2>3. Boot!SeedBarbers(p) \/ Boot!EnsureBarberShopIDs(p) \/ UNCHANGED barber
    BY DEF Boot!DoStep, Boot!ReadActive, Boot!WriteKeys, Boot!SeedShop, Boot!SeedAdmin, Boot!SeedPlatform, Boot!ListShops,
           Boot!CountServices, Boot!SeedService, Boot!BackfillRoles, Boot!SeedDefaultRolePermissions, Boot!ReconcileRolePermissions,
           Boot!AddPlatformPerms, Boot!StepPlatformAdmin, Boot!ListNames, Boot!LinkCustomer, Boot!Recount, Boot!seeds
  <2> QED
    BY <2>1, <2>2, <2>3, SeedsStay
<1>5. ServicesGrow
  <2>1. CASE Boot!SeedService(p)
    <3>1. PICK n \in work[p].left : service' = [service EXCEPT ![work[p].shop][n] = @ + 1]
      BY <2>1 DEF Boot!SeedService
    <3>2. n \in Defaults /\ work[p].shop \in Shops
      BY <3>1 DEF Shapes, ControlOK, Works
    <3>3. PICK s \in Shops : s = work[p].shop
      BY <3>2
    <3>4. /\ service' \in [Shops -> [Defaults -> Nat]]
          /\ \A x \in Shops, m \in Defaults :
                 service'[x][m] = IF x = s /\ m = n THEN service[x][m] + 1 ELSE service[x][m]
      BY <1>1, <3>1, <3>2, <3>3, ServiceAdded
    <3>5. \A x \in Shops, m \in Defaults : service[x][m] \in Nat
      BY <1>1
    <3> QED
      BY <3>4, <3>5 DEF ServicesGrow
  <2>2. Boot!SeedService(p) \/ UNCHANGED service
    BY DEF Boot!DoStep, Boot!ReadActive, Boot!WriteKeys, Boot!SeedShop, Boot!SeedAdmin, Boot!SeedPlatform, Boot!SeedBarbers, Boot!EnsureBarberShopIDs, Boot!ListShops,
           Boot!CountServices, Boot!BackfillRoles, Boot!SeedDefaultRolePermissions, Boot!ReconcileRolePermissions,
           Boot!AddPlatformPerms, Boot!StepPlatformAdmin, Boot!ListNames, Boot!LinkCustomer, Boot!Recount, Boot!seeds
  <2> QED
    BY <2>1, <2>2, SeedsStay
<1>6. PermsGrow
  <2>1. CASE Boot!SeedDefaultRolePermissions(p) \/ Boot!ReconcileRolePermissions(p) \/ Boot!AddPlatformPerms(p)
    BY <1>1, <2>1, BootAssumption DEF Boot!SeedDefaultRolePermissions, Boot!ReconcileRolePermissions, Boot!AddPlatformPerms, PermsGrow,
                                      Boot!StartupAssumption
  <2>2. Boot!SeedDefaultRolePermissions(p) \/ Boot!ReconcileRolePermissions(p) \/ Boot!AddPlatformPerms(p) \/ UNCHANGED bootPerms
    BY DEF Boot!DoStep, Boot!ReadActive, Boot!WriteKeys, Boot!SeedShop, Boot!SeedAdmin, Boot!SeedPlatform, Boot!SeedBarbers, Boot!EnsureBarberShopIDs, Boot!ListShops,
           Boot!CountServices, Boot!SeedService, Boot!BackfillRoles, Boot!StepPlatformAdmin, Boot!ListNames, Boot!LinkCustomer, Boot!Recount, Boot!seeds
  <2> QED
    BY <2>1, <2>2, SeedsStay
<1> QED
  BY <1>2, <1>3, <1>4, <1>5, <1>6 DEF SeedsGrow

\* A step that is none of the three about appointments leaves them alone.
LEMMA BookedStay ==
    ASSUME NEW p \in Procs, Boot!DoStep(p)
    PROVE  Boot!WriteKeys(p) \/ Boot!LinkCustomer(p) \/ Boot!Recount(p) \/ UNCHANGED Boot!booked
BY DEF Boot!DoStep, Boot!ReadActive, Boot!SeedShop, Boot!SeedAdmin, Boot!SeedPlatform, Boot!SeedBarbers, Boot!EnsureBarberShopIDs, Boot!ListShops,
       Boot!CountServices, Boot!SeedService, Boot!BackfillRoles, Boot!SeedDefaultRolePermissions, Boot!ReconcileRolePermissions, Boot!AddPlatformPerms,
       Boot!StepPlatformAdmin, Boot!ListNames, Boot!booked

LEMMA LinkTyped ==
    ASSUME Shapes, NEW p \in Procs, NEW n \in work[p].names,
           cust' = [cust EXCEPT ![n] = IF @ = Boot!None /\ Boot!Insertable(n) THEN "blank" ELSE @]
    PROVE  /\ cust' \in [Boot!Names -> {Boot!None, "wechat", "blank"}]
           /\ \A m \in Boot!Names : cust'[m] = IF m = n /\ cust[m] = Boot!None /\ Boot!Insertable(n) THEN "blank" ELSE cust[m]
           /\ n \in Boot!Names
<1> DEFINE may == Boot!Insertable(n)
<1>1. n \in Boot!Names /\ cust \in [Boot!Names -> {Boot!None, "wechat", "blank"}]
  BY DEF Shapes, DataOK, ControlOK, Works
<1>2. cust' = [cust EXCEPT ![n] = IF cust[n] = Boot!None /\ may THEN "blank" ELSE cust[n]]
  BY <1>1
<1> HIDE DEF may
<1>3. /\ cust' \in [Boot!Names -> {Boot!None, "wechat", "blank"}]
      /\ \A m \in Boot!Names : cust'[m] = IF m = n /\ cust[m] = Boot!None /\ may THEN "blank" ELSE cust[m]
  BY <1>1, <1>2
<1> QED
  BY <1>1, <1>3 DEF may

LEMMA BookedEffects ==
    ASSUME Shapes, NEW p \in Procs, Boot!DoStep(p)
    PROVE  BookedOK' /\ \A a \in Appts : appt'[a].status = appt[a].status /\ appt'[a].slot = appt[a].slot
<1>1. BookedOK
  BY DEF Shapes, DataOK, BookedOK
<1>2. CASE UNCHANGED Boot!booked
  BY <1>1, <1>2 DEF BookedOK, Boot!booked
<1>3. CASE Boot!WriteKeys(p)
  BY <1>1, <1>3, KeysTyped DEF BookedOK, Boot!WriteKeys
<1>4. CASE Boot!LinkCustomer(p)
  <2>1. PICK n \in work[p].names :
           /\ cust' = [cust EXCEPT ![n] = IF @ = Boot!None /\ Boot!Insertable(n) THEN "blank" ELSE @]
           /\ appt' = [a \in Appts |-> IF NameOf[a] = n /\ appt[a].status # Boot!None
                                       THEN [appt[a] EXCEPT !.linked = @ \/ Boot!Insertable(n)] ELSE appt[a]]
    BY <1>4 DEF Boot!LinkCustomer, Boot!WithCustomer
  <2>2. cust' \in [Boot!Names -> {Boot!None, "wechat", "blank"}]
    BY <2>1, LinkTyped
  <2>3. /\ appt' \in [Appts -> Rows]
        /\ \A a \in Appts : appt'[a].status = appt[a].status /\ appt'[a].slot = appt[a].slot
    BY <2>1, LinksTyped
  <2> QED
    BY <1>1, <1>4, <2>2, <2>3 DEF BookedOK, Boot!LinkCustomer
<1>5. CASE Boot!Recount(p)
  <2>1. tally' = [n \in Boot!Names |-> IF cust[n] # Boot!None THEN Boot!Recounted(n) ELSE tally[n]]
    BY <1>5 DEF Boot!Recount
  <2>2. tally' = [n \in Boot!Names |-> tally'[n]]
    BY <2>1
  <2> QED
    BY <1>1, <1>5, <2>2 DEF BookedOK, Boot!Recount
<1> QED
  BY <1>2, <1>3, <1>4, <1>5, BookedStay

LEMMA StepShapes == ASSUME Shapes, NEW p \in Procs, Boot!DoStep(p) PROVE Shapes'
BY SeedEffects, BookedEffects, StepControl
   DEF Shapes, DataOK, BookedOK, SeedsGrow, ShopsGrow, RolesGrow, BarbersGrow, ServicesGrow, PermsGrow

LEMMA SameRows ==
    ASSUME \A a \in Appts : appt'[a].status = appt[a].status /\ appt'[a].linked = appt[a].linked
    PROVE  Boot!Unlinked' = Boot!Unlinked /\ \A n : Boot!Recounted(n)' = Boot!Recounted(n)
<1>1. Boot!Unlinked' = Boot!Unlinked
  <2>1. {a \in Appts : appt'[a].status # Boot!None /\ ~appt'[a].linked} = {a \in Appts : appt[a].status # Boot!None /\ ~appt[a].linked}
    OBVIOUS
  <2> QED
    BY <2>1 DEF Boot!Unlinked
<1>2. ASSUME NEW n PROVE Boot!Recounted(n)' = Boot!Recounted(n)
  <2>1. ASSUME NEW statuses
        PROVE  {a \in Appts : NameOf[a] = n /\ appt'[a].linked /\ appt'[a].status \in statuses}
                 = {a \in Appts : NameOf[a] = n /\ appt[a].linked /\ appt[a].status \in statuses}
    OBVIOUS
  <2>2. Boot!Of(n, {"active", "completed"})' = Boot!Of(n, {"active", "completed"}) /\ Boot!Of(n, {"cancelled"})' = Boot!Of(n, {"cancelled"})
    BY <2>1 DEF Boot!Of
  <2> QED
    BY <2>2 DEF Boot!Recounted
<1> QED
  BY <1>1, <1>2

\* Who is linked stays so; a name that was tried is linked or cannot be; where all names were, a
\* process that comes later changes nothing.
LEMMA LinkEffects ==
    ASSUME Shapes, LinksHaveCustomers, NEW p \in Procs, WorkOK(p), Boot!LinkCustomer(p)
    PROVE  /\ Boot!Unlinked' \subseteq Boot!Unlinked /\ LinksHaveCustomers'
           /\ \A m \in Boot!Names : ~Boot!Insertable(m) => ~Boot!Insertable(m)'
           /\ \A m \in Boot!Unlinked' \ work'[p].names : m \in work[p].names => ~Boot!Insertable(m)'
           /\ NamesSettled => UNCHANGED Boot!booked
<1>1. PICK n \in work[p].names :
         /\ Boot!Busy(p, [work[p] EXCEPT !.names = @ \ {n}])
         /\ cust' = [cust EXCEPT ![n] = IF @ = Boot!None /\ Boot!Insertable(n) THEN "blank" ELSE @]
         /\ appt' = [a \in Appts |-> IF NameOf[a] = n /\ appt[a].status # Boot!None
                                     THEN [appt[a] EXCEPT !.linked = @ \/ Boot!Insertable(n)] ELSE appt[a]]
  BY DEF Boot!LinkCustomer, Boot!WithCustomer
<1>2. /\ cust' \in [Boot!Names -> {Boot!None, "wechat", "blank"}] /\ cust \in [Boot!Names -> {Boot!None, "wechat", "blank"}]
      /\ \A m \in Boot!Names : cust'[m] = IF m = n /\ cust[m] = Boot!None /\ Boot!Insertable(n) THEN "blank" ELSE cust[m]
      /\ n \in Boot!Names
  BY <1>1, LinkTyped DEF Shapes, DataOK
<1>3. /\ appt' \in [Appts -> Rows] /\ appt \in [Appts -> Rows]
      /\ \A a \in Appts : /\ appt'[a].status = appt[a].status
                          /\ appt'[a].linked =
                               (appt[a].linked \/ (NameOf[a] = n /\ appt[a].status # Boot!None /\ Boot!Insertable(n)))
  BY ZenonT(40), <1>1, LinksTyped DEF Shapes, DataOK
<1>4. work'[p].names = work[p].names \ {n}
  <2>1. work \in [Procs -> Works] /\ work' = [work EXCEPT ![p] = [work[p] EXCEPT !.names = @ \ {n}]]
    BY <1>1 DEF Boot!Busy, Shapes, ControlOK
  <2> QED
    BY <2>1 DEF Works
<1>5. \A a \in Appts : NameOf[a] \in Boot!Names
  BY DEF Boot!Names
<1>6. Boot!Unlinked' \subseteq Boot!Unlinked
  <2>1. \A a \in Appts : appt[a].linked => appt'[a].linked
    BY <1>3
  <2>2. {a \in Appts : appt'[a].status # Boot!None /\ ~appt'[a].linked} \subseteq {a \in Appts : appt[a].status # Boot!None /\ ~appt[a].linked}
    BY <1>3, <2>1
  <2> QED
    BY <2>2 DEF Boot!Unlinked
<1>7. n \in Boot!Unlinked' => ~Boot!Insertable(n)
  <2>1. ASSUME NEW a \in Appts, NameOf[a] = n, appt'[a].status # Boot!None, ~appt'[a].linked PROVE ~Boot!Insertable(n)
    BY <1>3, <2>1
  <2> QED
    BY <2>1 DEF Boot!Unlinked
<1>8. \A m \in Boot!Names : ~Boot!Insertable(m) => ~Boot!Insertable(m)'
  <2> SUFFICES ASSUME NEW m \in Boot!Names, ~Boot!Insertable(m) PROVE ~Boot!Insertable(m)'
    OBVIOUS
  <2>1. cust[m] = Boot!None /\ \E x \in Boot!Names : cust[x] = "blank"
    BY DEF Boot!Insertable
  <2>2. cust'[m] = Boot!None
    <3>1. CASE m = n
      BY <1>2, <2>1, <3>1
    <3>2. CASE m # n
      BY <1>2, <2>1, <3>2
    <3> QED
      BY <3>1, <3>2
  <2>3. \E x \in Boot!Names : cust'[x] = "blank"
    BY <1>2, <2>1
  <2> QED
    BY <2>2, <2>3 DEF Boot!Insertable
<1>9. LinksHaveCustomers'
  <2> SUFFICES ASSUME NEW a \in Appts, appt'[a].status # Boot!None, appt'[a].linked PROVE cust'[NameOf[a]] # Boot!None
    BY DEF LinksHaveCustomers
  <2>1. CASE appt[a].linked
    <3>1. cust[NameOf[a]] # Boot!None
      BY <1>3, <2>1 DEF LinksHaveCustomers
    <3> QED
      BY <1>2, <1>5, <3>1
  <2>2. CASE NameOf[a] = n /\ Boot!Insertable(n)
    BY <1>2, <2>2 DEF Boot!None
  <2> QED
    BY <1>3, <2>1, <2>2
<1>10. ASSUME NamesSettled PROVE UNCHANGED Boot!booked
  <2>1. tally' = tally
    BY DEF Boot!LinkCustomer
  <2>2. \E a \in Appts : appt[a].status # Boot!None /\ NameOf[a] = n
    BY DEF WorkOK, Seen
  <2>3. CASE n \in Boot!Unlinked
    <3>1. ~Boot!Insertable(n)
      BY <1>10, <2>3 DEF NamesSettled
    <3>2. cust' = cust
      BY <1>2, <3>1
    <3>3. \A a \in Appts : appt'[a] = appt[a]
      <4> SUFFICES ASSUME NEW a \in Appts PROVE appt'[a] = appt[a]
        OBVIOUS
      <4>1. appt[a] \in Rows /\ appt[a].linked \in BOOLEAN
        BY <1>3 DEF Rows
      <4> DEFINE l == appt[a].linked \/ Boot!Insertable(n)
      <4>2. l = appt[a].linked
        BY <3>1, <4>1
      <4>3. appt'[a] = appt[a] \/ appt'[a] = [appt[a] EXCEPT !.linked = l]
        BY <1>1
      <4> HIDE DEF l
      <4> QED
        BY <4>1, <4>2, <4>3 DEF Rows
    <3> QED
      BY <1>3, <2>1, <3>2, <3>3 DEF Boot!booked
  <2>4. CASE n \notin Boot!Unlinked
    <3>1. \A a \in Appts : appt[a].status # Boot!None /\ NameOf[a] = n => appt[a].linked
      BY <2>4 DEF Boot!Unlinked
    <3>2. cust[n] # Boot!None
      BY <2>2, <3>1 DEF LinksHaveCustomers
    <3>3. cust' = cust
      BY <1>2, <3>2
    <3>4. \A a \in Appts : appt'[a] = appt[a]
      <4> SUFFICES ASSUME NEW a \in Appts PROVE appt'[a] = appt[a]
        OBVIOUS
      <4>1. appt[a] \in Rows /\ appt[a].linked \in BOOLEAN
        BY <1>3 DEF Rows
      <4> DEFINE l == appt[a].linked \/ Boot!Insertable(n)
      <4>2. NameOf[a] = n /\ appt[a].status # Boot!None => l = appt[a].linked
        BY <3>1, <4>1
      <4>3. appt'[a] = IF NameOf[a] = n /\ appt[a].status # Boot!None THEN [appt[a] EXCEPT !.linked = l] ELSE appt[a]
        BY <1>1
      <4> HIDE DEF l
      <4> QED
        BY <4>1, <4>2, <4>3 DEF Rows
    <3> QED
      BY <1>3, <2>1, <3>3, <3>4 DEF Boot!booked
  <2> QED
    BY <2>3, <2>4
<1>11. \A m \in Boot!Unlinked' \ work'[p].names : m \in work[p].names => ~Boot!Insertable(m)'
  BY <1>2, <1>4, <1>7, <1>8
<1> QED
  BY <1>6, <1>8, <1>9, <1>10, <1>11

LEMMA NamesAre == Boot!Unlinked \subseteq Boot!Names /\ Boot!Unlinked' \subseteq Boot!Names
BY DEF Boot!Unlinked, Boot!Names

\* What the other steps leave as it is.
LEMMA NamesKept ==
    ASSUME Shapes, LinksHaveCustomers, NEW p \in Procs, WorkOK(p), Boot!DoStep(p)
    PROVE  /\ Boot!Unlinked' \subseteq Boot!Unlinked /\ LinksHaveCustomers' /\ Seen' = Seen
           /\ \A m \in Boot!Names : ~Boot!Insertable(m) => ~Boot!Insertable(m)'
<1>1. \A a \in Appts : appt'[a].status = appt[a].status
  BY BookedEffects
<1>2. Seen' = Seen
  <2>1. {x \in Appts : appt'[x].status # Boot!None} = {x \in Appts : appt[x].status # Boot!None}
    BY <1>1
  <2> QED
    BY <2>1 DEF Seen
<1>3. CASE Boot!LinkCustomer(p)
  BY <1>2, <1>3, LinkEffects
<1>4. CASE UNCHANGED <<appt, cust>>
  BY <1>2, <1>4 DEF Boot!Unlinked, LinksHaveCustomers, Boot!Insertable
<1>5. CASE Boot!WriteKeys(p)
  <2>1. \A a \in Appts : appt'[a].status = appt[a].status /\ appt'[a].linked = appt[a].linked
    BY <1>5, KeysTyped
  <2>2. cust' = cust
    BY <1>5 DEF Boot!WriteKeys
  <2> QED
    BY <1>2, <2>1, <2>2, SameRows DEF LinksHaveCustomers, Boot!Insertable
<1>6. UNCHANGED Boot!booked \/ Boot!Recount(p) => UNCHANGED <<appt, cust>>
  BY DEF Boot!Recount, Boot!booked
<1> QED
  BY <1>3, <1>4, <1>5, <1>6, BookedStay

LEMMA NamesStaySettled ==
    ASSUME Shapes, LinksHaveCustomers, NEW p \in Procs, WorkOK(p), Boot!DoStep(p), NamesSettled
    PROVE  NamesSettled' /\ (TallyRight => TallyRight') /\ Boot!Unlinked' = Boot!Unlinked
<1>1. NamesSettled'
  BY NamesKept, NamesAre DEF NamesSettled
<1>2. CASE UNCHANGED Boot!booked
  BY <1>1, <1>2 DEF Boot!booked, TallyRight, Boot!Unlinked, Boot!Recounted, Boot!Of
<1>3. CASE Boot!WriteKeys(p)
  <2>1. \A a \in Appts : appt'[a].status = appt[a].status /\ appt'[a].linked = appt[a].linked
    BY <1>3, KeysTyped
  <2>2. cust' = cust /\ tally' = tally
    BY <1>3 DEF Boot!WriteKeys
  <2> QED
    BY <1>1, <2>1, <2>2, SameRows DEF TallyRight
<1>4. CASE Boot!LinkCustomer(p)
  BY <1>2, <1>4, LinkEffects
<1>5. CASE Boot!Recount(p)
  <2>1. cust' = cust /\ appt' = appt /\ tally' = [n \in Boot!Names |-> IF cust[n] # Boot!None THEN Boot!Recounted(n) ELSE tally[n]]
    BY <1>5 DEF Boot!Recount
  <2>2. \A n : Boot!Recounted(n)' = Boot!Recounted(n)
    BY <2>1, SameRows
  <2>3. Boot!Unlinked' = Boot!Unlinked
    BY <2>1, SameRows
  <2> QED
    BY <1>1, <2>1, <2>2, <2>3 DEF TallyRight
<1> QED
  BY <1>2, <1>3, <1>4, <1>5, BookedStay

LEMMA SeededStays ==
    ASSUME NEW s \in Shops, Shapes, ServicesGrow, Boot!ToSeed(s) = {}
    PROVE  Boot!ToSeed(s)' = {}
<1>1. CASE Defaults = {}
  BY <1>1 DEF Boot!ToSeed
<1>2. CASE \E n \in Defaults : service[s][n] # 0
  <2>1. PICK n \in Defaults : service[s][n] # 0
    BY <1>2
  <2>2. service[s][n] \in Nat /\ service'[s][n] \in Nat
    BY DEF Shapes, DataOK, ServicesGrow
  <2>3. service'[s][n] # 0
    BY <2>1, <2>2 DEF ServicesGrow
  <2> QED
    BY <2>3 DEF Boot!ToSeed
<1> QED
  BY <1>1, <1>2 DEF Boot!ToSeed

LEMMA SettledKept ==
    ASSUME Shapes, LinksHaveCustomers, NEW p \in Procs, WorkOK(p), Boot!DoStep(p), NEW k \in 1..13, Settled(k)
    PROVE  Settled(k)'
<1>1. ShopsGrow /\ RolesGrow /\ BarbersGrow /\ ServicesGrow /\ PermsGrow
  BY SeedEffects DEF SeedsGrow
<1>2. k >= 4 => Default \in shops'
  BY <1>1 DEF Settled, ShopsGrow
<1>3. k >= 5 => bootRole'[Admin] # Boot!None
  BY <1>1, AccountsAre DEF Settled, RolesGrow
<1>4. k >= 7 => \A e \in Barbers : barber'[e] # Boot!None
  BY <1>1 DEF Settled, BarbersGrow
<1>5. k >= 8 => \A e \in Barbers : barber'[e] = "placed"
  BY <1>1 DEF Settled, BarbersGrow
<1>6. k >= 9 => HasServices'
  <2> SUFFICES ASSUME k >= 9, NEW s \in shops' PROVE Boot!ToSeed(s)' = {}
    BY DEF HasServices
  <2>1. Default \in shops
    <3>1. k >= 4
      OBVIOUS
    <3> QED
      BY <3>1, SettledParts
  <2>2. s \in shops /\ s \in Shops
    BY <1>1, <2>1 DEF ShopsGrow
  <2>3. Boot!ToSeed(s) = {}
    BY <2>2 DEF Settled, HasServices
  <2> QED
    BY <1>1, <2>2, <2>3, SeededStays
<1>7. k >= 10 => \A u \in Boot!Accounts : bootRole'[u] # ""
  BY <1>1 DEF Settled, RolesGrow
<1>8. k >= 12 => Perms \subseteq bootPerms'
  BY <1>1 DEF Settled, PermsGrow
<1>9. k >= 13 => NamesSettled' /\ TallyRight'
  BY NamesStaySettled DEF Settled
<1> QED
  BY <1>2, <1>3, <1>4, <1>5, <1>6, <1>7, <1>8, <1>9 DEF Settled

------------------------------------------------------------------------------
(* Who moves and who stays *)

LEMMA StepFrame ==
    ASSUME Shapes, NEW p \in Procs, Boot!DoStep(p)
    PROVE  /\ full' = full /\ again' = again /\ bootRaced' = bootRaced /\ miscounted' = miscounted
           /\ \A q \in Procs \ {p} : todo'[q] = todo[q] /\ work'[q] = work[q] /\ state'[q] = state[q]
           /\ clean' => clean \/ (full[p] /\ todo'[p] = <<>> /\ (Boot!Continue(p) \/ Boot!Quit(p)))
           /\ todo'[p] # <<>> => state'[p] = state[p]
<1>1. todo \in [Procs -> Seq(StartSteps)] /\ work \in [Procs -> Works] /\ DOMAIN state = Procs
  BY DEF Shapes, ControlOK
<1>2. Boot!Continue(p) \/ Boot!Quit(p) \/ (\E w : Boot!Busy(p, w)) \/ Boot!ReadActive(p) \/ Boot!SeedService(p)
        \/ (Boot!WriteKeys(p) /\ todo' = [todo EXCEPT ![p] = <<>>] /\ work' = [work EXCEPT ![p] = Boot!Idle]
            /\ state' = [state EXCEPT ![p] = "failed"] /\ UNCHANGED Boot!history)
  BY DEF Boot!DoStep, Boot!WriteKeys, Boot!SeedShop, Boot!SeedAdmin, Boot!SeedPlatform, Boot!SeedBarbers, Boot!EnsureBarberShopIDs, Boot!ListShops,
         Boot!CountServices, Boot!BackfillRoles, Boot!SeedDefaultRolePermissions, Boot!ReconcileRolePermissions, Boot!AddPlatformPerms,
         Boot!StepPlatformAdmin, Boot!ListNames, Boot!LinkCustomer, Boot!Recount
<1>3. CASE Boot!Continue(p) \/ Boot!Quit(p)
  <2>1. PICK steps : Boot!GoTo(p, steps)
    BY <1>3 DEF Boot!Continue, Boot!Quit
  <2> QED
    BY <1>1, <1>3, <2>1 DEF Boot!GoTo
<1>4. CASE \E w : Boot!Busy(p, w)
  BY <1>1, <1>4 DEF Boot!Busy, Boot!history
<1>5. CASE Boot!ReadActive(p)
  BY <1>1, <1>5 DEF Boot!ReadActive, Boot!history
<1>6. CASE Boot!SeedService(p)
  BY <1>1, <1>6 DEF Boot!SeedService
<1>7. CASE /\ Boot!WriteKeys(p) /\ todo' = [todo EXCEPT ![p] = <<>>] /\ work' = [work EXCEPT ![p] = Boot!Idle]
           /\ state' = [state EXCEPT ![p] = "failed"] /\ UNCHANGED Boot!history
  BY <1>1, <1>7 DEF Boot!history
<1> QED
  BY <1>2, <1>3, <1>4, <1>5, <1>6, <1>7

------------------------------------------------------------------------------
(* The keys *)

LEMMA AtKeyRows == ASSUME StartInv, NEW p \in Procs, Boot!At(p, "key") PROVE RowsRight(p)
<1>1. state[p] = "starting" /\ todo[p] # <<>> /\ Boot!Now(p).do = "key" /\ todo[p] \in Seq(StartSteps)
  BY DEF Boot!At, StartInv, Shapes, ControlOK
<1>2. PICK k \in 1..13 : Ahead(p, k) /\ Progress(p, k)
  BY <1>1 DEF StartInv, OnItsWay
<1>3. k = 2
  BY <1>1, <1>2, PlaceIs
<1> QED
  BY <1>2, <1>3 DEF Progress

LEMMA KeyedRight ==
    ASSUME NEW p \in Procs, RowsRight(p), NEW a \in Appts \ bootRaced
    PROVE  Boot!Keyed(p)[a] = IF appt[a].status = "active" THEN appt[a].slot ELSE Boot!None
<1>1. CASE appt[a].status = "active"
  <2>1. \E r \in work[p].rows : r.id = a
    BY <1>1 DEF RowsRight
  <2>2. /\ (CHOOSE r \in work[p].rows : r.id = a) \in work[p].rows
        /\ (CHOOSE r \in work[p].rows : r.id = a).id = a
    BY <2>1
  <2>3. (CHOOSE r \in work[p].rows : r.id = a).slot = appt[a].slot
    BY <2>2 DEF RowsRight
  <2> QED
    BY <1>1, <2>1, <2>3 DEF Boot!Keyed
<1>2. CASE appt[a].status # "active"
  <2>1. ~ \E r \in work[p].rows : r.id = a
    BY <1>2 DEF RowsRight
  <2>2. a \notin Boot!Active
    BY <1>2 DEF Boot!Active
  <2> QED
    BY <1>2, <2>1, <2>2 DEF Boot!Keyed
<1> QED
  BY <1>1, <1>2

LEMMA KeysMade ==
    ASSUME Shapes, NEW p \in Procs, Boot!WriteKeys(p), RowsRight(p)
    PROVE  (KeysRight => KeysRight') /\ (Boot!Continue(p) => KeysRight')
<1>1. bootRaced' = bootRaced
  BY StepFrame DEF Boot!DoStep
<1>2. CASE appt' = [a \in Appts |-> [appt[a] EXCEPT !.key = Boot!Keyed(p)[a]]]
  <2>1. ASSUME NEW a \in Appts \ bootRaced' PROVE KeyIsRight(a)'
    <3>1. /\ appt'[a].status = appt[a].status /\ appt'[a].slot = appt[a].slot
      BY KeysTyped
    <3>2. appt'[a].key = Boot!Keyed(p)[a]
      <4>1. appt[a] \in Rows /\ appt'[a] = [appt[a] EXCEPT !.key = Boot!Keyed(p)[a]]
        BY <1>2 DEF Shapes, DataOK
      <4> QED
        BY <4>1 DEF Rows
    <3>3. Boot!Keyed(p)[a] = IF appt[a].status = "active" THEN appt[a].slot ELSE Boot!None
      BY <1>1, KeyedRight
    <3> QED
      BY <3>1, <3>2, <3>3 DEF KeyIsRight
  <2> QED
    BY <2>1 DEF KeysRight
<1>3. CASE appt' = appt /\ state' = [state EXCEPT ![p] = "failed"]
  <2>1. KeysRight => KeysRight'
    BY <1>1, <1>3 DEF KeysRight, KeyIsRight
  <2>2. ~Boot!Continue(p)
    <3>1. state[p] = "starting" /\ DOMAIN state = Procs
      BY DEF Boot!WriteKeys, Boot!At, Shapes, ControlOK
    <3>2. state'[p] = "failed"
      BY <1>3, <3>1
    <3>3. Boot!Continue(p) => state'[p] \in {"starting", "done", "up"}
      BY <3>1 DEF Boot!Continue, Boot!GoTo
    <3> QED
      BY <3>2, <3>3
  <2> QED
    BY <2>1, <2>2
<1> QED
  BY <1>2, <1>3 DEF Boot!WriteKeys

LEMMA KeysKept ==
    ASSUME Shapes, NEW p \in Procs, Boot!DoStep(p), Boot!At(p, "key") => RowsRight(p), KeysRight
    PROVE  KeysRight'
<1>1. CASE Boot!WriteKeys(p)
  BY <1>1, KeysMade DEF Boot!WriteKeys
<1>2. CASE ~Boot!WriteKeys(p)
  <2>1. \A a \in Appts : appt'[a].key = appt[a].key
    <3>1. CASE Boot!LinkCustomer(p)
      BY <3>1, LinksTyped DEF Boot!LinkCustomer
    <3>2. CASE Boot!Recount(p) \/ UNCHANGED Boot!booked
      BY <3>2 DEF Boot!Recount, Boot!booked
    <3> QED
      BY <1>2, <3>1, <3>2, BookedStay
  <2>2. \A a \in Appts : appt'[a].status = appt[a].status /\ appt'[a].slot = appt[a].slot
    BY BookedEffects
  <2>3. bootRaced' = bootRaced
    BY StepFrame
  <2> QED
    BY <2>1, <2>2, <2>3 DEF KeysRight, KeyIsRight
<1> QED
  BY <1>1, <1>2

LEMMA RowsKept ==
    ASSUME NEW q \in Procs, RowsRight(q), work'[q] = work[q], bootRaced' = bootRaced,
           \A a \in Appts : appt'[a].status = appt[a].status /\ appt'[a].slot = appt[a].slot
    PROVE  RowsRight(q)'
BY DEF RowsRight

------------------------------------------------------------------------------
(* The others, when one makes a step *)

LEMMA AheadKept ==
    ASSUME NEW q, NEW k \in 1..13, Ahead(q, k), todo'[q] = todo[q]
    PROVE  Ahead(q, k)'
BY DEF Ahead

LEMMA ServicesKept ==
    ASSUME Shapes, ShopsGrow, ServicesGrow, NEW q \in Procs, ServicesSoFar(q), work'[q] = work[q], Default \in shops
    PROVE  ServicesSoFar(q)'
<1> SUFFICES ASSUME work[q].on, NEW s \in shops' \ work[q].shops
             PROVE  Boot!ToSeed(s)' = {} \/ (s = work[q].shop /\ work[q].left = Defaults)
  BY DEF ServicesSoFar
<1>1. s \in shops \ work[q].shops /\ s \in Shops
  BY DEF ShopsGrow
<1>2. Boot!ToSeed(s) = {} \/ (s = work[q].shop /\ work[q].left = Defaults)
  BY <1>1 DEF ServicesSoFar
<1> QED
  BY <1>1, <1>2, SeededStays

LEMMA OthersGoOn ==
    ASSUME StartInv, NEW p \in Procs, Boot!DoStep(p), NEW q \in Procs \ {p}
    PROVE  WorkOK(q)' /\ OnItsWay(q)'
<1>1. Shapes /\ LinksHaveCustomers /\ WorkOK(p) /\ WorkOK(q) /\ OnItsWay(q) /\ OnItsWay(p)
  BY DEF StartInv
<1>2. /\ todo'[q] = todo[q] /\ work'[q] = work[q] /\ state'[q] = state[q]
      /\ full' = full /\ again' = again /\ bootRaced' = bootRaced /\ miscounted' = miscounted
  BY <1>1, StepFrame
<1>3. SeedsGrow
  BY <1>1, SeedEffects
<1>4. /\ Boot!Unlinked' \subseteq Boot!Unlinked /\ Seen' = Seen
      /\ \A m \in Boot!Names : ~Boot!Insertable(m) => ~Boot!Insertable(m)'
  BY <1>1, NamesKept
<1>5. WorkOK(q)'
  BY <1>1, <1>2, <1>3, <1>4 DEF WorkOK, SeedsGrow, ShopsGrow, Boot!Now
<1>6. OnItsWay(q)'
  <2> SUFFICES ASSUME state[q] = "starting" PROVE \E k \in 1..13 : Ahead(q, k)' /\ Progress(q, k)'
    BY <1>2 DEF OnItsWay
  <2>1. PICK k \in 1..13 : Ahead(q, k) /\ Progress(q, k)
    BY <1>1 DEF OnItsWay
  <2>2. Ahead(q, k)'
    BY <1>2, <2>1, AheadKept
  <2>3. k = 2 => RowsRight(q)'
    BY <1>1, <1>2, <2>1, RowsKept, BookedEffects DEF Progress
  <2>4. k >= 3 => KeysRight'
    <3>1. Boot!At(p, "key") => RowsRight(p)
      BY AtKeyRows
    <3> QED
      BY <1>1, <2>1, <3>1, KeysKept DEF Progress
  <2>5. full[q] => Settled(k)'
    BY <1>1, <2>1, SettledKept DEF Progress
  <2>6. full[q] /\ k = 8 => ServicesSoFar(q)'
    BY <1>1, <1>2, <1>3, <2>1, ServicesKept DEF Progress, Settled, SeedsGrow
  <2>7. full[q] /\ k = 12 => NamesSoFar(q)'
    <3>1. NamesSoFar(q) => NamesSoFar(q)'
      BY <1>2, <1>4, NamesAre DEF NamesSoFar
    <3> QED
      BY <2>1, <3>1 DEF Progress
  <2>8. q \in again /\ k = 12 /\ work[q].on => Boot!Unlinked' # {}
    <3>1. q \in again => NamesSettled
      <4>1. q \in again => clean /\ Settled(13)
        BY DEF StartInv
      <4>2. 13 \in 1..13 /\ 13 >= 13
        OBVIOUS
      <4> QED
        BY <4>1, <4>2, SettledParts
    <3>2. q \in again => Boot!Unlinked' = Boot!Unlinked
      BY <1>1, <3>1, NamesStaySettled
    <3> QED
      BY <2>1, <3>2 DEF Progress
  <2>9. InVain(q) => InVain(q)'
    BY <1>2 DEF InVain
  <2> QED
    BY <1>2, <2>1, <2>2, <2>3, <2>4, <2>5, <2>6, <2>7, <2>8, <2>9 DEF Progress
<1> QED
  BY <1>5, <1>6

------------------------------------------------------------------------------
(* The process that makes the step *)

LEMMA WasAgain ==
    ASSUME StartInv, NEW p \in again
    PROVE  /\ NamesSettled /\ TallyRight /\ HasServices /\ KeysRight
           /\ Default \in shops /\ bootRole[Admin] # Boot!None /\ \A e \in Barbers : barber[e] = "placed"
           /\ \A u \in Boot!Accounts : bootRole[u] # ""
           /\ Perms \subseteq bootPerms
<1>1. Settled(13) /\ KeysRight
  BY DEF StartInv
<1>2. 13 \in 1..13 /\ 13 >= 13 /\ 13 >= 4 /\ 13 >= 5 /\ 13 >= 7 /\ 13 >= 8 /\ 13 >= 9 /\ 13 >= 10 /\ 13 >= 12
  OBVIOUS
<1> QED
  BY <1>1, <1>2 DEF Settled

LEMMA OneFurther ==
    ASSUME NEW k \in 3..12
    PROVE  /\ k + 1 >= 4 => k = 3 \/ k >= 4
           /\ k + 1 >= 5 => k = 4 \/ k >= 5
           /\ k + 1 >= 7 => k = 6 \/ k >= 7
           /\ k + 1 >= 8 => k = 7 \/ k >= 8
           /\ k + 1 >= 9 => k = 8 \/ k >= 9
           /\ k + 1 >= 10 => k = 9 \/ k >= 10
           /\ k + 1 >= 12 => k = 11 \/ k >= 12
           /\ k + 1 >= 13 => k = 12
OBVIOUS

\* The next part is done.
LEMMA SettledNext ==
    ASSUME NEW k \in 3..12, Settled(k)',
           k = 3 => Default \in shops',
           k = 4 => bootRole'[Admin] # Boot!None,
           k = 6 => \A e \in Barbers : barber'[e] # Boot!None,
           k = 7 => \A e \in Barbers : barber'[e] = "placed",
           k = 8 => HasServices',
           k = 9 => \A u \in Boot!Accounts : bootRole'[u] # "",
           k = 11 => Perms \subseteq bootPerms',
           k = 12 => NamesSettled' /\ TallyRight'
    PROVE  Settled(k + 1)'
<1>1. /\ k + 1 >= 4 => Default \in shops'
      /\ k + 1 >= 5 => bootRole'[Admin] # Boot!None
      /\ k + 1 >= 7 => \A e \in Barbers : barber'[e] # Boot!None
      /\ k + 1 >= 8 => \A e \in Barbers : barber'[e] = "placed"
  BY OneFurther, Zenon DEF Settled
<1>2. /\ k + 1 >= 9 => HasServices'
      /\ k + 1 >= 10 => \A u \in Boot!Accounts : bootRole'[u] # ""
      /\ k + 1 >= 12 => Perms \subseteq bootPerms'
      /\ k + 1 >= 13 => NamesSettled' /\ TallyRight'
  BY OneFurther, Zenon DEF Settled
<1> QED
  BY <1>1, <1>2 DEF Settled

\* What a step that ends has settled, at its place in InitDB.
LEMMA StepSettles ==
    ASSUME StartInv, NEW p \in Procs, Boot!DoStep(p), Boot!Continue(p), NEW k \in 3..12, Ahead(p, k), Progress(p, k), full[p]
    PROVE  Settled(k + 1)'
<1>1. /\ Shapes /\ LinksHaveCustomers /\ WorkOK(p) /\ state[p] = "starting" /\ todo[p] # <<>> /\ todo[p] \in Seq(StartSteps)
      /\ k \in 1..13
  BY StepIsAt DEF StartInv, Shapes, ControlOK
<1>2. Settled(k) /\ Settled(k)'
  BY <1>1, SettledKept DEF Progress
<1>3. SeedsGrow
  BY <1>1, SeedEffects
<1>4. /\ k = 3 => Boot!Now(p).do = "shop"
      /\ k = 4 => Boot!Now(p).do = "admin"
      /\ k = 6 => Boot!Now(p).do = "barbers"
      /\ k = 7 => Boot!Now(p).do = "place"
      /\ k = 8 => Boot!Now(p).do = "services"
      /\ k = 9 => Boot!Now(p).do = "roles"
      /\ k = 11 => Boot!Now(p).do = "reconcile"
      /\ k = 12 => Boot!Now(p).do = "customers"
  BY <1>1, NowIs, InitAre DEF Boot!Step
<1>5. k = 3 => Default \in shops'
  <2>1. k = 3 => Boot!SeedShop(p)
    BY <1>4 DEF Boot!DoStep, Boot!At, Boot!ReadActive, Boot!WriteKeys, Boot!SeedShop, Boot!SeedAdmin, Boot!SeedPlatform, Boot!SeedBarbers, Boot!EnsureBarberShopIDs,
           Boot!ListShops, Boot!CountServices, Boot!SeedService, Boot!BackfillRoles, Boot!SeedDefaultRolePermissions, Boot!ReconcileRolePermissions,
           Boot!AddPlatformPerms, Boot!StepPlatformAdmin, Boot!ListNames, Boot!LinkCustomer, Boot!Recount
  <2> QED
    BY <2>1 DEF Boot!SeedShop
<1>6. k = 4 => bootRole'[Admin] # Boot!None
  <2>1. k = 4 => Boot!SeedAdmin(p)
    BY <1>4 DEF Boot!DoStep, Boot!At, Boot!ReadActive, Boot!WriteKeys, Boot!SeedShop, Boot!SeedAdmin, Boot!SeedPlatform, Boot!SeedBarbers, Boot!EnsureBarberShopIDs,
           Boot!ListShops, Boot!CountServices, Boot!SeedService, Boot!BackfillRoles, Boot!SeedDefaultRolePermissions, Boot!ReconcileRolePermissions,
           Boot!AddPlatformPerms, Boot!StepPlatformAdmin, Boot!ListNames, Boot!LinkCustomer, Boot!Recount
  <2>2. Admin \in DOMAIN bootRole
    BY <1>1, AccountsAre DEF Shapes, DataOK
  <2> QED
    BY <2>1, <2>2 DEF Boot!SeedAdmin, Boot!None
<1>7. k = 6 => \A e \in Barbers : barber'[e] # Boot!None
  <2>1. k = 6 => Boot!SeedBarbers(p)
    BY <1>4 DEF Boot!DoStep, Boot!At, Boot!ReadActive, Boot!WriteKeys, Boot!SeedShop, Boot!SeedAdmin, Boot!SeedPlatform, Boot!SeedBarbers, Boot!EnsureBarberShopIDs,
           Boot!ListShops, Boot!CountServices, Boot!SeedService, Boot!BackfillRoles, Boot!SeedDefaultRolePermissions, Boot!ReconcileRolePermissions,
           Boot!AddPlatformPerms, Boot!StepPlatformAdmin, Boot!ListNames, Boot!LinkCustomer, Boot!Recount
  <2>2. ~Boot!Busy(p, work[p])
    <3>1. Len(Tail(todo[p])) = Len(todo[p]) - 1 /\ Len(todo[p]) \in Nat /\ DOMAIN todo = Procs
      BY <1>1 DEF Shapes, ControlOK
    <3>2. Tail(todo[p]) # todo[p]
      BY <3>1
    <3> QED
      BY <3>1, <3>2 DEF Boot!Busy, Boot!Continue, Boot!GoTo
  <2>3. k = 6 => {e \in Barbers : barber[e] = Boot!None} = {} /\ barber' = barber
    BY <2>1, <2>2 DEF Boot!SeedBarbers
  <2> QED
    BY <2>3
<1>8. k = 7 => \A e \in Barbers : barber'[e] = "placed"
  <2>1. k = 7 => Boot!EnsureBarberShopIDs(p)
    BY <1>4 DEF Boot!DoStep, Boot!At, Boot!ReadActive, Boot!WriteKeys, Boot!SeedShop, Boot!SeedAdmin, Boot!SeedPlatform, Boot!SeedBarbers, Boot!EnsureBarberShopIDs,
           Boot!ListShops, Boot!CountServices, Boot!SeedService, Boot!BackfillRoles, Boot!SeedDefaultRolePermissions, Boot!ReconcileRolePermissions,
           Boot!AddPlatformPerms, Boot!StepPlatformAdmin, Boot!ListNames, Boot!LinkCustomer, Boot!Recount
  <2>2. k = 7 => Default \in shops /\ \A e \in Barbers : barber[e] # Boot!None
    BY <1>2 DEF Settled
  <2>3. barber \in [Barbers -> {Boot!None, "nowhere", "placed"}]
    BY <1>1 DEF Shapes, DataOK
  <2> QED
    BY <2>1, <2>2, <2>3 DEF Boot!EnsureBarberShopIDs
<1>9. k = 8 => HasServices'
  <2> SUFFICES ASSUME k = 8, NEW s \in shops' PROVE Boot!ToSeed(s)' = {}
    BY DEF HasServices
  <2>1. Boot!CountServices(p) /\ work[p].shops = {}
    <3>1. Boot!ListShops(p) \/ Boot!CountServices(p) \/ Boot!SeedService(p)
      BY <1>4 DEF Boot!DoStep, Boot!At, Boot!ReadActive, Boot!WriteKeys, Boot!SeedShop, Boot!SeedAdmin, Boot!SeedPlatform, Boot!SeedBarbers, Boot!EnsureBarberShopIDs,
             Boot!BackfillRoles, Boot!SeedDefaultRolePermissions, Boot!ReconcileRolePermissions,
             Boot!AddPlatformPerms, Boot!StepPlatformAdmin, Boot!ListNames, Boot!LinkCustomer, Boot!Recount
    <3>2. todo'[p] # todo[p]
      <4>1. Len(Tail(todo[p])) = Len(todo[p]) - 1 /\ Len(todo[p]) \in Nat /\ DOMAIN todo = Procs
        BY <1>1 DEF Shapes, ControlOK
      <4> QED
        BY <4>1 DEF Boot!Continue, Boot!GoTo
    <3> QED
      BY <3>1, <3>2 DEF Boot!ListShops, Boot!CountServices, Boot!SeedService, Boot!Busy
  <2>2. Default \in shops
    BY <1>2 DEF Settled
  <2>3. s \in shops /\ s \in Shops
    BY <1>3, <2>2 DEF SeedsGrow, ShopsGrow
  <2>4. Boot!ToSeed(s) = {} \/ (work[p].left = {} /\ work[p].left = Defaults)
    BY <2>1, <2>3 DEF Progress, ServicesSoFar, Boot!CountServices
  <2>5. Boot!ToSeed(s) = {}
    BY <2>4 DEF Boot!ToSeed
  <2> QED
    BY <1>1, <1>3, <2>3, <2>5, SeededStays DEF SeedsGrow
<1>10. k = 9 => \A u \in Boot!Accounts : bootRole'[u] # ""
  <2>1. k = 9 => Boot!BackfillRoles(p)
    BY <1>4 DEF Boot!DoStep, Boot!At, Boot!ReadActive, Boot!WriteKeys, Boot!SeedShop, Boot!SeedAdmin, Boot!SeedPlatform, Boot!SeedBarbers, Boot!EnsureBarberShopIDs,
           Boot!ListShops, Boot!CountServices, Boot!SeedService, Boot!SeedDefaultRolePermissions, Boot!ReconcileRolePermissions,
           Boot!AddPlatformPerms, Boot!StepPlatformAdmin, Boot!ListNames, Boot!LinkCustomer, Boot!Recount
  <2>2. ASSUME k = 9, NEW u \in Boot!Accounts PROVE bootRole'[u] # ""
    <3>1. bootRole'[u] = IF bootRole[u] = "" THEN "owner" ELSE bootRole[u]
      BY <2>1, <2>2 DEF Boot!BackfillRoles
    <3> QED
      BY <3>1
  <2> QED
    BY <2>2
<1>11. k = 11 => Perms \subseteq bootPerms'
  <2>1. k = 11 => Boot!ReconcileRolePermissions(p)
    BY <1>4 DEF Boot!DoStep, Boot!At, Boot!ReadActive, Boot!WriteKeys, Boot!SeedShop, Boot!SeedAdmin, Boot!SeedPlatform, Boot!SeedBarbers, Boot!EnsureBarberShopIDs,
           Boot!ListShops, Boot!CountServices, Boot!SeedService, Boot!BackfillRoles, Boot!SeedDefaultRolePermissions,
           Boot!AddPlatformPerms, Boot!StepPlatformAdmin, Boot!ListNames, Boot!LinkCustomer, Boot!Recount
  <2> QED
    BY <2>1 DEF Boot!ReconcileRolePermissions
<1>12. k = 12 => NamesSettled' /\ TallyRight'
  <2> SUFFICES ASSUME k = 12 PROVE NamesSettled' /\ TallyRight'
    OBVIOUS
  <2>1. Boot!ListNames(p) \/ Boot!LinkCustomer(p) \/ Boot!Recount(p)
    BY <1>4 DEF Boot!DoStep, Boot!At, Boot!ReadActive, Boot!WriteKeys, Boot!SeedShop, Boot!SeedAdmin, Boot!SeedPlatform, Boot!SeedBarbers, Boot!EnsureBarberShopIDs,
           Boot!ListShops, Boot!CountServices, Boot!SeedService, Boot!BackfillRoles, Boot!SeedDefaultRolePermissions, Boot!ReconcileRolePermissions,
           Boot!AddPlatformPerms, Boot!StepPlatformAdmin
  <2>2. todo'[p] # todo[p]
    <3>1. Len(Tail(todo[p])) = Len(todo[p]) - 1 /\ Len(todo[p]) \in Nat /\ DOMAIN todo = Procs
      BY <1>1 DEF Shapes, ControlOK
    <3> QED
      BY <3>1 DEF Boot!Continue, Boot!GoTo
  <2>3. CASE Boot!ListNames(p)
    <3>1. Boot!Unlinked = {}
      BY <2>2, <2>3 DEF Boot!ListNames, Boot!Busy
    <3>2. Boot!Unlinked' = {}
      BY <1>1, <3>1, NamesKept
    <3> QED
      BY <3>2 DEF NamesSettled, TallyRight
  <2>4. CASE Boot!Recount(p)
    <3>1. /\ cust' = cust /\ appt' = appt /\ work[p].on /\ work[p].names = {}
          /\ tally' = [n \in Boot!Names |-> IF cust[n] # Boot!None THEN Boot!Recounted(n) ELSE tally[n]]
      BY <2>4 DEF Boot!Recount
    <3>2. NamesSettled
      BY <3>1 DEF Progress, NamesSoFar, NamesSettled
    <3>3. \A n : Boot!Recounted(n)' = Boot!Recounted(n)
      BY <3>1, SameRows
    <3>4. TallyRight'
      BY <3>1, <3>3 DEF TallyRight
    <3> QED
      BY <1>1, <3>2, <3>4, NamesStaySettled
  <2>5. ~Boot!LinkCustomer(p)
    BY <2>2 DEF Boot!LinkCustomer, Boot!Busy
  <2> QED
    BY <2>1, <2>3, <2>4, <2>5
<1> QED
  BY <1>2, <1>5, <1>6, <1>7, <1>8, <1>9, <1>10, <1>11, <1>12, SettledNext

\* A process goes on with its list, or returns from a function of it.
LEMMA Advances ==
    ASSUME StartInv, NEW p \in Procs, Boot!DoStep(p), NEW k \in 3..13, Progress(p, k), NEW k2 \in 1..13, Ahead(p, k2)',
           NEW steps, Boot!GoTo(p, steps), KeysRight', full[p] => Settled(k2)', p \in again => k2 # 5, k2 >= 3,
           todo'[p] = <<>> => k2 = 13
    PROVE  /\ WorkOK(p)' /\ OnItsWay(p)'
           /\ clean' => clean \/ Settled(13)'
<1>1. Shapes /\ DOMAIN work = Procs /\ DOMAIN todo = Procs
  BY DEF StartInv, Shapes, ControlOK
<1>2. work'[p] = Boot!Idle /\ todo'[p] = steps
  BY <1>1 DEF Boot!GoTo
<1>3. full' = full /\ again' = again
  BY <1>1, StepFrame
<1>4. WorkOK(p)'
  BY <1>2 DEF WorkOK, Boot!Idle
<1>5. Progress(p, k2)'
  <2>1. ~work'[p].on /\ work'[p].left = {}
    BY <1>2 DEF Boot!Idle
  <2>2. k2 # 2
    OBVIOUS
  <2>3. ServicesSoFar(p)' /\ NamesSoFar(p)' /\ InVain(p)'
    BY <2>1 DEF ServicesSoFar, NamesSoFar, InVain
  <2> QED
    BY <1>3, <2>1, <2>2, <2>3 DEF Progress
<1>6. clean' => clean \/ Settled(13)'
  <2>1. clean' => clean \/ (steps = <<>> /\ full[p])
    BY DEF Boot!GoTo
  <2> QED
    BY <1>2, <2>1
<1> QED
  BY <1>4, <1>5, <1>6 DEF OnItsWay

\* A process works on where it is.
LEMMA WorksOn ==
    ASSUME StartInv, NEW p \in Procs, Boot!DoStep(p), NEW k \in 3..13, Ahead(p, k), Progress(p, k),
           todo'[p] = todo[p], state'[p] = state[p], KeysRight',
           full[p] /\ k = 8 => ServicesSoFar(p)', full[p] /\ k = 12 => NamesSoFar(p)',
           p \in again /\ k = 8 => InVain(p)',
           p \in again /\ k = 12 /\ work'[p].on => Boot!Unlinked' # {}
    PROVE  OnItsWay(p)'
<1>1. Shapes /\ LinksHaveCustomers /\ WorkOK(p) /\ k \in 1..13
  BY DEF StartInv
<1>2. full' = full /\ again' = again
  BY <1>1, StepFrame
<1>3. Ahead(p, k)'
  BY <1>1, AheadKept
<1>4. full[p] => Settled(k)'
  BY <1>1, SettledKept DEF Progress
<1>5. Progress(p, k)'
  <2>1. k # 2
    OBVIOUS
  <2> QED
    BY <1>2, <1>4, <2>1 DEF Progress
<1> QED
  BY <1>1, <1>3, <1>5 DEF OnItsWay

LEMMA NotReadOrKey ==
    ASSUME StartInv, NEW p \in Procs, Boot!DoStep(p), NEW k \in 1..13, Ahead(p, k), k >= 3
    PROVE  ~Boot!ReadActive(p) /\ ~Boot!WriteKeys(p)
<1>1. todo[p] # <<>> /\ todo[p] \in Seq(StartSteps)
  BY StepIsAt DEF StartInv, Shapes, ControlOK
<1>2. Boot!Now(p).do \notin {"read", "key"}
  BY <1>1, PlaceIs
<1> QED
  BY <1>2 DEF Boot!ReadActive, Boot!WriteKeys, Boot!At

LEMMA ContinueOn ==
    ASSUME StartInv, NEW p \in Procs, Boot!DoStep(p), NEW k \in 3..13, Ahead(p, k), Progress(p, k), Boot!Continue(p)
    PROVE  /\ WorkOK(p)' /\ OnItsWay(p)'
           /\ clean' => clean \/ Settled(13)'
<1>1. Shapes /\ LinksHaveCustomers /\ WorkOK(p) /\ todo[p] # <<>> /\ todo[p] \in Seq(StartSteps) /\ k \in 1..13
  BY StepIsAt DEF StartInv, Shapes, ControlOK
<1>2. todo'[p] = Tail(todo[p]) /\ Boot!GoTo(p, Tail(todo[p]))
  BY <1>1 DEF Boot!Continue, Boot!GoTo, Shapes, ControlOK
<1>3. KeysRight'
  <2>1. KeysRight
    BY DEF Progress
  <2> QED
    BY <1>1, <2>1, AtKeyRows, KeysKept
<1>4. CASE k < 13
  <2>1. /\ k \in 3..12 /\ k + 1 \in 1..13 /\ k + 1 >= 3
    BY <1>4
  <2>2. Ahead(p, k + 1)' /\ (todo'[p] = <<>> => k + 1 = 13)
    <3>1. Ahead(p, k + 1)' /\ (todo'[p] = <<>> => k >= 12)
      BY <1>1, <1>2, <1>4, TailAhead
    <3>2. k >= 12 => k + 1 = 13
      BY <2>1
    <3> QED
      BY <3>1, <3>2
  <2>3. full[p] => Settled(k + 1)'
    BY <2>1, StepSettles
  <2>4. p \in again => k + 1 # 5
    <3> SUFFICES ASSUME p \in again, k = 4 PROVE FALSE
      BY <2>1
    <3>1. Boot!Now(p).do = "admin"
      BY <1>1, NowIs, InitAre DEF Boot!Step
    <3>2. Boot!SeedAdmin(p)
      BY <3>1 DEF Boot!DoStep, Boot!At, Boot!ReadActive, Boot!WriteKeys, Boot!SeedShop, Boot!SeedAdmin, Boot!SeedPlatform, Boot!SeedBarbers, Boot!EnsureBarberShopIDs,
             Boot!ListShops, Boot!CountServices, Boot!SeedService, Boot!BackfillRoles, Boot!SeedDefaultRolePermissions, Boot!ReconcileRolePermissions,
             Boot!AddPlatformPerms, Boot!StepPlatformAdmin, Boot!ListNames, Boot!LinkCustomer, Boot!Recount
    <3>3. bootRole[Admin] # Boot!None
      BY WasAgain
    <3>4. Boot!Quit(p)
      BY <3>2, <3>3 DEF Boot!SeedAdmin
    <3>5. todo'[p] = Boot!Return(p)
      BY <1>1, <3>4 DEF Boot!Quit, Boot!GoTo, Shapes, ControlOK
    <3>6. Ahead(p, 6)' /\ Ahead(p, 5)'
      BY <1>1, <1>2, <3>5, TailAhead, ReturnAhead DEF Past
    <3>7. todo'[p][1] = Boot!InitSteps[5] /\ todo'[p][1] = Boot!InitSteps[6]
      <4>1. /\ 1 \in 1..13 - 5 /\ 1 \in 1..13 - 6 /\ 5 + 1 - 1 = 5 /\ 6 + 1 - 1 = 6
        OBVIOUS
      <4> QED
        BY <3>6, <4>1 DEF Ahead
    <3>8. Boot!InitSteps[5].in = "shop" /\ Boot!InitSteps[6].in = "barbers"
      BY InitAre DEF Boot!Step
    <3> QED
      BY <3>7, <3>8
  <2> QED
    BY <1>2, <1>3, <2>1, <2>2, <2>3, <2>4, Advances
<1>5. CASE k = 13
  <2>1. Ahead(p, 13)'
    BY <1>1, <1>2, <1>5, TailAhead
  <2>2. full[p] => Settled(13)'
    BY <1>1, <1>5, SettledKept DEF Progress
  <2> QED
    BY <1>2, <1>3, <1>5, <2>1, <2>2, Advances
<1> QED
  BY <1>4, <1>5

LEMMA AdminOn ==
    ASSUME StartInv, NEW p \in Procs, Boot!SeedAdmin(p), Boot!Quit(p), bootRole[Admin] # Boot!None, UNCHANGED bootRole
    PROVE  /\ WorkOK(p)' /\ OnItsWay(p)'
           /\ clean' => clean \/ Settled(13)'
<1>1. Shapes /\ LinksHaveCustomers /\ WorkOK(p) /\ todo[p] # <<>> /\ todo[p] \in Seq(StartSteps) /\ Boot!DoStep(p)
      /\ state[p] = "starting" /\ Boot!Now(p).do = "admin"
  BY DEF StartInv, Shapes, ControlOK, Boot!SeedAdmin, Boot!At, Boot!DoStep
<1>2. PICK k \in 1..13 : Ahead(p, k) /\ Progress(p, k)
  BY <1>1 DEF StartInv, OnItsWay
<1>3. k \in {4, 13}
  BY <1>1, <1>2, PlaceIs
<1>4. todo'[p] = Boot!Return(p) /\ Boot!GoTo(p, Boot!Return(p))
  BY <1>1 DEF Boot!Quit, Boot!GoTo, Shapes, ControlOK
<1>5. Ahead(p, Past(k))' /\ (todo'[p] = <<>> => k >= 12)
  BY <1>1, <1>2, <1>3, <1>4, ReturnAhead
<1>6. KeysRight'
  <2>1. KeysRight
    BY <1>2, <1>3 DEF Progress
  <2> QED
    BY <1>1, <2>1, AtKeyRows, KeysKept
<1>7. full[p] => Settled(k)'
  BY <1>1, <1>2, SettledKept DEF Progress
<1>8. CASE k = 4
  <2>1. Past(k) = 6
    BY <1>8 DEF Past
  <2>2. full[p] => Settled(6)'
    <3>1. full[p] => Default \in shops'
      BY <1>7, <1>8 DEF Settled
    <3>2. bootRole'[Admin] # Boot!None
      OBVIOUS
    <3> QED
      BY <3>1, <3>2 DEF Settled
  <2>3. todo'[p] # <<>>
    BY <1>5, <1>8
  <2>4. 4 \in 3..13 /\ 6 \in 1..13 /\ 6 >= 3 /\ 6 # 5
    OBVIOUS
  <2> QED
    BY <1>1, <1>2, <1>4, <1>5, <1>6, <1>8, <2>1, <2>2, <2>3, <2>4, Advances
<1>9. CASE k = 13
  <2>1. Past(k) = 13 /\ 13 \in 3..13 /\ 13 \in 1..13 /\ 13 >= 3 /\ 13 # 5
    BY <1>9 DEF Past
  <2> QED
    BY <1>1, <1>2, <1>4, <1>5, <1>6, <1>7, <1>9, <2>1, Advances
<1> QED
  BY <1>3, <1>8, <1>9

LEMMA SameWork ==
    ASSUME Shapes, NEW p \in Procs, NEW w, Boot!Busy(p, w)
    PROVE  work'[p] = w /\ todo' = todo /\ state' = state
BY DEF Boot!Busy, Shapes, ControlOK

LEMMA BarbersOn ==
    ASSUME StartInv, NEW p \in Procs, Boot!SeedBarbers(p), Boot!Busy(p, work[p])
    PROVE  WorkOK(p)' /\ OnItsWay(p)'
<1>1. /\ Shapes /\ LinksHaveCustomers /\ WorkOK(p) /\ Boot!DoStep(p) /\ todo[p] # <<>> /\ todo[p] \in Seq(StartSteps)
      /\ state[p] = "starting" /\ Boot!Now(p).do = "barbers"
  BY DEF StartInv, Shapes, ControlOK, Boot!SeedBarbers, Boot!At, Boot!DoStep
<1>2. PICK k \in 1..13 : Ahead(p, k) /\ Progress(p, k)
  BY <1>1 DEF StartInv, OnItsWay
<1>3. k \in {6, 13}
  BY <1>1, <1>2, PlaceIs
<1>4. work'[p] = work[p] /\ todo' = todo /\ state' = state
  BY <1>1, SameWork
<1>5. KeysRight'
  BY <1>1, <1>2, <1>3, AtKeyRows, KeysKept DEF Progress
<1>6. WorkOK(p)'
  <2>1. shops \subseteq shops' /\ Seen' = Seen
    BY <1>1, SeedEffects, NamesKept DEF SeedsGrow, ShopsGrow
  <2> QED
    BY <1>1, <1>4, <2>1 DEF WorkOK, Boot!Now
<1>7. k \in 3..13 /\ k # 8 /\ k # 12
  BY <1>3
<1> QED
  BY <1>1, <1>2, <1>4, <1>5, <1>6, <1>7, WorksOn

\* The place of a process that seeds services, or links names.
LEMMA ServicesPlace ==
    ASSUME StartInv, NEW p \in Procs, Boot!DoStep(p), Boot!Now(p).do \in {"services", "customers"}
    PROVE  /\ Shapes /\ LinksHaveCustomers /\ WorkOK(p) /\ todo[p] # <<>> /\ state[p] = "starting"
           /\ work[p] \in Works /\ KeysRight' /\ SeedsGrow
           /\ Boot!Unlinked' \subseteq Boot!Unlinked /\ Seen' = Seen
           /\ \E k \in 3..13 : /\ Ahead(p, k) /\ Progress(p, k)
                               /\ k = 8 => Boot!Now(p).do = "services"
                               /\ k = 12 => Boot!Now(p).do = "customers"
<1>1. Shapes /\ LinksHaveCustomers /\ WorkOK(p) /\ todo[p] # <<>> /\ todo[p] \in Seq(StartSteps) /\ state[p] = "starting"
      /\ work[p] \in Works
  BY StepIsAt DEF StartInv, Shapes, ControlOK
<1>2. PICK k \in 1..13 : Ahead(p, k) /\ Progress(p, k)
  BY <1>1 DEF StartInv, OnItsWay
<1>3. /\ Boot!Now(p).do = "services" => k \in {8, 13}
      /\ Boot!Now(p).do = "customers" => k \in {12, 13}
  BY <1>1, <1>2, PlaceIs
<1>4. k \in 3..13
  BY <1>3
<1>5. KeysRight'
  BY <1>1, <1>2, <1>4, AtKeyRows, KeysKept DEF Progress
<1>6. SeedsGrow /\ Boot!Unlinked' \subseteq Boot!Unlinked /\ Seen' = Seen
  BY <1>1, SeedEffects, NamesKept
<1>7. (k = 8 => Boot!Now(p).do = "services") /\ (k = 12 => Boot!Now(p).do = "customers")
  BY <1>3
<1> QED
  BY <1>1, <1>2, <1>4, <1>5, <1>6, <1>7

LEMMA ListShopsOn ==
    ASSUME StartInv, NEW p \in Procs, Boot!ListShops(p)
    PROVE  WorkOK(p)' /\ OnItsWay(p)'
<1>1. Boot!DoStep(p) /\ Boot!Now(p).do = "services" /\ ~work[p].on
  BY DEF Boot!ListShops, Boot!At, Boot!DoStep
<1>2. /\ Shapes /\ LinksHaveCustomers /\ WorkOK(p) /\ todo[p] # <<>> /\ state[p] = "starting"
      /\ work[p] \in Works /\ KeysRight' /\ SeedsGrow /\ Boot!Unlinked' \subseteq Boot!Unlinked /\ Seen' = Seen
  BY <1>1, ServicesPlace
<1>3. PICK k \in 3..13 : /\ Ahead(p, k) /\ Progress(p, k)
                         /\ k = 8 => Boot!Now(p).do = "services"
                         /\ k = 12 => Boot!Now(p).do = "customers"
  BY <1>1, ServicesPlace, Zenon
<1>4. work'[p] = [work[p] EXCEPT !.on = TRUE, !.shops = shops] /\ todo' = todo /\ state' = state /\ shops' = shops
  BY <1>2, SameWork DEF Boot!ListShops, Boot!seeds
<1>5. work'[p].on /\ work'[p].shops = shops /\ work'[p].left = {} /\ work'[p].names = work[p].names
  BY <1>1, <1>2, <1>4 DEF Works, WorkOK
<1>6. WorkOK(p)'
  BY <1>1, <1>2, <1>4, <1>5 DEF WorkOK, Boot!Now
<1>7. ServicesSoFar(p)' /\ InVain(p)'
  BY <1>4, <1>5 DEF ServicesSoFar, InVain
<1> QED
  BY <1>1, <1>2, <1>3, <1>4, <1>5, <1>6, <1>7, WorksOn

LEMMA CountServicesOn ==
    ASSUME StartInv, NEW p \in Procs, Boot!CountServices(p), ~Boot!Continue(p)
    PROVE  WorkOK(p)' /\ OnItsWay(p)'
<1>1. Boot!DoStep(p) /\ Boot!Now(p).do = "services" /\ work[p].on /\ work[p].left = {}
  BY DEF Boot!CountServices, Boot!At, Boot!DoStep
<1>2. /\ Shapes /\ LinksHaveCustomers /\ WorkOK(p) /\ todo[p] # <<>> /\ state[p] = "starting"
      /\ work[p] \in Works /\ KeysRight' /\ SeedsGrow /\ Boot!Unlinked' \subseteq Boot!Unlinked /\ Seen' = Seen
  BY <1>1, ServicesPlace
<1>3. PICK k \in 3..13 : /\ Ahead(p, k) /\ Progress(p, k)
                         /\ k = 8 => Boot!Now(p).do = "services"
                         /\ k = 12 => Boot!Now(p).do = "customers"
  BY <1>1, ServicesPlace, Zenon
<1>4. PICK s \in work[p].shops : Boot!Busy(p, [work[p] EXCEPT !.shops = @ \ {s}, !.shop = s, !.left = Boot!ToSeed(s)])
  BY DEF Boot!CountServices
<1>5. /\ work'[p] = [work[p] EXCEPT !.shops = @ \ {s}, !.shop = s, !.left = Boot!ToSeed(s)] /\ todo' = todo /\ state' = state
      /\ shops' = shops /\ service' = service
  BY <1>2, <1>4, SameWork DEF Boot!CountServices, Boot!seeds
<1>6. /\ work'[p].on /\ work'[p].shops = work[p].shops \ {s} /\ work'[p].left = Boot!ToSeed(s) /\ work'[p].shop = s
      /\ work'[p].names = work[p].names
  BY <1>1, <1>2, <1>5 DEF Works
<1>7. WorkOK(p)'
  BY <1>1, <1>2, <1>5, <1>6 DEF WorkOK, Boot!Now
<1>8. ServicesSoFar(p) => ServicesSoFar(p)'
  <2> SUFFICES ASSUME ServicesSoFar(p), NEW x \in shops \ (work[p].shops \ {s})
               PROVE  Boot!ToSeed(x)' = {} \/ (x = s /\ Boot!ToSeed(s) = Defaults)
    BY <1>5, <1>6 DEF ServicesSoFar
  <2>1. Boot!ToSeed(x)' = Boot!ToSeed(x)
    BY <1>5 DEF Boot!ToSeed
  <2>2. CASE x = s
    BY <2>1, <2>2 DEF Boot!ToSeed
  <2>3. CASE x # s
    <3>1. Boot!ToSeed(x) = {} \/ Defaults = {}
      BY <1>1, <2>3 DEF ServicesSoFar
    <3> QED
      BY <2>1, <3>1 DEF Boot!ToSeed
  <2> QED
    BY <2>2, <2>3
<1>9. p \in again => InVain(p)'
  <2>1. s \in shops
    BY <1>2 DEF WorkOK
  <2>2. p \in again => Boot!ToSeed(s) = {}
    BY <2>1, WasAgain DEF HasServices
  <2> QED
    BY <1>6, <2>2 DEF InVain
<1>10. full[p] /\ k = 8 => ServicesSoFar(p)'
  BY <1>3, <1>8 DEF Progress
<1>11. k # 12
  BY <1>1, <1>3
<1> QED
  BY <1>1, <1>2, <1>3, <1>5, <1>7, <1>9, <1>10, <1>11, WorksOn

LEMMA SeedServiceOn ==
    ASSUME StartInv, NEW p \in Procs, Boot!SeedService(p)
    PROVE  WorkOK(p)' /\ OnItsWay(p)'
<1>1. Boot!DoStep(p) /\ Boot!Now(p).do = "services"
  BY DEF Boot!SeedService, Boot!At, Boot!DoStep
<1>2. /\ Shapes /\ LinksHaveCustomers /\ WorkOK(p) /\ todo[p] # <<>> /\ state[p] = "starting"
      /\ work[p] \in Works /\ KeysRight' /\ SeedsGrow /\ Boot!Unlinked' \subseteq Boot!Unlinked /\ Seen' = Seen
  BY <1>1, ServicesPlace
<1>3. PICK k \in 3..13 : /\ Ahead(p, k) /\ Progress(p, k)
                         /\ k = 8 => Boot!Now(p).do = "services"
                         /\ k = 12 => Boot!Now(p).do = "customers"
  BY <1>1, ServicesPlace, Zenon
<1>4. PICK n \in work[p].left : /\ service' = [service EXCEPT ![work[p].shop][n] = @ + 1]
                                /\ work' = [work EXCEPT ![p].left = @ \ {n}]
  BY DEF Boot!SeedService
<1>5. /\ todo' = todo /\ state' = state /\ shops' = shops /\ n \in Defaults /\ work[p].on
      /\ work'[p].on /\ work'[p].shops = work[p].shops /\ work'[p].left = work[p].left \ {n}
      /\ work'[p].shop = work[p].shop /\ work'[p].names = work[p].names
  <2>1. work'[p] = [work[p] EXCEPT !.left = @ \ {n}]
    BY <1>4 DEF StartInv, Shapes, ControlOK
  <2> QED
    BY <1>2, <1>4, <2>1 DEF Works, WorkOK, Boot!SeedService
<1>6. WorkOK(p)'
  BY <1>1, <1>2, <1>5 DEF WorkOK, Boot!Now
<1>7. PICK s \in Shops : s = work[p].shop
  BY <1>2 DEF Works
<1>8. Boot!ToSeed(s)' = {}
  <2>1. service'[s][n] = service[s][n] + 1 /\ service[s][n] \in Nat
    BY <1>2, <1>4, <1>5, <1>7 DEF Shapes, DataOK
  <2>2. service'[s][n] # 0
    BY <2>1
  <2> QED
    BY <1>5, <2>2 DEF Boot!ToSeed
<1>9. ServicesSoFar(p) => ServicesSoFar(p)'
  <2> SUFFICES ASSUME ServicesSoFar(p), NEW x \in shops \ work[p].shops PROVE Boot!ToSeed(x)' = {}
    BY <1>5 DEF ServicesSoFar
  <2>1. CASE x = s
    BY <1>8, <2>1
  <2>2. CASE x # s
    <3>1. Boot!ToSeed(x) = {} /\ x \in Shops
      BY <1>2, <1>5, <1>7, <2>2 DEF ServicesSoFar, Shapes, DataOK
    <3> QED
      BY <1>2, <3>1, SeededStays DEF SeedsGrow
  <2> QED
    BY <2>1, <2>2
<1>10. full[p] /\ k = 8 => ServicesSoFar(p)'
  BY <1>3, <1>9 DEF Progress
<1>11. p \in again /\ k = 8 => InVain(p)'
  <2>1. miscounted' = miscounted
    BY DEF Boot!SeedService
  <2> QED
    BY <1>3, <1>4, <1>5, <2>1 DEF Progress, InVain
<1>12. k # 12
  BY <1>1, <1>3
<1> QED
  BY <1>1, <1>2, <1>3, <1>5, <1>6, <1>10, <1>11, <1>12, WorksOn

LEMMA ListNamesOn ==
    ASSUME StartInv, NEW p \in Procs, Boot!ListNames(p), Boot!Unlinked # {}
    PROVE  WorkOK(p)' /\ OnItsWay(p)'
<1>1. Boot!DoStep(p) /\ Boot!Now(p).do = "customers" /\ ~work[p].on
  BY DEF Boot!ListNames, Boot!At, Boot!DoStep
<1>2. /\ Shapes /\ LinksHaveCustomers /\ WorkOK(p) /\ todo[p] # <<>> /\ state[p] = "starting"
      /\ work[p] \in Works /\ KeysRight' /\ SeedsGrow /\ Boot!Unlinked' \subseteq Boot!Unlinked /\ Seen' = Seen
  BY <1>1, ServicesPlace
<1>3. PICK k \in 3..13 : /\ Ahead(p, k) /\ Progress(p, k)
                         /\ k = 8 => Boot!Now(p).do = "services"
                         /\ k = 12 => Boot!Now(p).do = "customers"
  BY <1>1, ServicesPlace, Zenon
<1>4. /\ work'[p] = [work[p] EXCEPT !.on = TRUE, !.names = Boot!Unlinked] /\ todo' = todo /\ state' = state /\ shops' = shops
      /\ appt' = appt
  BY <1>2, SameWork DEF Boot!ListNames, Boot!seeds, Boot!booked
<1>5. work'[p].on /\ work'[p].names = Boot!Unlinked /\ work'[p].left = {} /\ work'[p].shops = work[p].shops
  BY <1>1, <1>2, <1>4 DEF Works, WorkOK
<1>6. Boot!Unlinked \subseteq Seen
  BY DEF Boot!Unlinked, Seen
<1>7. WorkOK(p)'
  BY <1>1, <1>2, <1>4, <1>5, <1>6 DEF WorkOK, Boot!Now
<1>8. NamesSoFar(p)' /\ Boot!Unlinked' = Boot!Unlinked
  BY <1>4, <1>5 DEF NamesSoFar, Boot!Unlinked
<1>9. k # 8
  BY <1>1, <1>3
<1> QED
  BY <1>1, <1>2, <1>3, <1>4, <1>5, <1>7, <1>8, <1>9, WorksOn

LEMMA LinkCustomerOn ==
    ASSUME StartInv, NEW p \in Procs, Boot!LinkCustomer(p)
    PROVE  WorkOK(p)' /\ OnItsWay(p)'
<1>1. Boot!DoStep(p) /\ Boot!Now(p).do = "customers" /\ work[p].on
  BY DEF Boot!LinkCustomer, Boot!At, Boot!DoStep
<1>2. /\ Shapes /\ LinksHaveCustomers /\ WorkOK(p) /\ todo[p] # <<>> /\ state[p] = "starting"
      /\ work[p] \in Works /\ KeysRight' /\ SeedsGrow /\ Boot!Unlinked' \subseteq Boot!Unlinked /\ Seen' = Seen
  BY <1>1, ServicesPlace
<1>3. PICK k \in 3..13 : /\ Ahead(p, k) /\ Progress(p, k)
                         /\ k = 8 => Boot!Now(p).do = "services"
                         /\ k = 12 => Boot!Now(p).do = "customers"
  BY <1>1, ServicesPlace, Zenon
<1>4. PICK n \in work[p].names : Boot!Busy(p, [work[p] EXCEPT !.names = @ \ {n}])
  BY DEF Boot!LinkCustomer
<1>5. work'[p] = [work[p] EXCEPT !.names = @ \ {n}] /\ todo' = todo /\ state' = state /\ shops' = shops
  BY <1>2, <1>4, SameWork DEF Boot!LinkCustomer, Boot!seeds
<1>6. /\ work'[p].on = work[p].on /\ work'[p].names = work[p].names \ {n} /\ work'[p].left = work[p].left
      /\ work'[p].shops = work[p].shops
  BY <1>2, <1>5 DEF Works
<1>7. WorkOK(p)'
  BY <1>1, <1>2, <1>5, <1>6 DEF WorkOK, Boot!Now
<1>8. NamesSoFar(p) => NamesSoFar(p)'
  <2> SUFFICES ASSUME NamesSoFar(p), NEW m \in Boot!Unlinked' \ work'[p].names PROVE ~Boot!Insertable(m)'
    BY DEF NamesSoFar
  <2>1. CASE m \in work[p].names
    BY <1>2, <2>1, LinkEffects
  <2>2. CASE m \notin work[p].names
    <3>1. ~Boot!Insertable(m) /\ m \in Boot!Names
      BY <1>1, <1>2, <2>2, NamesAre DEF NamesSoFar
    <3> QED
      BY <1>2, <3>1, LinkEffects
  <2> QED
    BY <2>1, <2>2
<1>9. full[p] /\ k = 12 => NamesSoFar(p)'
  BY <1>3, <1>8 DEF Progress
<1>10. p \in again /\ k = 12 => Boot!Unlinked' # {}
  <2>1. p \in again => Boot!Unlinked' = Boot!Unlinked
    BY <1>1, <1>2, WasAgain, NamesStaySettled
  <2> QED
    BY <1>1, <1>3, <2>1 DEF Progress
<1>11. k # 8
  BY <1>1, <1>3
<1> QED
  BY <1>1, <1>2, <1>3, <1>5, <1>7, <1>9, <1>10, <1>11, WorksOn

------------------------------------------------------------------------------
(* The keys are filled *)

LEMMA ReadActiveOn ==
    ASSUME StartInv, NEW p \in Procs, Boot!ReadActive(p)
    PROVE  WorkOK(p)' /\ OnItsWay(p)'
<1>1. /\ Boot!DoStep(p) /\ Boot!Now(p).do = "read" /\ Shapes /\ LinksHaveCustomers /\ WorkOK(p) /\ todo[p] # <<>>
      /\ todo[p] \in Seq(StartSteps) /\ state[p] = "starting" /\ work[p] \in Works
  BY DEF Boot!ReadActive, Boot!At, Boot!DoStep, StartInv, Shapes, ControlOK
<1>2. PICK k \in 1..13 : Ahead(p, k) /\ Progress(p, k)
  BY <1>1 DEF StartInv, OnItsWay
<1>3. k = 1
  BY <1>1, <1>2, PlaceIs
<1> DEFINE rows == {[id |-> a, slot |-> appt[a].slot] : a \in Boot!Active}
<1>4. /\ todo'[p] = Tail(todo[p]) /\ work'[p] = [work[p] EXCEPT !.rows = rows]
      /\ state' = state /\ shops' = shops /\ appt' = appt /\ full' = full /\ again' = again /\ bootRaced' = bootRaced
  BY <1>1 DEF Boot!ReadActive, Shapes, ControlOK, Boot!seeds, Boot!booked, Boot!history
<1>5. ~work[p].on /\ work[p].left = {} /\ work[p].names \subseteq Seen /\ work[p].shops \subseteq shops
  BY <1>1 DEF WorkOK
<1>6. /\ work'[p].rows = rows /\ ~work'[p].on /\ work'[p].left = {} /\ work'[p].names = work[p].names
      /\ work'[p].shops = work[p].shops
  BY <1>1, <1>4, <1>5 DEF Works
<1>7. Seen' = Seen
  BY <1>4 DEF Seen
<1>8. WorkOK(p)'
  BY <1>1, <1>4, <1>5, <1>6, <1>7 DEF WorkOK
<1>9. Ahead(p, 2)'
  BY <1>1, <1>2, <1>3, <1>4, TailAhead
<1>10. RowsRight(p)'
  <2> SUFFICES ASSUME NEW a \in Appts
               PROVE  /\ appt[a].status = "active" <=> \E r \in rows : r.id = a
                      /\ \A r \in rows : r.id = a => r.slot = appt[a].slot
    BY <1>4, <1>6 DEF RowsRight
  <2>1. /\ \A r \in rows : \E x \in Appts : r = [id |-> x, slot |-> appt[x].slot] /\ appt[x].status = "active"
        /\ appt[a].status = "active" => [id |-> a, slot |-> appt[a].slot] \in rows
    BY DEF Boot!Active
  <2> HIDE DEF rows
  <2> QED
    BY <2>1
<1>11. Settled(2)'
  <2>1. ~(2 >= 4) /\ ~(2 >= 5) /\ ~(2 >= 7) /\ ~(2 >= 8) /\ ~(2 >= 9) /\ ~(2 >= 10) /\ ~(2 >= 12) /\ ~(2 >= 13)
    OBVIOUS
  <2> QED
    BY <2>1, Zenon DEF Settled
<1>12. Progress(p, 2)'
  BY <1>10, <1>11 DEF Progress
<1> QED
  BY <1>8, <1>9, <1>12 DEF OnItsWay

LEMMA WriteKeysOn ==
    ASSUME StartInv, NEW p \in Procs, Boot!WriteKeys(p)
    PROVE  /\ WorkOK(p)' /\ OnItsWay(p)'
           /\ clean' => clean
<1>1. /\ Boot!DoStep(p) /\ Boot!Now(p).do = "key" /\ Shapes /\ LinksHaveCustomers /\ WorkOK(p) /\ todo[p] # <<>>
      /\ todo[p] \in Seq(StartSteps) /\ state[p] = "starting" /\ work[p] \in Works
  BY DEF Boot!WriteKeys, Boot!At, Boot!DoStep, StartInv, Shapes, ControlOK
<1>2. PICK k \in 1..13 : Ahead(p, k) /\ Progress(p, k)
  BY <1>1 DEF StartInv, OnItsWay
<1>3. k = 2
  BY <1>1, <1>2, PlaceIs
<1>4. RowsRight(p)
  BY <1>2, <1>3 DEF Progress
<1>5. CASE Boot!Continue(p)
  <2>1. todo'[p] = Tail(todo[p]) /\ work'[p] = Boot!Idle /\ full' = full /\ again' = again
    BY <1>1, <1>5 DEF Boot!Continue, Boot!GoTo, Shapes, ControlOK
  <2>2. Ahead(p, 3)' /\ todo'[p] # <<>>
    <3>1. /\ k < 13 => Ahead(p, k + 1)'
          /\ todo'[p] = <<>> => k >= 12
      BY <1>1, <1>2, <2>1, TailAhead
    <3>2. k < 13 /\ k + 1 = 3 /\ ~(k >= 12)
      BY <1>3
    <3> QED
      BY <3>1, <3>2
  <2>3. WorkOK(p)'
    BY <2>1 DEF WorkOK, Boot!Idle
  <2>4. Settled(3)'
    <3>1. ~(3 >= 4) /\ ~(3 >= 5) /\ ~(3 >= 7) /\ ~(3 >= 8) /\ ~(3 >= 9) /\ ~(3 >= 10) /\ ~(3 >= 12) /\ ~(3 >= 13)
      OBVIOUS
    <3> QED
      BY <3>1, Zenon DEF Settled
  <2>5. KeysRight'
    BY <1>1, <1>4, <1>5, KeysMade
  <2>6. Progress(p, 3)'
    BY <2>4, <2>5 DEF Progress
  <2>7. clean' => clean
    BY <2>1, <2>2, <1>5, <1>1, StepFrame
  <2> QED
    BY <2>2, <2>3, <2>6, <2>7 DEF OnItsWay
<1>6. CASE /\ todo' = [todo EXCEPT ![p] = <<>>] /\ work' = [work EXCEPT ![p] = Boot!Idle]
           /\ state' = [state EXCEPT ![p] = "failed"] /\ UNCHANGED Boot!history
  <2>1. work'[p] = Boot!Idle /\ state'[p] = "failed" /\ clean' = clean
    BY <1>1, <1>6 DEF Shapes, ControlOK, Boot!history
  <2> QED
    BY <2>1 DEF WorkOK, Boot!Idle, OnItsWay
<1> QED
  BY <1>5, <1>6 DEF Boot!WriteKeys

\* A step of a start keeps the process on its way, and a start that ends well leaves all settled.
LEMMA StepOn ==
    ASSUME StartInv, NEW p \in Procs, Boot!DoStep(p)
    PROVE  /\ WorkOK(p)' /\ OnItsWay(p)'
           /\ clean' => clean \/ Settled(13)'
<1>1. /\ Shapes /\ todo[p] # <<>> /\ todo[p] \in Seq(StartSteps) /\ state[p] = "starting"
  BY StepIsAt DEF StartInv, Shapes, ControlOK
<1>2. PICK k \in 1..13 : Ahead(p, k) /\ Progress(p, k)
  BY <1>1 DEF StartInv, OnItsWay
<1>3. CASE Boot!ReadActive(p)
  <2>1. clean' = clean
    BY <1>3 DEF Boot!ReadActive, Boot!history
  <2> QED
    BY <1>3, <2>1, ReadActiveOn
<1>4. CASE Boot!WriteKeys(p)
  BY <1>4, WriteKeysOn
<1>5. CASE Boot!Continue(p) /\ ~Boot!WriteKeys(p) /\ ~Boot!ReadActive(p)
  <2>1. k \in 3..13
    <3>1. Boot!Now(p).do \notin {"read", "key"}
      BY <1>5 DEF Boot!DoStep, Boot!At, Boot!ReadActive, Boot!WriteKeys, Boot!SeedShop, Boot!SeedAdmin, Boot!SeedPlatform, Boot!SeedBarbers, Boot!EnsureBarberShopIDs,
             Boot!ListShops, Boot!CountServices, Boot!SeedService, Boot!BackfillRoles, Boot!SeedDefaultRolePermissions, Boot!ReconcileRolePermissions,
             Boot!AddPlatformPerms, Boot!StepPlatformAdmin, Boot!ListNames, Boot!LinkCustomer, Boot!Recount
    <3>2. k # 1 /\ k # 2
      BY <1>1, <1>2, <3>1, PlaceIs
    <3> QED
      BY <3>2
  <2> QED
    BY <1>2, <1>5, <2>1, ContinueOn
<1>6. CASE Boot!SeedAdmin(p) /\ Boot!Quit(p) /\ bootRole[Admin] # Boot!None /\ UNCHANGED bootRole
  BY <1>6, AdminOn
<1>7. CASE Boot!SeedBarbers(p) /\ Boot!Busy(p, work[p])
  <2>1. clean' = clean
    BY <1>7 DEF Boot!Busy, Boot!history
  <2> QED
    BY <1>7, <2>1, BarbersOn
<1>8. CASE Boot!ListShops(p)
  <2>1. clean' = clean
    BY <1>8 DEF Boot!ListShops, Boot!Busy, Boot!history
  <2> QED
    BY <1>8, <2>1, ListShopsOn
<1>9. CASE Boot!CountServices(p) /\ ~Boot!Continue(p)
  <2>1. clean' = clean
    BY <1>9 DEF Boot!CountServices, Boot!Busy, Boot!history
  <2> QED
    BY <1>9, <2>1, CountServicesOn
<1>10. CASE Boot!SeedService(p)
  <2>1. clean' = clean
    BY <1>10 DEF Boot!SeedService
  <2> QED
    BY <1>10, <2>1, SeedServiceOn
<1>11. CASE Boot!ListNames(p) /\ Boot!Unlinked # {}
  <2>1. clean' = clean
    BY <1>11 DEF Boot!ListNames, Boot!Busy, Boot!history
  <2> QED
    BY <1>11, <2>1, ListNamesOn
<1>12. CASE Boot!LinkCustomer(p)
  <2>1. clean' = clean
    BY <1>12 DEF Boot!LinkCustomer, Boot!Busy, Boot!history
  <2> QED
    BY <1>12, <2>1, LinkCustomerOn
<1>13. \/ Boot!ReadActive(p) \/ Boot!WriteKeys(p) \/ Boot!ListShops(p) \/ Boot!SeedService(p) \/ Boot!LinkCustomer(p)
       \/ (Boot!Continue(p) /\ ~Boot!WriteKeys(p) /\ ~Boot!ReadActive(p))
       \/ (Boot!SeedAdmin(p) /\ Boot!Quit(p) /\ bootRole[Admin] # Boot!None /\ UNCHANGED bootRole)
       \/ (Boot!SeedBarbers(p) /\ Boot!Busy(p, work[p]))
       \/ (Boot!CountServices(p) /\ ~Boot!Continue(p))
       \/ (Boot!ListNames(p) /\ Boot!Unlinked # {})
  BY DEF Boot!DoStep, Boot!SeedShop, Boot!SeedAdmin, Boot!SeedPlatform, Boot!SeedBarbers, Boot!EnsureBarberShopIDs,
         Boot!CountServices, Boot!BackfillRoles, Boot!SeedDefaultRolePermissions, Boot!ReconcileRolePermissions,
         Boot!AddPlatformPerms, Boot!StepPlatformAdmin, Boot!ListNames, Boot!Recount
<1> QED
  BY <1>3, <1>4, <1>5, <1>6, <1>7, <1>8, <1>9, <1>10, <1>11, <1>12, <1>13

\* The list of a process that is up has ended, so that its keys were filled.
LEMMA StepKeys ==
    ASSUME StartInv, NEW p \in Procs, Boot!DoStep(p)
    PROVE  /\ Boot!Up' => KeysRight'
           /\ clean' => KeysRight' /\ Settled(13)'
           /\ again' # {} => clean'
<1>1. Shapes /\ LinksHaveCustomers /\ WorkOK(p) /\ state[p] = "starting" /\ todo[p] # <<>> /\ todo[p] \in Seq(StartSteps)
  BY StepIsAt DEF StartInv, Shapes, ControlOK
<1>2. KeysRight => KeysRight'
  BY <1>1, AtKeyRows, KeysKept
<1>3. PICK k \in 1..13 : Ahead(p, k) /\ Progress(p, k)
  BY <1>1 DEF StartInv, OnItsWay
<1>4. (Boot!Continue(p) \/ Boot!Quit(p)) /\ todo'[p] = <<>> => KeysRight
  <2> SUFFICES ASSUME Boot!Continue(p) \/ Boot!Quit(p), todo'[p] = <<>> PROVE k >= 3
    BY <1>3 DEF Progress
  <2>1. CASE Boot!Continue(p)
    <3>1. todo'[p] = Tail(todo[p])
      BY <1>1, <2>1 DEF Boot!Continue, Boot!GoTo, Shapes, ControlOK
    <3> QED
      BY <1>1, <1>3, <3>1, TailAhead
  <2>2. CASE Boot!Quit(p)
    <3>1. ~Boot!Continue(p) => Boot!SeedAdmin(p)
      <4>1. /\ DOMAIN state = Procs /\ DOMAIN work = Procs /\ DOMAIN todo = Procs
        BY <1>1 DEF Shapes, ControlOK
      <4>2. Boot!GoTo(p, Boot!Return(p))
        BY <2>2 DEF Boot!Quit
      <4>3. todo'[p] # todo[p]
        BY <1>1
      <4>4. state'[p] # "failed"
        BY <1>1, <4>1, <4>2 DEF Boot!GoTo
      <4>5. ~(\E w : Boot!Busy(p, w)) /\ ~Boot!SeedService(p)
        BY <4>1, <4>3 DEF Boot!Busy, Boot!SeedService
      <4>6. ~Boot!ReadActive(p)
        <5>1. Boot!ReadActive(p) => todo'[p] = Tail(todo[p]) /\ Boot!Now(p).do = "read"
          BY <4>1 DEF Boot!ReadActive, Boot!At
        <5>2. Boot!Now(p).do = "read" => k = 1
          BY <1>1, <1>3, PlaceIs
        <5>3. todo'[p] = Tail(todo[p]) => k >= 12
          BY <1>1, <1>3, TailAhead
        <5> QED
          BY <5>1, <5>2, <5>3
      <4>7. Boot!WriteKeys(p) => Boot!Continue(p)
        BY <4>1, <4>4 DEF Boot!WriteKeys
      <4> QED
        BY <4>5, <4>6, <4>7
        DEF Boot!DoStep, Boot!SeedShop, Boot!SeedPlatform, Boot!SeedBarbers, Boot!EnsureBarberShopIDs, Boot!ListShops, Boot!CountServices, Boot!BackfillRoles,
            Boot!SeedDefaultRolePermissions, Boot!ReconcileRolePermissions, Boot!AddPlatformPerms, Boot!StepPlatformAdmin, Boot!ListNames,
            Boot!LinkCustomer, Boot!Recount
    <3>2. Boot!SeedAdmin(p) => k >= 3
      <4>1. Boot!SeedAdmin(p) => Boot!Now(p).do = "admin"
        BY DEF Boot!SeedAdmin, Boot!At
      <4> QED
        BY <1>1, <1>3, <4>1, PlaceIs
    <3> QED
      BY <2>1, <3>1, <3>2
  <2> QED
    BY <2>1, <2>2
<1>5. Boot!Up' => KeysRight'
  <2> SUFFICES ASSUME NEW q \in Procs, state'[q] = "up" PROVE KeysRight'
    BY DEF Boot!Up
  <2>1. CASE q # p
    <3>1. state[q] = "up"
      BY <1>1, <2>1, StepFrame
    <3> QED
      BY <1>2, <3>1 DEF StartInv, Boot!Up
  <2>2. CASE q = p
    <3>1. (Boot!Continue(p) \/ Boot!Quit(p)) /\ todo'[p] = <<>>
      <4>1. DOMAIN state = Procs /\ DOMAIN todo = Procs
        BY <1>1 DEF Shapes, ControlOK
      <4>2. Boot!Continue(p) \/ Boot!Quit(p) \/ state' = state \/ state' = [state EXCEPT ![p] = "failed"]
        BY DEF Boot!DoStep, Boot!ReadActive, Boot!WriteKeys, Boot!SeedShop, Boot!SeedAdmin, Boot!SeedPlatform, Boot!SeedBarbers, Boot!EnsureBarberShopIDs, Boot!ListShops,
               Boot!CountServices, Boot!SeedService, Boot!BackfillRoles, Boot!SeedDefaultRolePermissions, Boot!ReconcileRolePermissions, Boot!AddPlatformPerms,
               Boot!StepPlatformAdmin, Boot!ListNames, Boot!LinkCustomer, Boot!Recount, Boot!Busy
      <4>3. Boot!Continue(p) \/ Boot!Quit(p)
        BY <1>1, <2>2, <4>1, <4>2
      <4>4. PICK steps : Boot!GoTo(p, steps)
        BY <4>3 DEF Boot!Continue, Boot!Quit
      <4>5. steps = <<>>
        BY <1>1, <2>2, <4>1, <4>4 DEF Boot!GoTo
      <4> QED
        BY <4>1, <4>3, <4>4, <4>5 DEF Boot!GoTo
    <3> QED
      BY <1>2, <1>4, <3>1
  <2> QED
    BY <2>1, <2>2
<1>6. clean' => KeysRight'
  <2>1. clean' => clean \/ (todo'[p] = <<>> /\ (Boot!Continue(p) \/ Boot!Quit(p)))
    BY <1>1, StepFrame
  <2>2. clean => KeysRight
    BY DEF StartInv
  <2> QED
    BY <1>2, <1>4, <2>1, <2>2
<1>7. clean' => Settled(13)'
  <2>1. clean => Settled(13)'
    <3>1. clean => Settled(13)
      BY DEF StartInv
    <3>2. 13 \in 1..13
      OBVIOUS
    <3> QED
      BY <1>1, <3>1, <3>2, SettledKept
  <2> QED
    BY <2>1, StepOn
<1>8. again' # {} => clean'
  <2>1. again' = again
    BY <1>1, StepFrame
  <2>2. clean => clean'
    BY DEF Boot!DoStep, Boot!ReadActive, Boot!WriteKeys, Boot!SeedShop, Boot!SeedAdmin, Boot!SeedPlatform, Boot!SeedBarbers, Boot!EnsureBarberShopIDs, Boot!ListShops,
           Boot!CountServices, Boot!SeedService, Boot!BackfillRoles, Boot!SeedDefaultRolePermissions, Boot!ReconcileRolePermissions, Boot!AddPlatformPerms,
           Boot!StepPlatformAdmin, Boot!ListNames, Boot!LinkCustomer, Boot!Recount, Boot!Busy, Boot!Continue, Boot!Quit, Boot!GoTo, Boot!history
  <2> QED
    BY <2>1, <2>2 DEF StartInv
<1> QED
  BY <1>5, <1>6, <1>7, <1>8

------------------------------------------------------------------------------
(* The catalogues *)

\* Nobody begins to wait but where the services were counted in vain.
LEMMA FewerWait ==
    ASSUME Shapes, NEW s \in Shops \ miscounted, NEW n \in Defaults, CatalogueInv,
           service'[s][n] = service[s][n], overlapped' = FALSE => overlapped = FALSE, overlapped' \in BOOLEAN,
           \A q \in Procs : n \in work'[q].left /\ work'[q].shop = s => n \in work[q].left /\ work[q].shop = s
    PROVE  ~overlapped' => service'[s][n] <= 1 /\ (Waiting(s, n)' # {} => service'[s][n] = 0)
<1>1. Waiting(s, n)' \subseteq Waiting(s, n)
  BY DEF Waiting
<1>2. ~overlapped => service[s][n] <= 1 /\ (Waiting(s, n) # {} => service[s][n] = 0)
  BY DEF CatalogueInv
<1>3. ~overlapped' => ~overlapped
  BY DEF Shapes, ControlOK
<1> QED
  BY <1>1, <1>2, <1>3

LEMMA FewerWaitAll ==
    ASSUME Shapes, CatalogueInv, service' = service, overlapped' = overlapped, miscounted \subseteq miscounted',
           \A q \in Procs : work'[q].left # {} =>
               \/ work'[q].left \subseteq work[q].left /\ work'[q].shop = work[q].shop
               \/ work'[q].shop \in miscounted'
    PROVE  CatalogueInv'
<1>1. ASSUME NEW s \in Shops \ miscounted', NEW n \in Defaults
      PROVE  ~overlapped' => service'[s][n] <= 1 /\ (Waiting(s, n)' # {} => service'[s][n] = 0)
  <2>1. \A q \in Procs : n \in work'[q].left /\ work'[q].shop = s => n \in work[q].left /\ work[q].shop = s
    OBVIOUS
  <2>2. overlapped' \in BOOLEAN /\ service'[s][n] = service[s][n] /\ s \in Shops \ miscounted
    BY DEF Shapes, ControlOK
  <2> QED
    BY <2>1, <2>2, FewerWait
<1> QED
  BY <1>1, Zenon DEF CatalogueInv

LEMMA CountedOnce ==
    ASSUME StartInv, NEW p \in Procs, Boot!CountServices(p), ~Boot!Continue(p)
    PROVE  CatalogueInv'
<1>1. Shapes /\ CatalogueInv /\ DOMAIN work = Procs /\ work[p] \in Works
  BY DEF StartInv, Shapes, ControlOK
<1>2. PICK x \in work[p].shops : Boot!Busy(p, [work[p] EXCEPT !.shops = @ \ {x}, !.shop = x, !.left = Boot!ToSeed(x)])
  BY DEF Boot!CountServices
<1>3. /\ work'[p].left = Boot!ToSeed(x) /\ work'[p].shop = x /\ \A q \in Procs \ {p} : work'[q] = work[q]
      /\ service' = service /\ overlapped' = overlapped /\ miscounted' = miscounted
  BY <1>1, <1>2 DEF Boot!Busy, Works, Boot!CountServices, Boot!seeds, Boot!history
<1>4. ASSUME NEW s \in Shops \ miscounted', NEW n \in Defaults
      PROVE  ~overlapped' => service'[s][n] <= 1 /\ (Waiting(s, n)' # {} => service'[s][n] = 0)
  <2>1. CASE s = x /\ n \in Boot!ToSeed(x)
    <3>1. service[s][n] = 0
      BY <2>1 DEF Boot!ToSeed
    <3> QED
      BY <1>3, <3>1
  <2>2. CASE ~(s = x /\ n \in Boot!ToSeed(x))
    <3>1. \A q \in Procs : n \in work'[q].left /\ work'[q].shop = s => n \in work[q].left /\ work[q].shop = s
      BY <1>3, <2>2
    <3>2. overlapped' \in BOOLEAN /\ service'[s][n] = service[s][n] /\ s \in Shops \ miscounted
      BY <1>1, <1>3 DEF Shapes, ControlOK
    <3> QED
      BY <1>1, <1>3, <3>1, <3>2, FewerWait
  <2> QED
    BY <2>1, <2>2
<1> QED
  BY <1>4, Zenon DEF CatalogueInv

LEMMA SeededOnce ==
    ASSUME StartInv, NEW p \in Procs, Boot!SeedService(p)
    PROVE  CatalogueInv'
<1>1. Shapes /\ CatalogueInv /\ DOMAIN work = Procs /\ work[p] \in Works
      /\ service \in [Shops -> [Defaults -> Nat]] /\ overlapped \in BOOLEAN /\ \A q \in Procs : WorkOK(q)
  BY DEF StartInv, Shapes, ControlOK, DataOK
<1>2. PICK m \in work[p].left : /\ service' = [service EXCEPT ![work[p].shop][m] = @ + 1]
                                /\ work' = [work EXCEPT ![p].left = @ \ {m}]
  BY DEF Boot!SeedService
<1>3. PICK x \in Shops : x = work[p].shop
  BY <1>1 DEF Works
<1>4. m \in Defaults
  BY <1>1, <1>2 DEF Works
<1>5. \A s \in Shops, n \in Defaults : service'[s][n] = IF s = x /\ n = m THEN service[s][n] + 1 ELSE service[s][n]
  BY <1>1, <1>2, <1>3, <1>4, ServiceAdded
<1>6. /\ work'[p].left = work[p].left \ {m} /\ work'[p].shop = x /\ \A q \in Procs \ {p} : work'[q] = work[q]
  <2>1. work' = [work EXCEPT ![p] = [work[p] EXCEPT !.left = @ \ {m}]]
    BY <1>2
  <2> QED
    BY <1>1, <1>3, <2>1 DEF Works
<1>7. overlapped' = (overlapped \/ Boot!Seeding(x) # {p}) /\ miscounted' = miscounted
  BY <1>3 DEF Boot!SeedService
<1>8. overlapped' \in BOOLEAN /\ (overlapped' = FALSE => overlapped = FALSE)
  BY <1>1, <1>7
<1>9. ASSUME NEW s \in Shops \ miscounted', NEW n \in Defaults
      PROVE  ~overlapped' => service'[s][n] <= 1 /\ (Waiting(s, n)' # {} => service'[s][n] = 0)
  <2>1. CASE s = x /\ n = m
    <3> SUFFICES ASSUME ~overlapped' PROVE service'[s][n] <= 1 /\ Waiting(s, n)' = {}
      OBVIOUS
    <3>1. service'[s][n] = service[s][n] + 1 /\ service[s][n] \in Nat
      BY <1>1, <1>5, <2>1
    <3>2. p \in Waiting(s, n) /\ Waiting(s, n)' = Waiting(s, n) \ {p}
      BY <1>2, <1>3, <1>6, <2>1 DEF Waiting
    <3>3. ~overlapped /\ Boot!Seeding(x) = {p}
      BY <1>1, <1>7
    <3>4. service[s][n] = 0
      BY <1>1, <1>7, <3>2, <3>3 DEF CatalogueInv
    <3>5. Waiting(s, n) \subseteq Boot!Seeding(x)
      BY <1>1, <2>1 DEF Waiting, Boot!Seeding, WorkOK
    <3> QED
      BY <3>1, <3>2, <3>3, <3>4, <3>5
  <2>2. CASE ~(s = x /\ n = m)
    <3>1. \A q \in Procs : n \in work'[q].left /\ work'[q].shop = s => n \in work[q].left /\ work[q].shop = s
      BY <1>3, <1>6
    <3>2. service'[s][n] = service[s][n] /\ s \in Shops \ miscounted
      BY <1>5, <1>7, <2>2
    <3> QED
      BY <1>1, <1>8, <3>1, <3>2, FewerWait
  <2> QED
    BY <2>1, <2>2
<1> QED
  BY <1>9, Zenon DEF CatalogueInv

LEMMA StepCatalogue ==
    ASSUME StartInv, NEW p \in Procs, Boot!DoStep(p)
    PROVE  CatalogueInv'
<1>1. Shapes /\ CatalogueInv /\ work \in [Procs -> Works] /\ WorkOK(p)
  BY DEF StartInv, Shapes, ControlOK
<1>2. CASE Boot!SeedService(p)
  BY <1>2, SeededOnce
<1>3. CASE Boot!CountServices(p) /\ ~Boot!Continue(p)
  BY <1>3, CountedOnce
<1>4. CASE ~Boot!SeedService(p) /\ ~(Boot!CountServices(p) /\ ~Boot!Continue(p))
  <2>1. service' = service
    BY <1>4 DEF Boot!DoStep, Boot!ReadActive, Boot!WriteKeys, Boot!SeedShop, Boot!SeedAdmin, Boot!SeedPlatform, Boot!SeedBarbers, Boot!EnsureBarberShopIDs, Boot!ListShops,
           Boot!CountServices, Boot!BackfillRoles, Boot!SeedDefaultRolePermissions, Boot!ReconcileRolePermissions,
           Boot!AddPlatformPerms, Boot!StepPlatformAdmin, Boot!ListNames, Boot!LinkCustomer, Boot!Recount, Boot!seeds
  <2>2. overlapped' = overlapped
    BY <1>4 DEF Boot!DoStep, Boot!ReadActive, Boot!WriteKeys, Boot!SeedShop, Boot!SeedAdmin, Boot!SeedPlatform, Boot!SeedBarbers, Boot!EnsureBarberShopIDs, Boot!ListShops,
           Boot!CountServices, Boot!BackfillRoles, Boot!SeedDefaultRolePermissions, Boot!ReconcileRolePermissions, Boot!AddPlatformPerms,
           Boot!StepPlatformAdmin, Boot!ListNames, Boot!LinkCustomer, Boot!Recount, Boot!Continue, Boot!Quit, Boot!GoTo, Boot!Busy, Boot!history
  <2>3. work'[p] = Boot!Idle \/ (work'[p].left = work[p].left /\ work'[p].shop = work[p].shop)
    <3>1. CASE Boot!Continue(p) \/ Boot!Quit(p)
      BY <1>1, <3>1 DEF Boot!Continue, Boot!Quit, Boot!GoTo
    <3>2. CASE Boot!ReadActive(p)
      <4>1. \E rows : work' = [work EXCEPT ![p] = [work[p] EXCEPT !.rows = rows]]
        BY <3>2 DEF Boot!ReadActive
      <4> QED
        BY <1>1, <4>1 DEF Works
    <3>3. CASE Boot!WriteKeys(p) /\ ~Boot!Continue(p)
      BY <1>1, <3>3 DEF Boot!WriteKeys
    <3>4. CASE Boot!SeedBarbers(p) /\ ~Boot!Continue(p)
      BY <1>1, <3>4 DEF Boot!SeedBarbers, Boot!Busy
    <3>5. CASE Boot!ListShops(p)
      BY <1>1, <3>5 DEF Boot!ListShops, Boot!Busy, Works
    <3>6. CASE Boot!ListNames(p) /\ ~Boot!Continue(p)
      BY <1>1, <3>6 DEF Boot!ListNames, Boot!Busy, Works
    <3>7. CASE Boot!LinkCustomer(p)
      BY <1>1, <3>7 DEF Boot!LinkCustomer, Boot!Busy, Works
    <3> QED
      BY <1>4, <3>1, <3>2, <3>3, <3>4, <3>5, <3>6, <3>7
      DEF Boot!DoStep, Boot!SeedShop, Boot!SeedAdmin, Boot!SeedPlatform, Boot!SeedBarbers, Boot!EnsureBarberShopIDs, Boot!BackfillRoles,
          Boot!SeedDefaultRolePermissions, Boot!ReconcileRolePermissions, Boot!AddPlatformPerms, Boot!StepPlatformAdmin, Boot!Recount
  <2>4. /\ \A q \in Procs : work'[q].left # {} => work'[q].left \subseteq work[q].left /\ work'[q].shop = work[q].shop
        /\ miscounted' = miscounted
    <3>1. (\A q \in Procs \ {p} : work'[q] = work[q]) /\ miscounted' = miscounted
      <4>1. Boot!DoStep(p) /\ Shapes
        BY <1>1
      <4> QED
        BY <4>1, StepFrame
    <3> QED
      BY <2>3, <3>1 DEF Boot!Idle
  <2> QED
    BY <1>1, <2>1, <2>2, <2>4, FewerWaitAll
<1> QED
  BY <1>2, <1>3, <1>4

\* A step of a start.
LEMMA StepInv == ASSUME StartInv, NEW p \in Procs, Boot!DoStep(p) PROVE StartInv'
<1>1. Shapes' /\ CatalogueInv' /\ LinksHaveCustomers'
  BY StepShapes, StepCatalogue, NamesKept DEF StartInv
<1>2. \A q \in Procs : WorkOK(q)' /\ OnItsWay(q)'
  BY StepOn, OthersGoOn
<1> QED
  BY <1>1, <1>2, StepKeys DEF StartInv

------------------------------------------------------------------------------
(* Faults and starts *)

\* The database is as it was, but for a customer who has been made and not linked.
NewCustomer ==
    /\ \A m \in Boot!Names : cust[m] # "blank"
    /\ \E n \in Boot!Names : cust' = [cust EXCEPT ![n] = "blank"]
DataStays == UNCHANGED <<Boot!seeds, appt, tally, bootRaced>> /\ (cust' = cust \/ NewCustomer)

LEMMA SameData ==
    ASSUME DataOK, DataStays
    PROVE  /\ KeysRight' = KeysRight /\ Seen' = Seen /\ Boot!Unlinked' = Boot!Unlinked
           /\ DataOK' /\ (LinksHaveCustomers => LinksHaveCustomers')
           /\ \A k : Settled(k) => Settled(k)'
           /\ \A s : Boot!ToSeed(s)' = Boot!ToSeed(s)
           /\ \A n \in Boot!Names : ~Boot!Insertable(n) => ~Boot!Insertable(n)'
<1>1. /\ shops' = shops /\ service' = service /\ barber' = barber /\ bootRole' = bootRole /\ bootPerms' = bootPerms
      /\ appt' = appt /\ tally' = tally /\ bootRaced' = bootRaced
  BY DEF DataStays, Boot!seeds
<1>2. KeysRight' = KeysRight
  BY <1>1 DEF KeysRight, KeyIsRight
<1>3. Seen' = Seen /\ Boot!Unlinked' = Boot!Unlinked
  BY <1>1 DEF Seen, Boot!Unlinked
<1>4. /\ cust' \in [Boot!Names -> {Boot!None, "wechat", "blank"}]
      /\ \A n \in Boot!Names : cust[n] # Boot!None => cust'[n] # Boot!None
  BY DEF DataOK, DataStays, NewCustomer, Boot!None
<1>5. DataOK' /\ (LinksHaveCustomers => LinksHaveCustomers')
  <2>1. \A a \in Appts : NameOf[a] \in Boot!Names
    BY DEF Boot!Names
  <2> QED
    BY <1>1, <1>4, <2>1 DEF DataOK, LinksHaveCustomers
<1>6. \A s : Boot!ToSeed(s)' = Boot!ToSeed(s)
  BY <1>1 DEF Boot!ToSeed
<1>7. \A n \in Boot!Names : ~Boot!Insertable(n) => ~Boot!Insertable(n)' /\ cust' = cust
  BY DEF DataStays, NewCustomer, Boot!Insertable
<1>8. HasServices' = HasServices
  BY <1>1 DEF HasServices, Boot!ToSeed
<1>9. NamesSettled => NamesSettled' /\ (TallyRight => TallyRight')
  <2>1. NamesSettled => NamesSettled'
    BY <1>3, <1>7, NamesAre DEF NamesSettled
  <2>2. CASE Boot!Unlinked = {}
    BY <1>3, <2>1, <2>2 DEF TallyRight
  <2>3. CASE Boot!Unlinked # {}
    <3>1. NamesSettled => cust' = cust
      BY <1>7, <2>3, NamesAre DEF NamesSettled
    <3>2. cust' = cust => TallyRight' = TallyRight
      BY <1>1 DEF TallyRight, Boot!Unlinked, Boot!Recounted, Boot!Of
    <3> QED
      BY <2>1, <3>1, <3>2
  <2> QED
    BY <2>2, <2>3
<1>10. \A k : Settled(k) => Settled(k)'
  BY <1>1, <1>8, <1>9, Zenon DEF Settled
<1> QED
  BY <1>2, <1>3, <1>5, <1>6, <1>7, <1>10

\* Nothing of the database changes.
LEMMA AllStays == UNCHANGED <<Boot!seeds, Boot!booked, bootRaced>> => DataStays
BY DEF DataStays, Boot!booked

LEMMA SameProcess ==
    ASSUME StartInv, DataStays, NEW q \in Procs, miscounted \subseteq miscounted',
           todo'[q] = todo[q], work'[q] = work[q], state'[q] = state[q], full'[q] => full[q], q \in again' => q \in again
    PROVE  WorkOK(q)' /\ OnItsWay(q)'
<1>1. WorkOK(q) /\ OnItsWay(q) /\ DataOK /\ shops' = shops /\ appt' = appt /\ bootRaced' = bootRaced
  BY DEF StartInv, Shapes, DataStays, Boot!seeds
<1>2. WorkOK(q)'
  BY <1>1, SameData DEF WorkOK, Boot!Now
<1>3. OnItsWay(q)'
  <2> SUFFICES ASSUME state[q] = "starting" PROVE \E k \in 1..13 : Ahead(q, k)' /\ Progress(q, k)'
    BY DEF OnItsWay
  <2>1. PICK k \in 1..13 : Ahead(q, k) /\ Progress(q, k)
    BY <1>1 DEF OnItsWay
  <2>2. Ahead(q, k)'
    BY <2>1, AheadKept
  <2>3. RowsRight(q) => RowsRight(q)'
    BY <1>1, RowsKept
  <2>4. ServicesSoFar(q) => ServicesSoFar(q)'
    BY <1>1, SameData DEF ServicesSoFar
  <2>5. NamesSoFar(q) => NamesSoFar(q)'
    BY <1>1, SameData, NamesAre DEF NamesSoFar
  <2>6. KeysRight' = KeysRight /\ (Settled(k) => Settled(k)') /\ Boot!Unlinked' = Boot!Unlinked
    BY <1>1, SameData
  <2>7. InVain(q) => InVain(q)'
    BY DEF InVain
  <2>8. Progress(q, k)'
    BY <2>1, <2>3, <2>4, <2>5, <2>6, <2>7, Zenon DEF Progress
  <2> QED
    BY <2>2, <2>8
<1> QED
  BY <1>2, <1>3

\* All but one process are as they were, and so is the database.
LEMMA OneChanges ==
    ASSUME StartInv, DataStays, ControlOK', NEW p \in Procs, miscounted \subseteq miscounted',
           \A q \in Procs \ {p} : /\ todo'[q] = todo[q] /\ work'[q] = work[q] /\ state'[q] = state[q]
                                  /\ full'[q] => full[q]
                                  /\ q \in again' => q \in again,
           overlapped' = overlapped, clean' = clean, again' # {} => clean,
           work'[p].left # {} => \/ work'[p].left \subseteq work[p].left /\ work'[p].shop = work[p].shop
                                 \/ work'[p].shop \in miscounted',
           WorkOK(p)', OnItsWay(p)', state'[p] = "up" => KeysRight
    PROVE  StartInv'
<1>1. DataOK /\ Shapes'
  BY SameData DEF StartInv, Shapes
<1>2. CatalogueInv'
  <2>1. Shapes /\ CatalogueInv /\ service' = service
    BY DEF StartInv, DataStays, Boot!seeds
  <2>2. \A q \in Procs : work'[q].left # {} => \/ work'[q].left \subseteq work[q].left /\ work'[q].shop = work[q].shop
                                               \/ work'[q].shop \in miscounted'
    OBVIOUS
  <2> QED
    BY <2>1, <2>2, FewerWaitAll
<1>3. LinksHaveCustomers' /\ KeysRight' = KeysRight
  BY <1>1, SameData DEF StartInv
<1>4. Boot!Up' => KeysRight'
  <2>1. ASSUME NEW q \in Procs, state'[q] = "up" PROVE KeysRight
    BY <2>1 DEF StartInv, Boot!Up
  <2> QED
    BY <1>3, <2>1 DEF Boot!Up
<1>5. clean' => KeysRight' /\ Settled(13)'
  BY <1>1, <1>3, SameData DEF StartInv
<1>6. \A q \in Procs : WorkOK(q)' /\ OnItsWay(q)'
  BY SameProcess
<1>7. again' # {} => clean'
  OBVIOUS
<1> QED
  BY <1>1, <1>2, <1>3, <1>4, <1>5, <1>6, <1>7, Zenon DEF StartInv

LEMMA ReturnOfNothing ==
    ASSUME NEW p, todo[p] = <<>>
    PROVE  Boot!Return(p) = <<>>
<1>1. Len(todo[p]) = 0
  OBVIOUS
<1>2. Boot!OfNow(p) = {}
  BY <1>1 DEF Boot!OfNow
<1>3. Cardinality(Boot!OfNow(p)) = 0
  BY <1>2, FS_EmptySet
<1> QED
  BY <1>3 DEF Boot!Return

LEMMA FailInv == ASSUME StartInv, NEW p \in Procs, Boot!Fail(p) PROVE StartInv'
<1>1. /\ Shapes /\ ControlOK /\ state[p] = "starting" /\ todo[p] \in Seq(StartSteps)
      /\ todo \in [Procs -> Seq(StartSteps)] /\ work \in [Procs -> Works] /\ full \in [Procs -> BOOLEAN]
      /\ state \in [Procs -> {"off", "starting", "up", "done", "failed"}]
  BY DEF Boot!Fail, StartInv, Shapes, ControlOK
<1>2. PICK k \in 1..13 : Ahead(p, k) /\ Progress(p, k)
  BY <1>1 DEF StartInv, OnItsWay
<1>3. PICK steps : /\ steps = IF Boot!Ends(p) THEN <<>> ELSE Boot!Return(p)
                   /\ todo' = [todo EXCEPT ![p] = steps] /\ work' = [work EXCEPT ![p] = Boot!Idle]
                   /\ state' = [state EXCEPT ![p] = IF Boot!Ends(p) THEN "failed" ELSE IF steps # <<>> THEN @
                                                    ELSE IF p = Tool THEN "done" ELSE "up"]
  BY DEF Boot!Fail
<1>4. steps \in Seq(StartSteps)
  <2>1. Boot!Return(p) \in Seq(StartSteps) /\ <<>> \in Seq(StartSteps)
    BY <1>1, ReturnTyped
  <2> QED
    BY <1>3, <2>1
<1>5. /\ todo'[p] = steps /\ work'[p] = Boot!Idle /\ full'[p] = FALSE
      /\ \A q \in Procs \ {p} : todo'[q] = todo[q] /\ work'[q] = work[q] /\ state'[q] = state[q] /\ full'[q] = full[q]
      /\ state'[p] = IF Boot!Ends(p) THEN "failed" ELSE IF steps # <<>> THEN "starting" ELSE IF p = Tool THEN "done" ELSE "up"
      /\ full' \in [Procs -> BOOLEAN]
  BY <1>1, <1>3 DEF Boot!Fail
<1>6. ControlOK'
  <2>1. todo' \in [Procs -> Seq(StartSteps)] /\ work' \in [Procs -> Works]
    BY <1>1, <1>3, <1>4, IdleTyped
  <2>2. state' \in [Procs -> {"off", "starting", "up", "done", "failed"}]
    BY <1>1, <1>3
  <2>3. \A q \in Procs : todo'[q] # <<>> => state'[q] = "starting"
    BY <1>1, <1>3, <1>5 DEF ControlOK
  <2>4. faults' \in 0..MaxFaults
    BY <1>1, BootAssumption DEF Boot!Fail, Boot!Fault, ControlOK, Boot!StartupAssumption
  <2> QED
    BY <1>1, <1>5, <2>1, <2>2, <2>3, <2>4 DEF Boot!Fail, ControlOK
<1>7. ~Boot!Ends(p) => k \in 3..13
  <2>1. k \in {1, 2} => todo[p] # <<>>
    BY <1>1, <1>2 DEF Ahead
  <2>2. k \in {1, 2} => Boot!Now(p) = Boot!InitSteps[k]
    BY <1>1, <1>2, <2>1, NowIs
  <2>3. k \in {1, 2} => Boot!Now(p).in = "slots"
    BY <2>2, InitAre DEF Boot!Step
  <2>4. k \in 3..13 \/ k \in {1, 2}
    OBVIOUS
  <2> QED
    BY <2>3, <2>4 DEF Boot!Ends
<1>8. KeysRight \/ Boot!Ends(p)
  BY <1>2, <1>7 DEF Progress
<1>9. OnItsWay(p)'
  <2> SUFFICES ASSUME state'[p] = "starting" PROVE \E k2 \in 1..13 : Ahead(p, k2)' /\ Progress(p, k2)'
    BY DEF OnItsWay
  <2>1. ~Boot!Ends(p) /\ steps # <<>> /\ steps = Boot!Return(p) /\ k \in 3..13
    BY <1>3, <1>5, <1>7
  <2>2. todo[p] # <<>>
    BY <2>1, ReturnOfNothing
  <2>3. Ahead(p, Past(k))' /\ Past(k) \in 1..13
    BY <1>1, <1>2, <1>5, <2>1, <2>2, ReturnAhead
  <2>4. Past(k) # 2 /\ Past(k) # 5
    BY <2>1 DEF Past
  <2>5. KeysRight'
    <3>1. UNCHANGED <<Boot!seeds, Boot!booked, bootRaced>>
      BY DEF Boot!Fail
    <3> QED
      BY <1>1, <1>8, <2>1, <3>1, AllStays, SameData DEF Shapes
  <2>6. ~work'[p].on /\ work'[p].left = {} /\ ~full'[p]
    BY <1>5 DEF Boot!Idle
  <2>7. PICK k2 \in 1..13 : k2 = Past(k)
    BY <2>3
  <2>8. Ahead(p, k2)'
    BY <2>3, <2>7
  <2>9. Progress(p, k2)'
    BY <2>4, <2>5, <2>6, <2>7 DEF Progress, InVain
  <2> QED
    BY <2>8, <2>9
<1>10. WorkOK(p)'
  BY <1>5 DEF WorkOK, Boot!Idle
<1>11. /\ UNCHANGED <<Boot!seeds, Boot!booked, bootRaced>> /\ overlapped' = overlapped /\ clean' = clean /\ again' = again
       /\ miscounted' = miscounted
       /\ again' # {} => clean
  BY DEF Boot!Fail, StartInv
<1>12. work'[p].left # {} => work'[p].left \subseteq work[p].left /\ work'[p].shop = work[p].shop
  BY <1>5 DEF Boot!Idle
<1>13. state'[p] = "up" => KeysRight
  BY <1>5, <1>8
<1> QED
  BY <1>5, <1>6, <1>9, <1>10, <1>11, <1>12, <1>13, AllStays, OneChanges

\* A process that goes on in a list after a failed statement.
LEMMA GoesOnInv ==
    ASSUME StartInv, DataStays, NEW p \in Procs, Boot!Fault, full' = [full EXCEPT ![p] = FALSE], NEW w \in Works, work' = [work EXCEPT ![p] = w],
           state[p] = "starting", todo[p] # <<>>, miscounted' \subseteq Shops, miscounted \subseteq miscounted',
           UNCHANGED <<todo, state, clean, again, overlapped, edits, starts>>,
           w.rows = work[p].rows, w.on => work[p].on, w.shops \subseteq work[p].shops, w.names \subseteq work[p].names,
           w.left # {} => w.on /\ Boot!Now(p).do = "services",
           w.left # {} => \/ w.left \subseteq work[p].left /\ w.shop = work[p].shop
                          \/ w.shop \in miscounted'
    PROVE  StartInv'
<1>1. /\ Shapes /\ DataOK /\ ControlOK /\ work \in [Procs -> Works] /\ full \in [Procs -> BOOLEAN] /\ WorkOK(p) /\ OnItsWay(p)
      /\ (again # {} => clean)
  BY DEF StartInv, Shapes, ControlOK
<1>2. work'[p] = w /\ (\A q \in Procs \ {p} : work'[q] = work[q]) /\ work' \in [Procs -> Works]
  BY <1>1
<1>3. full'[p] = FALSE /\ (\A q \in Procs \ {p} : full'[q] = full[q]) /\ full' \in [Procs -> BOOLEAN]
  BY <1>1
<1>4. shops' = shops /\ appt' = appt /\ bootRaced' = bootRaced
  BY DEF DataStays, Boot!seeds
<1>5. ControlOK'
  <2>1. faults' \in 0..MaxFaults
    BY <1>1, BootAssumption DEF Boot!Fault, ControlOK, Boot!StartupAssumption
  <2> QED
    BY <1>1, <1>2, <1>3, <1>4, <2>1 DEF ControlOK
<1>6. KeysRight' = KeysRight /\ Boot!Unlinked' = Boot!Unlinked /\ Seen' = Seen
  BY <1>1, SameData
<1>7. WorkOK(p)'
  <2>1. Boot!Now(p)' = Boot!Now(p)
    BY DEF Boot!Now
  <2> QED
    BY <1>1, <1>2, <1>4, <1>6, <2>1 DEF WorkOK
<1>8. OnItsWay(p)'
  <2>1. PICK k \in 1..13 : Ahead(p, k) /\ Progress(p, k)
    BY <1>1 DEF OnItsWay
  <2>2. Ahead(p, k)'
    BY <2>1, AheadKept
  <2>3. RowsRight(p) => RowsRight(p)'
    BY <1>2, <1>4 DEF RowsRight
  <2>4. InVain(p) => InVain(p)'
    BY <1>2 DEF InVain
  <2>5. Progress(p, k)'
    BY <1>2, <1>3, <1>6, <2>1, <2>3, <2>4, Zenon DEF Progress
  <2> QED
    BY <2>2, <2>5 DEF OnItsWay
<1>9. work'[p].left # {} => \/ work'[p].left \subseteq work[p].left /\ work'[p].shop = work[p].shop
                            \/ work'[p].shop \in miscounted'
  BY <1>2
<1>10. state'[p] = "up" => KeysRight
  OBVIOUS
<1>11. \A q \in Procs \ {p} : /\ todo'[q] = todo[q] /\ work'[q] = work[q] /\ state'[q] = state[q]
                              /\ full'[q] => full[q]
                              /\ q \in again' => q \in again
  BY <1>2, <1>3
<1>12. overlapped' = overlapped /\ clean' = clean /\ (again' # {} => clean)
  BY <1>1
<1> QED
  BY <1>5, <1>7, <1>8, <1>9, <1>10, <1>11, <1>12, OneChanges

LEMMA SkipServiceInv == ASSUME StartInv, NEW p \in Procs, Boot!SkipService(p) PROVE StartInv'
<1>1. state[p] = "starting" /\ todo[p] # <<>> /\ work \in [Procs -> Works] /\ work[p] \in Works /\ WorkOK(p) /\ miscounted \subseteq Shops
  BY DEF Boot!SkipService, Boot!At, StartInv, Shapes, ControlOK
<1>2. PICK n \in work[p].left : work' = [work EXCEPT ![p].left = @ \ {n}]
  BY DEF Boot!SkipService
<1>3. PICK w : w = [work[p] EXCEPT !.left = @ \ {n}]
  OBVIOUS
<1>4. /\ w \in Works /\ w.rows = work[p].rows /\ w.on = work[p].on /\ w.shops = work[p].shops /\ w.names = work[p].names
      /\ w.left \subseteq work[p].left /\ w.shop = work[p].shop
  BY <1>1, <1>3 DEF Works
<1>5. work' = [work EXCEPT ![p] = w]
  BY <1>2, <1>3
<1>6. /\ UNCHANGED <<Boot!seeds, Boot!booked, bootRaced>> /\ UNCHANGED <<todo, state, clean, again, overlapped, edits, starts>>
      /\ Boot!Fault /\ full' = [full EXCEPT ![p] = FALSE] /\ miscounted' = miscounted
  BY DEF Boot!SkipService
<1>7. w.left # {} => w.on /\ Boot!Now(p).do = "services"
  BY <1>1, <1>4 DEF WorkOK
<1>8. DataStays
  BY <1>6, AllStays
<1> QED
  BY <1>1, <1>4, <1>5, <1>6, <1>7, <1>8, GoesOnInv

LEMMA MiscountInv == ASSUME StartInv, NEW p \in Procs, Boot!MiscountServices(p) PROVE StartInv'
<1>1. /\ state[p] = "starting" /\ todo[p] # <<>> /\ work \in [Procs -> Works] /\ work[p] \in Works /\ miscounted \subseteq Shops
      /\ work[p].on /\ Boot!Now(p).do = "services"
  BY DEF Boot!MiscountServices, Boot!At, StartInv, Shapes, ControlOK
<1>2. PICK s \in work[p].shops :
        /\ work' = [work EXCEPT ![p] = [work[p] EXCEPT !.shops = @ \ {s}, !.shop = s, !.left = Defaults]]
        /\ miscounted' = miscounted \cup {s}
  BY DEF Boot!MiscountServices
<1>3. PICK w : w = [work[p] EXCEPT !.shops = @ \ {s}, !.shop = s, !.left = Defaults]
  OBVIOUS
<1>4. /\ w \in Works /\ w.rows = work[p].rows /\ w.on = work[p].on /\ w.shops \subseteq work[p].shops /\ w.names = work[p].names
      /\ w.shop = s /\ s \in Shops
  BY <1>1, <1>3 DEF Works
<1>5. work' = [work EXCEPT ![p] = w]
  BY <1>1, <1>2, <1>3
<1>6. /\ UNCHANGED <<Boot!seeds, Boot!booked, bootRaced>> /\ UNCHANGED <<todo, state, clean, again, overlapped, edits, starts>>
      /\ Boot!Fault /\ full' = [full EXCEPT ![p] = FALSE]
  BY DEF Boot!MiscountServices
<1>7. DataStays
  BY <1>6, AllStays
<1>8. miscounted' \subseteq Shops /\ miscounted \subseteq miscounted' /\ w.shop \in miscounted'
  BY <1>1, <1>2, <1>4
<1> QED
  BY <1>1, <1>4, <1>5, <1>6, <1>7, <1>8, GoesOnInv

LEMMA SkipNameInv == ASSUME StartInv, NEW p \in Procs, Boot!SkipName(p) PROVE StartInv'
<1>1. /\ state[p] = "starting" /\ todo[p] # <<>> /\ work \in [Procs -> Works] /\ work[p] \in Works /\ WorkOK(p) /\ DataOK
      /\ miscounted \subseteq Shops
  BY DEF Boot!SkipName, Boot!At, StartInv, Shapes, ControlOK
<1>2. PICK n \in work[p].names : work' = [work EXCEPT ![p].names = @ \ {n}] /\ cust' \in {cust, Boot!WithCustomer(n)}
  BY DEF Boot!SkipName
<1>3. PICK w : w = [work[p] EXCEPT !.names = @ \ {n}]
  OBVIOUS
<1>4. /\ w \in Works /\ w.rows = work[p].rows /\ w.on = work[p].on /\ w.shops = work[p].shops /\ w.names \subseteq work[p].names
      /\ w.left = work[p].left /\ w.shop = work[p].shop /\ n \in Boot!Names
  BY <1>1, <1>2, <1>3 DEF Works
<1>5. work' = [work EXCEPT ![p] = w]
  BY <1>2, <1>3
<1>6. /\ UNCHANGED <<Boot!seeds, appt, tally, bootRaced>> /\ UNCHANGED <<todo, state, clean, again, overlapped, edits, starts>>
      /\ Boot!Fault /\ full' = [full EXCEPT ![p] = FALSE] /\ miscounted' = miscounted
  BY DEF Boot!SkipName
<1>7. cust' = cust \/ NewCustomer
  <2>1. cust \in [Boot!Names -> {Boot!None, "wechat", "blank"}]
    BY <1>1 DEF DataOK
  <2>2. CASE cust[n] = Boot!None /\ Boot!Insertable(n)
    <3>1. Boot!WithCustomer(n) = [cust EXCEPT ![n] = "blank"]
      BY <2>1, <2>2 DEF Boot!WithCustomer
    <3>2. \A m \in Boot!Names : cust[m] # "blank"
      BY <2>2 DEF Boot!Insertable
    <3> QED
      BY <1>2, <1>4, <3>1, <3>2 DEF NewCustomer
  <2>3. CASE ~(cust[n] = Boot!None /\ Boot!Insertable(n))
    <3>1. Boot!WithCustomer(n) = cust
      BY <1>4, <2>1, <2>3 DEF Boot!WithCustomer
    <3> QED
      BY <1>2, <3>1
  <2> QED
    BY <2>2, <2>3
<1>8. DataStays
  BY <1>6, <1>7 DEF DataStays
<1>9. w.left # {} => w.on /\ Boot!Now(p).do = "services"
  BY <1>1, <1>4 DEF WorkOK
<1> QED
  BY <1>1, <1>4, <1>5, <1>6, <1>8, <1>9, GoesOnInv

LEMMA CrashInv == ASSUME StartInv, NEW p \in Procs, Boot!Crash(p) PROVE StartInv'
<1>1. /\ ControlOK /\ todo \in [Procs -> Seq(StartSteps)] /\ work \in [Procs -> Works]
      /\ state \in [Procs -> {"off", "starting", "up", "done", "failed"}]
  BY DEF StartInv, Shapes, ControlOK
<1>2. /\ todo' = [todo EXCEPT ![p] = <<>>] /\ work' = [work EXCEPT ![p] = Boot!Idle] /\ state' = [state EXCEPT ![p] = "off"]
      /\ full' = full /\ again' = again /\ clean' = clean /\ overlapped' = overlapped /\ miscounted' = miscounted /\ edits' = edits /\ starts' = starts
      /\ UNCHANGED <<Boot!seeds, Boot!booked, bootRaced>>
  BY DEF Boot!Crash, Boot!history
<1>3. /\ todo'[p] = <<>> /\ work'[p] = Boot!Idle /\ state'[p] = "off"
      /\ \A q \in Procs \ {p} : todo'[q] = todo[q] /\ work'[q] = work[q] /\ state'[q] = state[q]
  BY <1>1, <1>2
<1>4. ControlOK'
  <2>1. todo' \in [Procs -> Seq(StartSteps)] /\ work' \in [Procs -> Works]
    BY <1>1, <1>2, IdleTyped
  <2>2. state' \in [Procs -> {"off", "starting", "up", "done", "failed"}]
    BY <1>1, <1>2
  <2>3. \A q \in Procs : todo'[q] # <<>> => state'[q] = "starting"
    BY <1>1, <1>3 DEF ControlOK
  <2>4. faults' \in 0..MaxFaults
    BY <1>1, BootAssumption DEF Boot!Crash, Boot!Fault, ControlOK, Boot!StartupAssumption
  <2> QED
    BY <1>1, <1>2, <2>1, <2>2, <2>3, <2>4 DEF ControlOK
<1>5. WorkOK(p)' /\ OnItsWay(p)'
  BY <1>3 DEF WorkOK, OnItsWay, Boot!Idle
<1>6. again' # {} => clean
  BY <1>2 DEF StartInv
<1>7. work'[p].left = {}
  BY <1>3 DEF Boot!Idle
<1> QED
  BY <1>2, <1>3, <1>4, <1>5, <1>6, <1>7, AllStays, OneChanges

LEMMA StartInvKept == ASSUME StartInv, NEW p \in Procs, Boot!Start(p) PROVE StartInv'
<1>1. /\ ControlOK /\ todo \in [Procs -> Seq(StartSteps)] /\ work \in [Procs -> Works] /\ full \in [Procs -> BOOLEAN]
      /\ state \in [Procs -> {"off", "starting", "up", "done", "failed"}] /\ WorkOK(p) /\ again \subseteq Procs
  BY DEF StartInv, Shapes, ControlOK
<1>2. /\ state' = [state EXCEPT ![p] = "starting"] /\ full' = [full EXCEPT ![p] = TRUE]
      /\ again' = (IF clean THEN again \cup {p} ELSE again \ {p})
      /\ clean' = clean /\ overlapped' = overlapped /\ miscounted' = miscounted /\ work' = work /\ faults' = faults /\ edits' = edits
      /\ UNCHANGED <<Boot!seeds, Boot!booked, bootRaced>>
  BY DEF Boot!Start
<1>3. PICK more \in Seq(ToolStep) : todo' = [todo EXCEPT ![p] = Boot!InitSteps \o more]
  <2>1. CASE p # Tool
    <3>1. <<>> \in Seq(ToolStep)
      OBVIOUS
    <3>2. Boot!InitSteps \o <<>> = Boot!InitSteps
      BY InitAre
    <3> QED
      BY <2>1, <3>1, <3>2 DEF Boot!Start
  <2>2. CASE p = Tool
    BY <2>2, ToolAre DEF Boot!Start
  <2> QED
    BY <2>1, <2>2
<1>4. /\ todo'[p] = Boot!InitSteps \o more /\ state'[p] = "starting"
      /\ \A q \in Procs \ {p} : /\ todo'[q] = todo[q] /\ work'[q] = work[q] /\ state'[q] = state[q]
                                /\ full'[q] => full[q]
                                /\ q \in again' => q \in again
  BY <1>1, <1>2, <1>3
<1>5. Ahead(p, 1)' /\ todo'[p] \in Seq(StartSteps)
  BY <1>4, StartAhead
<1>6. ControlOK'
  <2>1. todo' \in [Procs -> Seq(StartSteps)]
    BY <1>1, <1>3, <1>4, <1>5
  <2>2. /\ state' \in [Procs -> {"off", "starting", "up", "done", "failed"}] /\ full' \in [Procs -> BOOLEAN]
        /\ again' \subseteq Procs
    BY <1>1, <1>2
  <2>3. \A q \in Procs : todo'[q] # <<>> => state'[q] = "starting"
    BY <1>1, <1>4 DEF ControlOK
  <2>4. starts' \in 0..MaxStarts
    BY <1>1, BootAssumption DEF Boot!Start, ControlOK, Boot!StartupAssumption
  <2> QED
    BY <1>1, <1>2, <2>1, <2>2, <2>3, <2>4 DEF ControlOK
<1>7. work'[p] = Boot!Idle
  <2>1. state[p] # "starting"
    BY DEF Boot!Start, Boot!Alive
  <2> QED
    BY <1>1, <1>2, <2>1 DEF WorkOK
<1>8. WorkOK(p)'
  BY <1>7 DEF WorkOK, Boot!Idle
<1>9. Settled(1)'
  <2>1. ~(1 >= 4) /\ ~(1 >= 5) /\ ~(1 >= 7) /\ ~(1 >= 8) /\ ~(1 >= 9) /\ ~(1 >= 10) /\ ~(1 >= 12) /\ ~(1 >= 13)
    OBVIOUS
  <2> QED
    BY <2>1, Zenon DEF Settled
<1>10. OnItsWay(p)'
  <2>1. Progress(p, 1)'
    BY <1>9 DEF Progress
  <2> QED
    BY <1>5, <2>1 DEF OnItsWay
<1>11. again' # {} => clean
  BY <1>2 DEF StartInv
<1> QED
  BY <1>2, <1>4, <1>6, <1>7, <1>8, <1>10, <1>11, AllStays, OneChanges DEF Boot!Idle

------------------------------------------------------------------------------
(* Work while a server is up *)

LEMMA EditKeeps ==
    ASSUME StartInv, Boot!Edit, DataOK', shops \subseteq shops', Seen \subseteq Seen', LinksHaveCustomers',
           bootRaced' \subseteq Appts, KeysRight => KeysRight',
           \A q \in Procs : Boot!At(q, "key") /\ RowsRight(q) => RowsRight(q)'
    PROVE  StartInv'
<1>1. /\ Shapes /\ ControlOK /\ todo' = todo /\ work' = work /\ state' = state /\ service' = service
      /\ overlapped' = overlapped /\ miscounted' = miscounted /\ faults' = faults /\ starts' = starts
      /\ full' = [p \in Procs |-> FALSE] /\ clean' = FALSE /\ again' = {} /\ edits < MaxEdits /\ edits' = edits + 1
  BY DEF StartInv, Shapes, Boot!Edit
<1>2. KeysRight'
  BY DEF StartInv, Boot!Edit, Boot!Up
<1>3. ControlOK'
  <2>1. edits' \in 0..MaxEdits
    BY <1>1, BootAssumption DEF ControlOK, Boot!StartupAssumption
  <2>2. full' \in [Procs -> BOOLEAN]
    BY <1>1
  <2> QED
    BY <1>1, <2>1, <2>2 DEF ControlOK
<1>4. CatalogueInv'
  <2>1. CatalogueInv
    BY DEF StartInv
  <2>2. \A q \in Procs : work'[q].left # {} => work'[q].left \subseteq work[q].left /\ work'[q].shop = work[q].shop
    BY <1>1
  <2> QED
    BY <1>1, <2>1, <2>2, FewerWaitAll
<1>5. ASSUME NEW q \in Procs PROVE WorkOK(q)' /\ OnItsWay(q)'
  <2>1. WorkOK(q) /\ OnItsWay(q)
    BY DEF StartInv
  <2>2. WorkOK(q)'
    BY <1>1, <2>1 DEF WorkOK, Boot!Now
  <2>3. OnItsWay(q)'
    <3> SUFFICES ASSUME state[q] = "starting" PROVE \E k \in 1..13 : Ahead(q, k)' /\ Progress(q, k)'
      BY <1>1 DEF OnItsWay
    <3>1. PICK k \in 1..13 : Ahead(q, k) /\ Progress(q, k)
      BY <2>1 DEF OnItsWay
    <3>2. Ahead(q, k)'
      BY <1>1, <3>1, AheadKept
    <3>3. ASSUME k = 2 PROVE RowsRight(q)'
      <4>1. todo[q] # <<>> /\ todo[q] \in Seq(StartSteps)
        BY <1>1, <3>1, <3>3 DEF Ahead, ControlOK
      <4>2. Boot!Now(q).do = "key"
        BY <3>1, <3>3, <4>1, PlaceIs
      <4>3. Boot!At(q, "key") /\ RowsRight(q)
        BY <3>1, <3>3, <4>1, <4>2 DEF Boot!At, Progress
      <4> QED
        BY <4>3
    <3>4. ~full'[q] /\ q \notin again'
      BY <1>1
    <3>5. Progress(q, k)'
      BY <1>2, <3>3, <3>4 DEF Progress
    <3> QED
      BY <3>2, <3>5
  <2> QED
    BY <2>2, <2>3
<1>6. Shapes'
  BY <1>3 DEF Shapes
<1>7. ~clean' /\ again' = {}
  BY <1>1
<1> QED
  BY <1>2, <1>4, <1>5, <1>6, <1>7, Zenon DEF StartInv

\* A row changes, with its key.
LEMMA RowChanged ==
    ASSUME StartInv, Boot!Edit, NEW a \in Appts, NEW row \in Rows, Boot!Change(a, row), row.status # Boot!None,
           row.key = IF row.status = "active" THEN row.slot ELSE Boot!None
    PROVE  /\ appt' \in [Appts -> Rows] /\ appt'[a] = row /\ \A x \in Appts \ {a} : appt'[x] = appt[x]
           /\ Seen \subseteq Seen' /\ bootRaced' \subseteq Appts /\ (KeysRight => KeysRight')
           /\ \A q \in Procs : Boot!At(q, "key") /\ RowsRight(q) => RowsRight(q)'
<1>1. appt \in [Appts -> Rows] /\ bootRaced \subseteq Appts /\ work' = work
  BY DEF StartInv, Shapes, DataOK, ControlOK, Boot!Edit
<1>2. appt' \in [Appts -> Rows] /\ appt'[a] = row /\ \A x \in Appts \ {a} : appt'[x] = appt[x]
  BY <1>1 DEF Boot!Change
<1>3. bootRaced' = (IF Boot!Filling THEN bootRaced \cup {a} ELSE bootRaced)
  BY DEF Boot!Change
<1>4. bootRaced' \subseteq Appts /\ bootRaced \subseteq bootRaced'
  BY <1>1, <1>3
<1>5. Seen \subseteq Seen'
  <2>1. \A x \in Appts : appt[x].status # Boot!None => appt'[x].status # Boot!None
    BY <1>2
  <2> QED
    BY <2>1 DEF Seen
<1>6. KeysRight => KeysRight'
  <2> SUFFICES ASSUME KeysRight, NEW x \in Appts \ bootRaced' PROVE KeyIsRight(x)'
    BY DEF KeysRight
  <2>1. CASE x = a
    BY <1>2, <2>1 DEF KeyIsRight
  <2>2. CASE x # a
    BY <1>2, <1>4, <2>2 DEF KeysRight, KeyIsRight
  <2> QED
    BY <2>1, <2>2
<1>7. ASSUME NEW q \in Procs, Boot!At(q, "key"), RowsRight(q) PROVE RowsRight(q)'
  <2>1. bootRaced' = bootRaced \cup {a}
    BY <1>3, <1>7 DEF Boot!Filling
  <2> QED
    BY <1>1, <1>2, <1>7, <2>1 DEF RowsRight
<1> QED
  BY <1>2, <1>4, <1>5, <1>6, <1>7

LEMMA BookInv == ASSUME StartInv, NEW a \in Appts, NEW slot \in Slots, Boot!Book(a, slot) PROVE StartInv'
<1> DEFINE row == [status |-> "active", slot |-> slot, key |-> slot, late |-> FALSE, linked |-> TRUE]
<1>1. /\ Boot!Edit /\ Boot!Change(a, row) /\ tally' = tally
      /\ cust' = [cust EXCEPT ![NameOf[a]] = IF @ = Boot!None THEN "wechat" ELSE @]
      /\ row \in Rows /\ row.status = "active" /\ row.key = row.slot
  BY DEF Boot!Book, Rows
<1> HIDE DEF row
<1>2. /\ appt' \in [Appts -> Rows] /\ appt'[a] = row /\ \A x \in Appts \ {a} : appt'[x] = appt[x]
      /\ Seen \subseteq Seen' /\ bootRaced' \subseteq Appts /\ (KeysRight => KeysRight')
      /\ \A q \in Procs : Boot!At(q, "key") /\ RowsRight(q) => RowsRight(q)'
  <2>1. row.status # Boot!None /\ row.key = IF row.status = "active" THEN row.slot ELSE Boot!None
    BY <1>1 DEF Boot!None
  <2> QED
    BY <1>1, <2>1, RowChanged
<1>3. /\ cust \in [Boot!Names -> {Boot!None, "wechat", "blank"}] /\ \A x \in Appts : NameOf[x] \in Boot!Names
  BY DEF StartInv, Shapes, DataOK, Boot!Names
<1>4. /\ cust' \in [Boot!Names -> {Boot!None, "wechat", "blank"}] /\ cust'[NameOf[a]] # Boot!None
      /\ \A n \in Boot!Names : cust[n] # Boot!None => cust'[n] # Boot!None
  BY <1>1, <1>3 DEF Boot!None
<1>5. LinksHaveCustomers'
  BY <1>2, <1>3, <1>4 DEF LinksHaveCustomers, StartInv
<1>6. DataOK'
  BY <1>1, <1>2, <1>4 DEF StartInv, Shapes, DataOK, Boot!Change, Boot!Edit
<1>7. shops' = shops
  BY <1>1 DEF Boot!Change
<1> QED
  BY <1>1, <1>2, <1>5, <1>6, <1>7, EditKeeps

\* The other changes of an appointment leave the customers.
LEMMA RowChangeInv ==
    ASSUME StartInv, Boot!Edit, NEW a \in Boot!Active, NEW row \in Rows, Boot!Change(a, row), row.status # Boot!None,
           row.key = IF row.status = "active" THEN row.slot ELSE Boot!None, row.linked = appt[a].linked,
           cust' = cust, tally' = [n \in Boot!Names |-> tally'[n]]
    PROVE  StartInv'
<1>1. a \in Appts /\ appt[a].status = "active"
  BY DEF Boot!Active
<1>2. /\ appt' \in [Appts -> Rows] /\ appt'[a] = row /\ \A x \in Appts \ {a} : appt'[x] = appt[x]
      /\ Seen \subseteq Seen' /\ bootRaced' \subseteq Appts /\ (KeysRight => KeysRight')
      /\ \A q \in Procs : Boot!At(q, "key") /\ RowsRight(q) => RowsRight(q)'
  BY <1>1, RowChanged
<1>3. LinksHaveCustomers'
  <2> SUFFICES ASSUME NEW x \in Appts, appt'[x].status # Boot!None, appt'[x].linked PROVE cust[NameOf[x]] # Boot!None
    BY DEF LinksHaveCustomers
  <2>1. appt[x].status # Boot!None /\ appt[x].linked
    BY <1>1, <1>2 DEF Boot!None
  <2> QED
    BY <2>1 DEF LinksHaveCustomers, StartInv
<1>4. DataOK'
  BY <1>2 DEF StartInv, Shapes, DataOK, Boot!Change, Boot!Edit
<1>5. shops' = shops
  BY DEF Boot!Change
<1> QED
  BY <1>2, <1>3, <1>4, <1>5, EditKeeps

LEMMA CancelInv == ASSUME StartInv, NEW a \in Appts, NEW late \in BOOLEAN, Boot!Cancel(a, late) PROVE StartInv'
<1> DEFINE row == [appt[a] EXCEPT !.status = "cancelled", !.key = Boot!None, !.late = late]
<1>1. Boot!Edit /\ a \in Boot!Active /\ Boot!Change(a, row) /\ cust' = cust /\ appt[a] \in Rows /\ tally = [n \in Boot!Names |-> tally[n]]
  BY DEF Boot!Cancel, StartInv, Shapes, DataOK
<1>2. /\ row \in Rows /\ row.status # Boot!None /\ row.linked = appt[a].linked
      /\ row.key = IF row.status = "active" THEN row.slot ELSE Boot!None
  BY <1>1 DEF Rows, Boot!None
<1>3. tally' = [n \in Boot!Names |-> tally'[n]]
  <2>1. \E t : tally' = [tally EXCEPT ![NameOf[a]] = t]
    BY DEF Boot!Cancel
  <2> QED
    BY <1>1, <2>1
<1> HIDE DEF row
<1> QED
  BY <1>1, <1>2, <1>3, RowChangeInv

LEMMA RescheduleInv == ASSUME StartInv, NEW a \in Appts, NEW slot \in Slots, Boot!Reschedule(a, slot) PROVE StartInv'
<1> DEFINE row == [appt[a] EXCEPT !.slot = slot, !.key = slot]
<1>1. /\ Boot!Edit /\ a \in Boot!Active /\ Boot!Change(a, row) /\ cust' = cust /\ tally' = tally /\ appt[a] \in Rows
      /\ tally = [n \in Boot!Names |-> tally[n]] /\ appt[a].status = "active"
  BY DEF Boot!Reschedule, StartInv, Shapes, DataOK, Boot!Active
<1>2. /\ row \in Rows /\ row.status # Boot!None /\ row.linked = appt[a].linked
      /\ row.key = IF row.status = "active" THEN row.slot ELSE Boot!None
  BY <1>1 DEF Rows, Boot!None
<1> HIDE DEF row
<1> QED
  BY <1>1, <1>2, RowChangeInv

LEMMA CompleteInv == ASSUME StartInv, NEW a \in Appts, Boot!Complete(a) PROVE StartInv'
<1> DEFINE row == [appt[a] EXCEPT !.status = "completed", !.key = Boot!None]
<1>1. Boot!Edit /\ a \in Boot!Active /\ Boot!Change(a, row) /\ cust' = cust /\ appt[a] \in Rows /\ tally = [n \in Boot!Names |-> tally[n]]
  BY DEF Boot!Complete, StartInv, Shapes, DataOK
<1>2. /\ row \in Rows /\ row.status # Boot!None /\ row.linked = appt[a].linked
      /\ row.key = IF row.status = "active" THEN row.slot ELSE Boot!None
  BY <1>1 DEF Rows, Boot!None
<1>3. tally' = [n \in Boot!Names |-> tally'[n]]
  <2>1. \E t : tally' = [tally EXCEPT ![NameOf[a]] = t]
    BY DEF Boot!Complete
  <2> QED
    BY <1>1, <2>1
<1> HIDE DEF row
<1> QED
  BY <1>1, <1>2, <1>3, RowChangeInv

LEMMA EditedInv ==
    ASSUME StartInv, Boot!Edit, UNCHANGED <<bootRole, Boot!booked, bootRaced>>, shops \subseteq shops', shops' \subseteq Shops, bootPerms' \subseteq Perms
    PROVE  StartInv'
<1>1. DataOK'
  BY DEF StartInv, Shapes, DataOK, Boot!Edit, Boot!booked
<1>2. Seen' = Seen /\ LinksHaveCustomers' /\ bootRaced' \subseteq Appts
  BY DEF StartInv, Shapes, ControlOK, Seen, LinksHaveCustomers, Boot!booked
<1>3. KeysRight => KeysRight'
  BY DEF KeysRight, KeyIsRight, Boot!booked
<1>4. \A q \in Procs : RowsRight(q) => RowsRight(q)'
  BY DEF RowsRight, Boot!booked, Boot!Edit
<1> QED
  BY <1>1, <1>2, <1>3, <1>4, EditKeeps

------------------------------------------------------------------------------
(* The invariant *)

LEMMA InitInv == Boot!Init => StartInv
<1> SUFFICES ASSUME Boot!Init PROVE StartInv
  OBVIOUS
<1>1. /\ todo = [p \in Procs |-> <<>>] /\ work = [p \in Procs |-> Boot!Idle] /\ state = [p \in Procs |-> "off"]
      /\ full = [p \in Procs |-> FALSE] /\ clean = FALSE /\ again = {} /\ bootRaced = {} /\ overlapped = FALSE
      /\ miscounted = {}
      /\ faults = 0 /\ edits = 0 /\ starts = 0
  BY DEF Boot!Init
<1>2. Boot!Empty \in Rows /\ Boot!Empty.linked = FALSE
  BY BootAssumption DEF Boot!StartupAssumption, Boot!Empty, Rows
<1>3. /\ appt \in [Appts -> Rows] /\ \A a \in Appts : ~appt[a].linked
  <2>1. CASE Boot!Fresh
    BY <1>2, <2>1 DEF Boot!Fresh
  <2>2. CASE Boot!Old
    <3>1. \A a \in Appts : appt[a] = Boot!Empty \/ (appt[a] \in Rows /\ ~appt[a].linked)
      BY <2>2 DEF Boot!Old, Rows
    <3>2. appt = [a \in Appts |-> appt[a]]
      BY <2>2 DEF Boot!Old
    <3> QED
      BY <1>2, <3>1, <3>2
  <2> QED
    BY <2>1, <2>2 DEF Boot!Init
<1>4. /\ shops \subseteq Shops /\ bootPerms \subseteq Perms /\ bootRole \in [Boot!Accounts -> Boot!Roles]
      /\ barber \in [Barbers -> {Boot!None, "nowhere", "placed"}] /\ cust \in [Boot!Names -> {Boot!None, "wechat", "blank"}]
      /\ tally = [n \in Boot!Names |-> tally[n]] /\ service = [s \in Shops |-> [n \in Defaults |-> 0]]
  <2>1. tally = [n \in Boot!Names |-> tally[n]]
    BY DEF Boot!Init, Boot!Blank
  <2>2. CASE Boot!Fresh
    BY <2>1, <2>2 DEF Boot!Fresh, Boot!Roles
  <2>3. CASE Boot!Old
    <3>1. shops \subseteq Shops
      BY <2>3, BootAssumption DEF Boot!Old, Boot!StartupAssumption
    <3>2. bootPerms \subseteq Perms
      BY <2>3 DEF Boot!Old
    <3>3. bootRole \in [Boot!Accounts -> Boot!Roles]
      BY <2>3 DEF Boot!Old, Boot!Roles
    <3> QED
      BY <2>1, <2>3, <3>1, <3>2, <3>3 DEF Boot!Old
  <2> QED
    BY <2>2, <2>3 DEF Boot!Init
<1>5. DataOK
  <2>1. service \in [Shops -> [Defaults -> Nat]]
    BY <1>4
  <2> QED
    BY <1>3, <1>4, <2>1 DEF DataOK
<1>6. ControlOK
  <2>1. <<>> \in Seq(StartSteps)
    OBVIOUS
  <2>2. todo \in [Procs -> Seq(StartSteps)] /\ work \in [Procs -> Works]
    BY <1>1, <2>1, IdleTyped
  <2>3. 0 \in 0..MaxFaults /\ 0 \in 0..MaxEdits /\ 0 \in 0..MaxStarts
    BY BootAssumption DEF Boot!StartupAssumption
  <2> QED
    BY <1>1, <2>2, <2>3 DEF ControlOK
<1>7. CatalogueInv
  <2>1. \A s \in Shops, n \in Defaults : service[s][n] = 0
    BY <1>4
  <2> QED
    BY <2>1 DEF CatalogueInv
<1>8. LinksHaveCustomers
  BY <1>3 DEF LinksHaveCustomers
<1>9. \A p \in Procs : WorkOK(p) /\ OnItsWay(p)
  BY <1>1 DEF WorkOK, OnItsWay, Boot!Idle
<1>10. ~Boot!Up
  BY <1>1 DEF Boot!Up
<1> QED
  BY <1>1, <1>5, <1>6, <1>7, <1>8, <1>9, <1>10 DEF StartInv, Shapes

LEMMA NextInv == StartInv /\ [Boot!Next]_Boot!vars => StartInv'
<1> SUFFICES ASSUME StartInv, [Boot!Next]_Boot!vars PROVE StartInv'
  OBVIOUS
<1>1. CASE UNCHANGED Boot!vars
  <2>1. /\ UNCHANGED <<Boot!seeds, Boot!booked, bootRaced, todo, work, state, full, clean, again, overlapped, miscounted, faults, edits, starts>>
    BY <1>1 DEF Boot!vars, Boot!history
  <2>2. Shapes'
    BY <2>1 DEF StartInv, Shapes, DataOK, ControlOK, Boot!seeds, Boot!booked
  <2>3. CatalogueInv'
    <3>1. Shapes /\ CatalogueInv /\ service' = service
      BY <2>1 DEF StartInv, Boot!seeds
    <3> QED
      BY <2>1, <3>1, FewerWaitAll
  <2>4. /\ KeysRight' = KeysRight /\ (LinksHaveCustomers => LinksHaveCustomers') /\ (Settled(13) => Settled(13)')
        /\ DataStays
    BY <2>1, AllStays, SameData DEF StartInv, Shapes
  <2>5. Boot!Up' = Boot!Up
    BY <2>1 DEF Boot!Up
  <2>6. \A q \in Procs : WorkOK(q)' /\ OnItsWay(q)'
    BY <2>1, <2>4, SameProcess
  <2> QED
    BY <2>1, <2>2, <2>3, <2>4, <2>5, <2>6, Zenon DEF StartInv
<1>2. CASE \E p \in Procs : Boot!DoStep(p)
  BY <1>2, StepInv
<1>3. CASE \E p \in Procs : \/ Boot!Fail(p) \/ Boot!SkipService(p) \/ Boot!MiscountServices(p) \/ Boot!SkipName(p)
                         \/ Boot!Crash(p) \/ Boot!Start(p)
  BY <1>3, FailInv, SkipServiceInv, MiscountInv, SkipNameInv, CrashInv, StartInvKept
<1>4. CASE \E a \in Appts, s \in Slots : Boot!Book(a, s) \/ Boot!Reschedule(a, s)
  BY <1>4, BookInv, RescheduleInv
<1>5. CASE \E a \in Appts : Boot!Complete(a) \/ \E late \in BOOLEAN : Boot!Cancel(a, late)
  BY <1>5, CompleteInv, CancelInv
<1>6. ASSUME NEW q \in Perms, Boot!Revoke(q) PROVE StartInv'
  <2>1. Boot!Edit /\ UNCHANGED <<bootRole, Boot!booked, bootRaced>> /\ shops' = shops /\ bootPerms' \subseteq Perms /\ shops \subseteq Shops
    BY <1>6 DEF Boot!Revoke, StartInv, Shapes, DataOK
  <2> QED
    BY <2>1, EditedInv
<1>7. ASSUME NEW s \in Shops, Boot!Branch(s) PROVE StartInv'
  <2>1. Boot!Edit /\ UNCHANGED <<bootRole, Boot!booked, bootRaced>> /\ shops' = shops \cup {s} /\ bootPerms' \subseteq Perms /\ shops' \subseteq Shops
    BY <1>7 DEF Boot!Branch, StartInv, Shapes, DataOK
  <2> QED
    BY <2>1, EditedInv
<1> QED
  BY <1>1, <1>2, <1>3, <1>4, <1>5, <1>6, <1>7 DEF Boot!Next

------------------------------------------------------------------------------
(* What follows *)

LEMMA StartInvTells == StartInv => Boot!TypeOK /\ Boot!KeysTellStatus /\ Boot!CatalogueOnce
<1> SUFFICES ASSUME StartInv PROVE Boot!TypeOK /\ Boot!KeysTellStatus /\ Boot!CatalogueOnce
  OBVIOUS
<1>1. Shapes /\ DataOK /\ ControlOK /\ CatalogueInv
  BY DEF StartInv, Shapes
<1>4. Boot!TypeOK
  BY <1>1 DEF Boot!TypeOK, DataOK, ControlOK, Rows
<1>5. Boot!KeysTellStatus
  BY DEF StartInv, Boot!KeysTellStatus, KeysRight, KeyIsRight, Boot!Active
<1>6. Boot!CatalogueOnce
  BY <1>1 DEF CatalogueInv, Boot!CatalogueOnce
<1> QED
  BY <1>4, <1>5, <1>6

\* What a start that comes again does not do.
LEMMA AgainFinds ==
    ASSUME StartInv, NEW p \in again, bootRaced = {}, Boot!DoStep(p), Boot!Now(p).of = "init"
    PROVE  UNCHANGED Boot!Database \/ \E s \in miscounted : Boot!OnlyCatalogue(s)
<1>1. /\ p \in Procs /\ Shapes /\ DataOK /\ WorkOK(p) /\ LinksHaveCustomers /\ state[p] = "starting" /\ todo[p] # <<>>
      /\ todo[p] \in Seq(StartSteps)
  BY StepIsAt DEF StartInv, Shapes, ControlOK
<1>2. PICK k \in 1..13 : Ahead(p, k) /\ Progress(p, k)
  BY <1>1 DEF StartInv, OnItsWay
<1>3. /\ NamesSettled /\ TallyRight /\ HasServices /\ KeysRight
      /\ Default \in shops /\ bootRole[Admin] # Boot!None /\ \A e \in Barbers : barber[e] = "placed"
      /\ \A u \in Boot!Accounts : bootRole[u] # ""
      /\ Perms \subseteq bootPerms
  BY WasAgain
<1>4. CASE UNCHANGED <<Boot!seeds, Boot!booked>>
  BY <1>4 DEF Boot!Database
<1>5. CASE Boot!WriteKeys(p)
  <2>1. RowsRight(p)
    BY <1>1, <1>5, AtKeyRows DEF Boot!WriteKeys
  <2>2. ASSUME NEW a \in Appts PROVE Boot!Keyed(p)[a] = appt[a].key
    <3>1. a \in Appts \ bootRaced
      OBVIOUS
    <3>2. Boot!Keyed(p)[a] = IF appt[a].status = "active" THEN appt[a].slot ELSE Boot!None
      BY <1>1, <2>1, <3>1, KeyedRight
    <3>3. KeyIsRight(a)
      BY <1>3, <3>1 DEF KeysRight
    <3> QED
      BY <3>2, <3>3 DEF KeyIsRight
  <2>3. CASE appt' = [a \in Appts |-> [appt[a] EXCEPT !.key = Boot!Keyed(p)[a]]]
    <3>1. \A a \in Appts : appt'[a] = [appt[a] EXCEPT !.key = appt[a].key]
      BY <2>2, <2>3
    <3>2. appt \in [Appts -> Rows] /\ appt' = [a \in Appts |-> appt'[a]]
      BY <1>1, <2>3 DEF DataOK
    <3>3. \A a \in Appts : appt'[a] = appt[a]
      BY <3>1, <3>2 DEF Rows
    <3>4. appt' = appt
      BY <3>2, <3>3
    <3> QED
      BY <1>5, <3>4 DEF Boot!WriteKeys, Boot!Database, Boot!seeds, Boot!booked
  <2> QED
    BY <1>5, <2>3 DEF Boot!WriteKeys, Boot!Database, Boot!seeds, Boot!booked
<1>6. CASE Boot!SeedShop(p)
  BY <1>3, <1>6 DEF Boot!SeedShop, Boot!Database, Boot!seeds
<1>7. CASE Boot!SeedAdmin(p)
  BY <1>3, <1>7 DEF Boot!SeedAdmin, Boot!Database, Boot!seeds
<1>8. ~Boot!SeedPlatform(p)
  <2>1. Boot!SeedPlatform(p) => Boot!Now(p).do = "platform"
    BY DEF Boot!SeedPlatform, Boot!At
  <2>2. Boot!Now(p).do = "platform" => k \in {5, 13}
    BY <1>1, <1>2, PlaceIs
  <2>3. k < 13
    BY <1>1, <1>2, PlaceIs
  <2>4. k # 5
    BY <1>2 DEF Progress
  <2> QED
    BY <2>1, <2>2, <2>3, <2>4
<1>9. CASE Boot!SeedBarbers(p)
  <2>1. {e \in Barbers : barber[e] = Boot!None} = {}
    BY <1>3 DEF Boot!None
  <2> QED
    BY <1>9, <2>1 DEF Boot!SeedBarbers, Boot!Database, Boot!seeds
<1>10. CASE Boot!EnsureBarberShopIDs(p)
  <2>1. barber' = barber
    <3>1. barber = [e \in Barbers |-> barber[e]]
      BY <1>1 DEF DataOK
    <3>2. barber' = [e \in Barbers |-> barber[e]]
      BY <1>3, <1>10 DEF Boot!EnsureBarberShopIDs
    <3> QED
      BY <3>1, <3>2
  <2> QED
    BY <1>10, <2>1 DEF Boot!EnsureBarberShopIDs, Boot!Database, Boot!seeds
<1>11. CASE Boot!SeedService(p)
  <2>1. Boot!Now(p).do = "services" /\ work[p].left # {} /\ UNCHANGED <<shops, barber, bootRole, bootPerms, Boot!booked>>
    BY <1>11 DEF Boot!SeedService, Boot!At
  <2>2. work[p].shop \in miscounted
    <3>1. k = 8
      BY <1>1, <1>2, <2>1, PlaceIs
    <3> QED
      BY <1>2, <2>1, <3>1 DEF Progress, InVain
  <2>3. \A x \in Shops \ {work[p].shop} : service'[x] = service[x]
    <3>1. \E n : service' = [service EXCEPT ![work[p].shop][n] = @ + 1]
      BY <1>11 DEF Boot!SeedService
    <3>2. DOMAIN service = Shops
      BY <1>1 DEF DataOK
    <3> QED
      BY <3>1, <3>2
  <2>4. Boot!OnlyCatalogue(work[p].shop)
    BY <2>1, <2>3 DEF Boot!OnlyCatalogue
  <2> QED
    BY <2>2, <2>4
<1>12. CASE Boot!BackfillRoles(p)
  <2>1. bootRole' = bootRole
    <3>1. bootRole = [u \in Boot!Accounts |-> bootRole[u]]
      BY <1>1 DEF DataOK
    <3>2. bootRole' = [u \in Boot!Accounts |-> bootRole[u]]
      BY <1>3, <1>12 DEF Boot!BackfillRoles
    <3> QED
      BY <3>1, <3>2
  <2> QED
    BY <1>12, <2>1 DEF Boot!BackfillRoles, Boot!Database, Boot!seeds
<1>13. CASE Boot!SeedDefaultRolePermissions(p) \/ Boot!ReconcileRolePermissions(p)
  <2>1. bootPerms \subseteq Perms
    BY <1>1 DEF DataOK
  <2>2. bootPerms' = bootPerms
    BY <1>3, <1>13, <2>1 DEF Boot!SeedDefaultRolePermissions, Boot!ReconcileRolePermissions
  <2> QED
    BY <1>13, <2>2 DEF Boot!SeedDefaultRolePermissions, Boot!ReconcileRolePermissions, Boot!Database, Boot!seeds
<1>14. ~Boot!AddPlatformPerms(p) /\ ~Boot!StepPlatformAdmin(p)
  <2>1. Boot!AddPlatformPerms(p) \/ Boot!StepPlatformAdmin(p) => Boot!Now(p).do \in {"platformPerms", "upgrade"}
    BY DEF Boot!AddPlatformPerms, Boot!StepPlatformAdmin, Boot!At
  <2>2. Boot!Now(p).do \in {"platformPerms", "upgrade"} => k = 13
    BY <1>1, <1>2, PlaceIs
  <2>3. k < 13
    BY <1>1, <1>2, PlaceIs
  <2> QED
    BY <2>1, <2>2, <2>3
<1>15. CASE Boot!LinkCustomer(p)
  <2>1. UNCHANGED Boot!booked
    BY <1>1, <1>3, <1>15, LinkEffects
  <2> QED
    BY <1>15, <2>1 DEF Boot!LinkCustomer, Boot!Database
<1>16. CASE Boot!Recount(p)
  <2>1. k = 12 /\ work[p].on
    <3>1. Boot!Now(p).do = "customers" /\ work[p].on
      BY <1>16 DEF Boot!Recount, Boot!At
    <3> QED
      BY <1>1, <1>2, <3>1, PlaceIs
  <2>2. Boot!Unlinked # {}
    BY <1>2, <2>1 DEF Progress
  <2>3. \A n \in Boot!Names : cust[n] # Boot!None => tally[n] = Boot!Recounted(n)
    BY <1>3, <2>2 DEF TallyRight
  <2>4. tally' = tally
    <3>1. tally' = [n \in Boot!Names |-> IF cust[n] # Boot!None THEN Boot!Recounted(n) ELSE tally[n]]
      BY <1>16 DEF Boot!Recount
    <3>2. tally = [n \in Boot!Names |-> tally[n]]
      BY <1>1 DEF DataOK
    <3>3. tally' = [n \in Boot!Names |-> tally[n]]
      BY <2>3, <3>1
    <3> QED
      BY <3>2, <3>3
  <2> QED
    BY <1>16, <2>4 DEF Boot!Recount, Boot!Database, Boot!booked
<1>17. Boot!ReadActive(p) \/ Boot!ListShops(p) \/ Boot!CountServices(p) \/ Boot!ListNames(p) => UNCHANGED <<Boot!seeds, Boot!booked>>
  BY DEF Boot!ReadActive, Boot!ListShops, Boot!CountServices, Boot!ListNames
<1> QED
  BY <1>4, <1>5, <1>6, <1>7, <1>8, <1>9, <1>10, <1>11, <1>12, <1>13, <1>14, <1>15, <1>16, <1>17 DEF Boot!DoStep

LEMMA SecondStart == StartInv => Boot!StartedBefore
<1> SUFFICES ASSUME StartInv, NEW p \in again, state[p] = "starting" /\ Boot!Now(p).of = "init" /\ Boot!DoStep(p), bootRaced = {}
             PROVE  UNCHANGED Boot!Database \/ \E s \in miscounted : Boot!OnlyCatalogue(s)
  BY DEF Boot!StartedBefore
<1> QED
  BY AgainFinds

------------------------------------------------------------------------------
(* The two apart *)

PartInv ==
    /\ part = "office" => TypeOK /\ RequestsOK /\ ExpiryInv /\ OfficeInv
    /\ part = "startup" => StartInv

LEMMA PartSteps == PartSpec => []PartInv
<1>1. PartInit => PartInv
  BY InitTypes, InitMembers, InitPlan, InitVerdict, InitInv DEF PartInit, PartInv, OfficeInv
<1>2. PartInv /\ [PartNext]_allVars => PartInv'
  <2> SUFFICES ASSUME PartInv, [PartNext]_allVars PROVE PartInv'
    OBVIOUS
  <2>1. part' = part
    BY DEF PartNext, allVars
  <2>2. CASE part = "office"
    <3>1. [Next]_vars
      BY <2>2 DEF PartNext, allVars
    <3>2. TypeOK /\ RequestsOK /\ ExpiryInv /\ OfficeInv
      BY <2>2 DEF PartInv
    <3>3. (TypeOK /\ RequestsOK /\ ExpiryInv /\ OfficeInv)'
      BY <3>1, <3>2, StepTypes, StepExpiry, StepMembers, StepPlan, StepVerdict DEF OfficeInv
    <3> QED
      BY <2>1, <2>2, <3>3 DEF PartInv
  <2>3. CASE part = "startup"
    <3>1. [Boot!Next]_(Boot!vars)
      BY <2>3 DEF PartNext, allVars, BootVars, Boot!vars, Boot!seeds, Boot!booked, Boot!history
    <3>2. StartInv'
      BY <2>3, <3>1, NextInv DEF PartInv
    <3> QED
      BY <2>1, <2>3, <3>2 DEF PartInv
  <2> QED
    BY <2>1, <2>2, <2>3 DEF PartInv
<1> QED
  BY <1>1, <1>2, PTL DEF PartSpec

\* Whatever fails, dies or is edited, and however many processes start at once: while a server is
\* up, an active appointment has the key of its slot and no other has one, but for those changed
\* while their keys were filled; and the default services are in the catalogue of a shop once,
\* unless two processes seeded a catalogue at the same time or the query that counts the services
\* of that shop has failed, which CountServices takes for none (BackfillAppointmentActiveSlotKeys
\* and seedDefaultServices, storage/).
THEOREM StartedInOrder == PartSpec => []StartsInOrder
<1>1. PartInv => StartsInOrder
  BY StartInvTells DEF PartInv, StartsInOrder
<1> QED
  BY <1>1, PartSteps, PTL

\* Nobody of a shop whose grace ended more than a lifetime of the cache ago passes the gate
\* (RequirePlanActive); and a start that began when another had ended without a fault, with no
\* edit since that one began, changes nothing in the database, unless an appointment was changed
\* while its key was filled, but the catalogues of shops whose services were counted in vain
\* (InitDB, and cmd/migrate as far as it repeats InitDB).
THEOREM StepsAreAllowed == PartSpec => StepsAllowed
<1>1. PartInv /\ [PartNext]_allVars =>
        [(part = "office" => LetPast) /\ (part = "startup" => Boot!StartedBefore)]_allVars
  <2> SUFFICES ASSUME PartInv, PartNext
               PROVE  (part = "office" => LetPast) /\ (part = "startup" => Boot!StartedBefore)
    OBVIOUS
  <2>1. ASSUME part = "office" PROVE LetPast
    <3>1. TypeOK /\ RequestsOK /\ ExpiryInv /\ VerdictInv /\ Next
      BY <2>1 DEF PartInv, OfficeInv, PartNext
    <3> QED
      BY <3>1, StepLetPast
  <2>2. ASSUME part = "startup" PROVE Boot!StartedBefore
    BY <2>2, SecondStart DEF PartInv
  <2> QED
    BY <2>1, <2>2
<1> QED
  BY <1>1, PartSteps, PTL DEF PartSpec, StepsAllowed
=============================================================================
