---------------------------------- MODULE MCOffice --------------------------
(***************************************************************************)
(* The owner's office, for TLC: the accounts, the permissions and the plan *)
(* of a shop while requests come in (BackOffice), and what a starting      *)
(* process or the migration tool does to the same tables (Startup).  The   *)
(* two are studied apart: a behaviour is about the one or the other, whose *)
(* variables alone have a value.                                           *)
(***************************************************************************)
EXTENDS BackOffice, FiniteSets, TLC

\* of Startup
CONSTANTS
    Procs, Tool, Shops, Default, Defaults, Barbers, Admin, Platform, Others, Perms,
    PlatformPerms, Appts, Slots, NameOf, MaxFaults, MaxEdits, MaxStarts

VARIABLES
    part,   \* the component this behaviour is about
    shops, service, barber, bootRole, bootPerms, appt, cust, tally, todo, work, state, full,
    clean, again, bootRaced, overlapped, miscounted, faults, edits, starts    \* of Startup

Boot == INSTANCE Startup WITH
    role <- bootRole, perms <- bootPerms, raced <- bootRaced

ASSUME BootAssumption == Boot!StartupAssumption

Off == "off"

\* Its invariants are checked by their own names: where it is not studied, it is as at first.
BackOfficeOff == Init

BootVars ==
    <<shops, service, barber, bootRole, bootPerms, appt, cust, tally, todo, work, state, full,
      clean, again, bootRaced, overlapped, miscounted, faults, edits, starts>>
BootOff ==
    /\ shops = Off /\ service = Off /\ barber = Off /\ bootRole = Off /\ bootPerms = Off
    /\ appt = Off /\ cust = Off /\ tally = Off /\ todo = Off /\ work = Off /\ state = Off
    /\ full = Off /\ clean = Off /\ again = Off /\ bootRaced = Off /\ overlapped = Off
    /\ miscounted = Off /\ faults = Off /\ edits = Off /\ starts = Off

PartInit ==
    \/ part = "office" /\ Init /\ BootOff
    \/ part = "startup" /\ Boot!Init /\ BackOfficeOff

PartNext ==
    \/ part = "office" /\ Next /\ UNCHANGED <<part, BootVars>>
    \/ part = "startup" /\ Boot!Next /\ UNCHANGED <<part, vars>>

allVars == <<part, vars, BootVars>>

PartSpec == PartInit /\ [][PartNext]_allVars

------------------------------------------------------------------------------

CONSTANTS m1, m2, p1, r1, r2, basic, pro, server, tool, d, b, tony, cut, dye, admin, platform, a1, a2, v1, v2, s1, s2

\* One owner, a member to be made or not, and a platform administrator of the same shop.
MCFirstRole == [a \in Admins |-> IF a = p1 THEN "platform_admin"
                                 ELSE IF a = m1 THEN "owner" ELSE "none"]

Whose == [a \in Appts |-> a]

Symmetry == Permutations(Requests) \cup Permutations(Plans) \cup Permutations(Slots) \cup Permutations(Defaults)

\* Members alone: the owner and who they make, while the plan stays what it is.
MembersArea ==
    /\ opened = 1 /\ now = 0 /\ raced \subseteq {"members"}
    /\ \A r \in Requests : req[r].route \in MemberRoutes \cup {"none"}
    /\ \A t \in tokens : t.who # p1 /\ t.role = "owner"
    /\ \A r \in Requests : req[r].target # p1
    /\ perms = DefaultPerms /\ revoked = {}

\* The permissions alone: one of the owner's requests at a time.
AccessArea ==
    /\ opened = 1 /\ now = 0 /\ role = FirstRole /\ disabled = {} /\ raced = {}
    /\ \A t \in tokens : t.who = m1
    /\ \A r \in Requests : req[r] = Idle \/ (req[r].by = m1 /\ req[r].target = m1)
    /\ Cardinality({r \in Requests : req[r] # Idle}) <= 1

\* The subscription alone: the platform's administrator changes it while the owner sends
\* a request that has to pass the gate.
PlanArea ==
    /\ role = FirstRole /\ disabled = {} /\ perms = DefaultPerms /\ revoked = {}
    /\ \A t \in tokens : t.who \in {m1, p1}
    /\ \A r \in Requests :
          \/ req[r] = Idle
          \/ req[r].by = p1 /\ req[r].route \in PlanRoutes
          \/ req[r].route = "create" /\ req[r].by = m1 /\ req[r].target = m2 /\ req[r].to = "staff"

\* A start of an empty or old database: without appointments, with at most one process
\* at a time once something has failed; or with appointments, no branch, no revocation and
\* the steps of InitDB only.
StartupArea ==
    \/ /\ \A a \in Appts : appt[a].status = "none"
       /\ faults = 0 \/ \E p \in Procs : ~Boot!Alive(p)
    \/ /\ b \notin shops /\ bootPerms \in {{}, Perms} /\ bootRole[Platform] \in {"none", "platform_admin"}
       /\ \A i \in DOMAIN todo[Tool] : todo[Tool][i].of = "init"

Bounds ==
    /\ part = "office" => MembersArea \/ AccessArea \/ PlanArea
    /\ part = "startup" => StartupArea

------------------------------------------------------------------------------
\* While a server is up an active appointment has its key and no other has one, and the
\* default services are in a catalogue once, but for what changed under a filling, for catalogues
\* seeded at once and for a shop whose services were counted in vain.
StartsInOrder ==
    part = "startup" => Boot!TypeOK /\ Boot!KeysTellStatus /\ Boot!CatalogueOnce

\* Nobody of a shop past its grace is let past the gate later than the cache allows; and a start
\* after one without a fault, with no edit between them, changes nothing but the catalogue of a
\* shop whose services it counted in vain.
StepsAllowed == [][(part = "office" => LetPast) /\ (part = "startup" => Boot!StartedBefore)]_allVars
=============================================================================
