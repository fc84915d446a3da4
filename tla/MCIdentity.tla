------------------------------ MODULE MCIdentity ------------------------------
(***************************************************************************)
(* Whose message it is, for TLC: the shop it is for, by the account it     *)
(* came through (WecomIngress), and the customer it is from, by his ids    *)
(* and his phone (CustomerIdentity).  The two share no state: a behaviour  *)
(* is about one of them, whose variables alone change.                     *)
(***************************************************************************)
EXTENDS WecomIngress, TLC

\* of CustomerIdentity
CONSTANTS
    Idents, People, Phones, Names, Ids, PersonOf, OpenOf, ExtOf, PhoneOwner, Rows, Blank, NoRow,
    Spellings, Typed, MaxTries, MaxSends

VARIABLES
    part,   \* the component this behaviour is about
    required, cust, orphans, pc, ask, held, plan, live, sent, cooling, tries, known, booked,
    raced   \* of CustomerIdentity

Ident == INSTANCE CustomerIdentity

ASSUME IdentAssumed == Ident!IdentityAssumption

\* The router that is built shop by shop is the one Reload describes.
ASSUME ReloadIsLoop ==
    \A t \in [Shops -> Kfs \cup {NoKf, None}] : t[Main] # None => ReloadLoop(t) = Reload(t)

\* The invariants of the router are checked by their own names: where it is not studied, it is as at first.
RouterOff == Init /\ loaded[Main] = NoKf

Off == "off"

IdentVars ==
    <<required, cust, orphans, pc, ask, held, plan, live, sent, cooling, tries, known, booked, raced>>
IdentOff ==
    /\ required = Off /\ cust = Off /\ orphans = Off /\ pc = Off /\ ask = Off /\ held = Off
    /\ plan = Off /\ live = Off /\ sent = Off /\ cooling = Off /\ tries = Off /\ known = Off
    /\ booked = Off /\ raced = Off

PartInit ==
    \/ part = "shop" /\ Init /\ IdentOff
    \/ part = "customer" /\ Ident!Init /\ RouterOff

PartNext ==
    \/ part = "shop" /\ Next /\ UNCHANGED <<part, IdentVars>>
    \/ part = "customer" /\ Ident!Next /\ UNCHANGED <<part, vars>>

allVars == <<part, vars, IdentVars>>

PartSpec == PartInit /\ [][PartNext]_allVars

------------------------------------------------------------------------------

CONSTANTS
    s1, s2, f1, f2, nokf, noid,
    annKf, annExt, bobKf, ann, bob, phA, phB, nameA, u1, u2, x1, emp, r1, r2

SomeCallbacks ==
    {[id |-> 1, kind |-> "event", kf |-> f1], [id |-> 2, kind |-> "event", kf |-> f2],
     [id |-> 3, kind |-> "text", kf |-> nokf], [id |-> noid, kind |-> "contact", kf |-> nokf]}

\* ann writes through the customer-service account and as an external contact of the employee emp;
\* bob, of the same name, writes through the customer-service account and may give ann's phone.
Person  == annKf :> ann @@ annExt :> ann @@ bobKf :> bob
OpenIds == annKf :> u1 @@ annExt :> emp @@ bobKf :> u2
ExtIds  == annKf :> u1 @@ annExt :> x1 @@ bobKf :> u2
Owner   == phA :> ann @@ phB :> bob
Spelled == [i \in Idents |-> Names]
Dialled == annKf :> {phA} @@ annExt :> {phA, phB} @@ bobKf :> {phA, phB}

\* At most two calls at once, and one of them before it has its code accepted.
Texting == {"verify", "storing", "delivering", "resetting", "counting", "comparing"}

FewAtOnce ==
    part = "customer" =>
        /\ Cardinality({i \in Idents : pc[i] # "idle"}) <= 2
        /\ Cardinality({i \in Idents : pc[i] \in Texting}) <= 1

Symmetry == Permutations(Rows)

------------------------------------------------------------------------------
\* One customer for a phone, a verified phone with its owner, and an appointment with whoever asked
\* for it, but for transactions about one phone that overlap and ids that several share.
PeopleKnown == part = "customer" => Ident!TypeOK /\ Ident!WhoIsWho
=============================================================================
