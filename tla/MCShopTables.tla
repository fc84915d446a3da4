-------------------------------- MODULE MCShopTables ------------------------
(***************************************************************************)
(* The tables an owner works with, for TLC: the cards that are sold and    *)
(* used (CustomerCards), the products they are made from (CardDesk), the   *)
(* barbers, services and tags (MasterData), and the figures of the reports *)
(* (Reports).  None reads what another writes here: a behaviour is about   *)
(* one of them, whose variables alone have a value.                        *)
(***************************************************************************)
EXTENDS CustomerCards, FiniteSets, Sequences, TLC

\* of CardDesk
CONSTANTS
    Shops, Products, Sold, ProductNames, Requests, MaxCents, MaxAsked, NoId

\* of MasterData
CONSTANTS
    Plans, Limit, ServiceNames, MaxRows, MaxMade, Tags

\* of Reports
CONSTANTS
    Branches, Appts, ShopOf, CustomerOf, Customers, Types, Week, First, Baseline, RankLimit,
    PageLimit, MaxTime

VARIABLES
    part,   \* the component this behaviour is about
    pro, products, sold, usedBy, req, asked, offers, raced,    \* of CardDesk
    plan, inUse, retired, rows, tags, masterAsked, masterReq, excused,    \* of MasterData
    now, row, moved, event, sent, counted    \* of Reports

Desk == INSTANCE CardDesk WITH
    Cards <- Sold, Names <- ProductNames
Master == INSTANCE MasterData WITH
    Names <- ServiceNames, asked <- masterAsked, req <- masterReq
Rep == INSTANCE Reports WITH
    Shops <- Branches

ASSUME DeskAssumed == Desk!DeskAssumption
ASSUME MasterAssumed == Master!MasterDataAssumption
ASSUME ReportsAssumed == Rep!ReportsAssumption

Off == "off"

\* Its invariants are checked by their own names: where it is not studied, it is as at first.
CustomerCardsOff == Init

DeskVars == <<pro, products, sold, usedBy, req, asked, offers, raced>>
DeskOff ==
    /\ pro = Off /\ products = Off /\ sold = Off /\ usedBy = Off /\ req = Off /\ asked = Off
    /\ offers = Off /\ raced = Off

MasterVars == <<plan, inUse, retired, rows, tags, masterAsked, masterReq, excused>>
MasterOff ==
    /\ plan = Off /\ inUse = Off /\ retired = Off /\ rows = Off /\ tags = Off
    /\ masterAsked = Off /\ masterReq = Off /\ excused = Off

RepVars == <<now, row, moved, event, sent, counted>>
RepOff ==
    /\ now = Off /\ row = Off /\ moved = Off /\ event = Off /\ sent = Off /\ counted = Off

PartInit ==
    \/ part = "cards" /\ Init /\ DeskOff /\ MasterOff /\ RepOff
    \/ part = "desk" /\ Desk!Init /\ CustomerCardsOff /\ MasterOff /\ RepOff
    \/ part = "master" /\ Master!Init /\ CustomerCardsOff /\ DeskOff /\ RepOff
    \/ part = "reports" /\ Rep!Init /\ CustomerCardsOff /\ DeskOff /\ MasterOff

PartNext ==
    \/ part = "cards" /\ Next /\ UNCHANGED <<part, DeskVars, MasterVars, RepVars>>
    \/ part = "desk" /\ Desk!Next /\ UNCHANGED <<part, vars, MasterVars, RepVars>>
    \/ part = "master" /\ Master!Next /\ UNCHANGED <<part, vars, DeskVars, RepVars>>
    \/ part = "reports" /\ Rep!Next /\ UNCHANGED <<part, vars, DeskVars, MasterVars>>

allVars == <<part, vars, DeskVars, MasterVars, RepVars>>

PartSpec == PartInit /\ [][PartNext]_allVars

------------------------------------------------------------------------------

CONSTANTS o1, o2, c1, c2, k1, r1, r2, n1, n2, p1, p2, s1, s2, north, south, a1, a2

Where == [a \in Appts |-> IF a = a2 THEN south ELSE north]
Whose == [a \in Appts |-> IF a = a1 THEN 1 ELSE 2]

\* The limits of the plans in small: one shop and two barbers, or two shops and any number.
SmallLimit == [p \in Plans |->
    IF p = "basic" THEN [barbers |-> 2, shops |-> 1] ELSE [barbers |-> -1, shops |-> 2]]

Untouched == retired = 0 /\ inUse = [barbers |-> 0, shops |-> 1]

\* Barbers and branches, services, and tags share no state: one of them at a time.
MasterArea ==
    \/ /\ tags = {} /\ masterAsked = {} /\ Len(rows) = 0
       /\ \A r \in Requests : masterReq[r].op \in {"none", "make"}
    \/ /\ Untouched /\ excused \subseteq {"services"} /\ tags = {} /\ masterAsked = {} /\ plan = "basic"
       /\ \A r \in Requests : masterReq[r].op \in {"none", "service", "import"}
    \/ /\ Untouched /\ excused \subseteq {"tags"} /\ Len(rows) = 0 /\ plan = "basic"
       /\ \A r \in Requests : masterReq[r].op \in {"none", "tag"}

\* Appointments or events: neither is counted with the other.
ReportsArea == (\A a \in Appts : row[a].status = "none") \/ (\A x \in DOMAIN event : event[x] = 0)

\* Several cards, or several requests at once; and how far the journal of a card that two have
\* worked on may drift from its balance.
CardsArea ==
    /\ \/ \E c \in Cards : \A d \in Cards \ {c} : status[d] = "absent" /\ d \notin {target[o] : o \in Operators}
       \/ Cardinality({o \in Operators : pc[o] # "idle"}) <= 1 /\ crowded = {} /\ late = {}
    /\ \A c \in Cards : booked[c] \in 0..MaxBalance

Bounds ==
    /\ part = "cards" => CardsArea
    /\ part = "master" => MasterArea
    /\ part = "reports" => ReportsArea

Symmetry ==
    UNION {Permutations(S) : S \in {Requests, ServiceNames, Shops, Products, Cards, Operators}}

------------------------------------------------------------------------------
\* The products: worth their price unless written from a stale read, sold as they are offered, and
\* no other shop's.  The master data: within the plan, with distinct names, on sale only by an import
\* or an activation, and tagged as asked, but for what requests that overlap undo.
OwnersTablesKept ==
    /\ part = "desk" => Desk!TypeOK /\ Desk!WorthItsPrice /\ Desk!SoldAsOffered /\ Desk!OwnShopOnly
    /\ part = "master" =>
          Master!TypeOK /\ Master!WithinPlan /\ Master!NamesDistinct
          /\ Master!OnlyImportedOnSale /\ Master!TagsAsAsked

\* The figures agree with each other: the report of a week with the next one's, the trend
\* and the phases with the total, the chain with its shops, the dashboard with the alert,
\* and no appointment is counted in two weeks.
FiguresAgree ==
    part = "reports" =>
        /\ Rep!TypeOK /\ Rep!CountedOnce /\ Rep!LastWeekAgrees /\ Rep!TrendTells
        /\ Rep!PhasesAddUp /\ Rep!ChainCountsAll /\ Rep!PendingAgrees
=============================================================================
