---------------------------- MODULE ShopTablesProofs ----------------------------
(***************************************************************************)
(* What is proved of the tables an owner works with, for any number of     *)
(* shops, products, cards and requests.                                    *)
(*                                                                         *)
(* Of the prepaid cards: types, empty cards are never active, the journal  *)
(* explains the balance of a card that never was in two hands, and of a    *)
(* product off sale only those cards are in use whose sale met the request *)
(* that took it off.                                                       *)
(* Of the products, the master data and the figures of the reports:        *)
(* OwnersTablesKept and FiguresAgree, from an inductive invariant of each. *)
(***************************************************************************)
EXTENDS MCShopTables, FiniteSetTheorems, WellFoundedInduction, TLAPS

------------------------------------------------------------------------------
(* The prepaid cards *)

LEMMA TypeInit == Init => TypeOK
BY CardsAssumption DEF Init, TypeOK, Labels, Statuses

LEMMA TypeStep == TypeOK /\ [Next]_vars => TypeOK'
<1> SUFFICES ASSUME TypeOK, [Next]_vars PROVE TypeOK'
  OBVIOUS
<1> USE CardsAssumption
<1>1. CASE UNCHANGED vars
  BY <1>1 DEF TypeOK, vars, card, request, met, Labels
<1>2. ASSUME NEW o \in Operators, NEW c \in Cards, ReadProduct(o, c)
      PROVE TypeOK'
  BY <1>2 DEF ReadProduct, Goto, At, TypeOK, card, Labels
<1>3. ASSUME NEW o \in Operators, Sell(o)
      PROVE TypeOK'
  BY <1>3 DEF Sell, Done, Goto, TypeOK, met, Labels, Statuses
<1>4. ASSUME NEW o \in Operators, NEW c \in Cards, NEW d \in Int, Prepare(o, c, d)
      PROVE TypeOK'
  BY <1>4 DEF Prepare, Goto, TypeOK, card, Labels
<1>5. ASSUME NEW o \in Operators, NEW c \in Cards, NEW a \in Amounts,
             ReadForUse(o, c, a) \/ ReadForAdjustment(o, c, a)
      PROVE TypeOK'
  <2>1. a \in Int /\ -a \in Int /\ -Cost(a) \in Int
    BY DEF Cost
  <2>2. PICK d \in Int : Prepare(o, c, d)
    BY <1>5, <2>1 DEF ReadForUse, ReadForAdjustment
  <2>. QED BY <1>4, <2>2
<1>6. ASSUME NEW o \in Operators, Book(o)
      PROVE TypeOK'
  BY <1>6 DEF Book, Done, Goto, TypeOK, met, Labels, Statuses
<1>7. ASSUME NEW o \in Operators,
             CountActive(o) \/ Archive(o) \/ Activate(o) \/ GiveUp(o)
      PROVE TypeOK'
  BY <1>7 DEF CountActive, Archive, Activate, GiveUp, Done, Goto, At, TypeOK, card, request, met, Labels
<1>8. CASE RefreshExpiry \/ \E c \in Cards : Expire(c)
  BY <1>8 DEF RefreshExpiry, Expire, TypeOK, card, request, met, Labels, Statuses
<1>. QED BY <1>1, <1>2, <1>3, <1>5, <1>6, <1>7, <1>8 DEF Next

\* Every reachable state is well typed; in particular no balance is negative,
\* although requests write what they computed from a balance read earlier
\* (customer_card.go:15).
THEOREM CardTypes == Spec => []TypeOK
<1>1. Init => TypeOK
  BY TypeInit
<1>2. TypeOK /\ [Next]_vars => TypeOK'
  BY TypeStep
<1>. QED BY <1>1, <1>2, PTL DEF Spec

\* For any number of operators, a card with nothing left is not active
\* (customer_card.go:242, 369 and 392).
THEOREM EmptyCardsAreClosed == Spec => []EmptyIsNotActive
<1> USE CardsAssumption
<1>1. Init => EmptyIsNotActive
  BY DEF Init, EmptyIsNotActive
<1>2. TypeOK /\ EmptyIsNotActive /\ [Next]_vars => EmptyIsNotActive'
  <2> SUFFICES ASSUME TypeOK, EmptyIsNotActive, [Next]_vars PROVE EmptyIsNotActive'
    OBVIOUS
  <2>1. CASE UNCHANGED card
    BY <2>1 DEF card, EmptyIsNotActive
  <2>2. ASSUME NEW o \in Operators, Sell(o)
        PROVE EmptyIsNotActive'
    BY <2>2 DEF Sell, TypeOK, EmptyIsNotActive
  <2>3. ASSUME NEW o \in Operators, Book(o)
        PROVE EmptyIsNotActive'
    BY <2>3 DEF Book, TypeOK, EmptyIsNotActive
  <2>4. CASE RefreshExpiry
    BY <2>4 DEF RefreshExpiry, TypeOK, EmptyIsNotActive
  <2>. QED
    BY <2>1, <2>2, <2>3, <2>4
    DEF Next, ReadProduct, ReadForUse, ReadForAdjustment, Prepare, CountActive, Archive,
        Activate, GiveUp, Expire, vars, card
<1>. QED BY <1>1, <1>2, CardTypes, PTL DEF Spec

------------------------------------------------------------------------------
(* Requests that overlap *)

\* Of a card that never was in two hands, at most one request has read the balance, and what it has
\* read is still so.
InOneHand ==
    /\ \A o \in At("book") : status[target[o]] # "absent"
    /\ \A c \in Cards \ crowded :
          /\ balance[c] = booked[c]
          /\ \A o \in At("book") : target[o] = c => read[o] = balance[c]
          /\ \A o, p \in At("book") : target[o] = c /\ target[p] = c => o = p

\* While the product is off sale, or is about to be, the cards in use and the sales under way are
\* those that met the request that takes it off.
OffSale == product = "archived" \/ At("archive") # {}

UnusedOffSale ==
    OffSale =>
        /\ \A c \in Cards \ late : status[c] # "active"
        /\ \A o \in At("sell") : target[o] \in late

LEMMA InOneHandStep ==
  ASSUME TypeOK, InOneHand, [Next]_vars
  PROVE  InOneHand'
<1> USE CardsAssumption
<1>1. CASE UNCHANGED vars
  BY <1>1 DEF InOneHand, At, vars, card, request, met
<1>2. ASSUME NEW o \in Operators, NEW c \in Cards, ReadProduct(o, c)
      PROVE InOneHand'
  BY <1>2 DEF ReadProduct, Goto, At, TypeOK, card, InOneHand
<1>3. ASSUME NEW o \in Operators, Sell(o)
      PROVE InOneHand'
  <2>1. PICK c \in Cards : c = target[o] /\ status[c] = "absent"
    BY <1>3 DEF Sell, TypeOK
  <2> QED
    BY <1>3, <2>1 DEF Sell, Done, Goto, At, TypeOK, met, InOneHand
<1>4. ASSUME NEW o \in Operators, NEW c \in Cards, NEW d \in Int, Prepare(o, c, d), pc[o] = "idle", status[c] # "absent"
      PROVE InOneHand'
  BY <1>4 DEF Prepare, Goto, At, TypeOK, card, InOneHand
<1>5. ASSUME NEW o \in Operators, NEW c \in Cards, NEW a \in Amounts,
             ReadForUse(o, c, a) \/ ReadForAdjustment(o, c, a)
      PROVE InOneHand'
  <2>1. a \in Int /\ -a \in Int /\ -Cost(a) \in Int
    BY DEF Cost
  <2>2. PICK d \in Int : Prepare(o, c, d) /\ pc[o] = "idle" /\ status[c] # "absent"
    BY <1>5, <2>1 DEF ReadForUse, ReadForAdjustment
  <2>. QED BY <1>4, <2>2
<1>6. ASSUME NEW o \in Operators, Book(o)
      PROVE InOneHand'
  BY <1>6 DEF Book, Done, Goto, At, TypeOK, met, InOneHand
<1>7. ASSUME NEW o \in Operators, CountActive(o) \/ Archive(o) \/ Activate(o) \/ GiveUp(o)
      PROVE InOneHand'
  BY <1>7 DEF CountActive, Archive, Activate, GiveUp, Done, Goto, At, TypeOK, card, request, met, InOneHand
<1>8. CASE RefreshExpiry \/ \E c \in Cards : Expire(c)
  BY <1>8 DEF RefreshExpiry, Expire, At, TypeOK, card, request, met, InOneHand
<1>. QED BY <1>1, <1>2, <1>3, <1>5, <1>6, <1>7, <1>8 DEF Next

LEMMA UnusedOffSaleStep ==
  ASSUME TypeOK, UnusedOffSale, [Next]_vars
  PROVE  UnusedOffSale'
<1> USE CardsAssumption
<1>1. CASE UNCHANGED vars
  BY <1>1 DEF UnusedOffSale, OffSale, At, vars, card, request, met
<1>2. ASSUME NEW o \in Operators, NEW c \in Cards, ReadProduct(o, c)
      PROVE UnusedOffSale'
  BY <1>2 DEF ReadProduct, Goto, At, TypeOK, card, UnusedOffSale, OffSale
<1>3. ASSUME NEW o \in Operators, Sell(o)
      PROVE UnusedOffSale'
  BY <1>3 DEF Sell, Done, Goto, At, TypeOK, met, UnusedOffSale, OffSale
<1>4. ASSUME NEW o \in Operators, NEW c \in Cards, NEW d \in Int, Prepare(o, c, d), pc[o] = "idle"
      PROVE UnusedOffSale'
  BY <1>4 DEF Prepare, Goto, At, TypeOK, card, UnusedOffSale, OffSale
<1>5. ASSUME NEW o \in Operators, NEW c \in Cards, NEW a \in Amounts,
             ReadForUse(o, c, a) \/ ReadForAdjustment(o, c, a)
      PROVE UnusedOffSale'
  <2>1. a \in Int /\ -a \in Int /\ -Cost(a) \in Int
    BY DEF Cost
  <2>2. PICK d \in Int : Prepare(o, c, d) /\ pc[o] = "idle"
    BY <1>5, <2>1 DEF ReadForUse, ReadForAdjustment
  <2>. QED BY <1>4, <2>2
<1>6. ASSUME NEW o \in Operators, Book(o)
      PROVE UnusedOffSale'
  BY <1>6 DEF Book, Done, Goto, At, TypeOK, met, UnusedOffSale, OffSale
<1>7. ASSUME NEW o \in Operators, CountActive(o)
      PROVE UnusedOffSale'
  BY <1>7 DEF CountActive, Goto, At, TypeOK, card, request, UnusedOffSale, OffSale
<1>8. ASSUME NEW o \in Operators, Archive(o) \/ Activate(o) \/ GiveUp(o)
      PROVE UnusedOffSale'
  BY <1>8 DEF Archive, Activate, GiveUp, Done, Goto, At, TypeOK, card, request, met, UnusedOffSale, OffSale
<1>9. CASE RefreshExpiry \/ \E c \in Cards : Expire(c)
  BY <1>9 DEF RefreshExpiry, Expire, At, TypeOK, card, request, met, UnusedOffSale, OffSale
<1>. QED BY <1>1, <1>2, <1>3, <1>5, <1>6, <1>7, <1>8, <1>9 DEF Next

\* For any number of requests, every balance is the sum of its journal (models.go:583), unless two
\* requests once had the card in hand together: what one has read is then no longer so when it writes.
THEOREM JournalExplainsBalance == Spec => []BalanceIsSum
<1>1. Init => InOneHand
  BY DEF Init, InOneHand, At
<1>2. TypeOK /\ InOneHand /\ [Next]_vars => InOneHand'
  BY InOneHandStep
<1>3. InOneHand => BalanceIsSum
  BY DEF InOneHand, BalanceIsSum
<1>. QED BY <1>1, <1>2, <1>3, CardTypes, PTL DEF Spec

\* For any number of requests, a product off sale has no card in use (ArchiveCard), but one whose sale
\* met the request that took it off between its own two steps.
THEOREM OffSaleIsUnused == Spec => []ArchivedIsUnused
<1>1. Init => UnusedOffSale
  BY DEF Init, UnusedOffSale, OffSale, At
<1>2. TypeOK /\ UnusedOffSale /\ [Next]_vars => UnusedOffSale'
  BY UnusedOffSaleStep
<1>3. UnusedOffSale => ArchivedIsUnused
  BY DEF UnusedOffSale, OffSale, ArchivedIsUnused
<1>. QED BY <1>1, <1>2, <1>3, CardTypes, PTL DEF Spec

------------------------------------------------------------------------------
(* The master data *)

ServiceRow == [name : ServiceNames, on : BOOLEAN]
MakeReqs == [op : {"make"}, step : {"gate", "insert"}, res : Master!Resources, seen : Nat]
ServiceReqs == [op : {"service"}, row : Nat, name : ServiceNames]
ImportReqs ==
    [op : {"import"}, step : {"check"} \cup ServiceNames, replace : BOOLEAN, list : SUBSET ServiceNames,
     retire : SUBSET Nat, todo : SUBSET ServiceNames, new : SUBSET Nat]
TagReqs == [op : {"tag"}, add : BOOLEAN, tag : Tags, value : SUBSET Tags]

MasterReqs == {Master!Idle} \cup MakeReqs \cup ServiceReqs \cup ImportReqs \cup TagReqs

\* What a request of each kind remembers.
MasterTypes ==
    /\ plan \in Plans /\ inUse \in [Master!Resources -> 0..MaxMade] /\ retired \in 0..MaxMade
    /\ inUse["barbers"] + retired <= MaxMade
    /\ rows \in Seq(ServiceRow) /\ Len(rows) <= MaxRows
    /\ tags \subseteq Tags /\ masterAsked \subseteq Tags
    /\ masterReq \in [Requests -> MasterReqs]
    /\ excused \subseteq Master!Resources \cup {"services", "tags"}

\* Where a request means a row by its number there is one.
RowsKnown ==
    \A r \in Requests :
        /\ masterReq[r].op = "service" => masterReq[r].row \in {0} \cup DOMAIN rows
        /\ masterReq[r].op = "import" => masterReq[r].retire \subseteq DOMAIN rows /\ masterReq[r].new \subseteq DOMAIN rows

LEMMA MasterForms ==
    ASSUME NEW q \in MasterReqs
    PROVE  /\ q.op \in Master!Ops
           /\ q.op = "none" => q = Master!Idle
           /\ q.op = "make" => q \in MakeReqs
           /\ q.op = "service" => q \in ServiceReqs
           /\ q.op = "import" => q \in ImportReqs
           /\ q.op = "tag" => q \in TagReqs
BY DEF MasterReqs, Master!Idle, MakeReqs, ServiceReqs, ImportReqs, TagReqs, Master!Ops

LEMMA MasterTypesSuffice == MasterTypes => Master!TypeOK
<1> SUFFICES ASSUME MasterTypes PROVE Master!TypeOK
  OBVIOUS
<1>1. \A r \in Requests : masterReq[r].op \in Master!Ops
  BY MasterForms DEF MasterTypes
<1>2. \A i \in DOMAIN rows : rows[i] \in [name : ServiceNames, on : BOOLEAN]
  <2>1. \A i \in DOMAIN rows : rows[i] \in ServiceRow
    BY DEF MasterTypes
  <2> QED
    BY <2>1 DEF ServiceRow
<1>3. Len(rows) <= MaxRows
  BY DEF MasterTypes
<1> QED
  BY <1>1, <1>2, <1>3, Zenon DEF MasterTypes, Master!TypeOK

LEMMA MasterTypesInit == Master!Init => MasterTypes
<1> SUFFICES ASSUME Master!Init PROVE MasterTypes
  OBVIOUS
<1>1. rows \in Seq([name : ServiceNames, on : BOOLEAN]) /\ Len(rows) <= MaxRows
  <2>1. MaxRows >= 1 /\ MaxRows \in Nat
    BY MasterAssumed DEF Master!MasterDataAssumption
  <2>2. CASE rows = <<>>
    BY <2>1, <2>2
  <2>3. ASSUME NEW n \in ServiceNames, rows = <<[name |-> n, on |-> TRUE]>>
        PROVE  rows \in Seq([name : ServiceNames, on : BOOLEAN]) /\ Len(rows) <= MaxRows
    <3>1. [name |-> n, on |-> TRUE] \in [name : ServiceNames, on : BOOLEAN]
      BY Zenon
    <3> QED
      BY <2>1, <2>3, <3>1
  <2> QED
    BY <2>2, <2>3 DEF Master!Init
<1> QED
  BY <1>1, MasterAssumed DEF Master!Init, MasterTypes, Master!MasterDataAssumption, MasterReqs, Master!Resources, ServiceRow

\* What a request turns into is one of the forms.
LEMMA MasterGoes ==
    ASSUME MasterTypes, NEW r \in Requests, NEW q \in MasterReqs, Master!Go(r, q)
    PROVE  masterReq' \in [Requests -> MasterReqs]
BY DEF MasterTypes, Master!Go

LEMMA MasterAnswers ==
    ASSUME MasterTypes, NEW r \in Requests, Master!Answer(r)
    PROVE  masterReq' \in [Requests -> MasterReqs]
BY DEF MasterTypes, Master!Go, Master!Answer, MasterReqs

LEMMA StaffingTypes ==
    ASSUME MasterTypes, NEW r \in Requests, Master!Staffing(r)
    PROVE  MasterTypes'
<1>1. ASSUME NEW res \in Master!Resources, Master!Count(r, res)
      PROVE  MasterTypes'
  <2>1. [op |-> "make", step |-> "gate", res |-> res, seen |-> Master!Counted(res)] \in MasterReqs
    BY DEF Master!Counted, MasterTypes, MasterReqs, MakeReqs
  <2> QED
    BY <1>1, <2>1, MasterGoes DEF Master!Count, MasterTypes, Master!staffing, Master!labels
<1>2. CASE Master!Gate(r)
  <2>1. masterReq[r] \in MakeReqs
    BY <1>2, MasterForms DEF Master!Gate, MasterTypes
  <2>2. [masterReq[r] EXCEPT !.step = "insert"] \in MasterReqs
    BY <2>1 DEF MakeReqs, MasterReqs
  <2>3. masterReq' \in [Requests -> MasterReqs]
    BY <1>2, <2>2, MasterGoes, MasterAnswers DEF Master!Gate
  <2> QED
    BY <1>2, <2>3 DEF Master!Gate, MasterTypes, Master!staffing, Master!labels
<1>3. CASE Master!Make(r)
  <2>1. masterReq[r] \in MakeReqs
    BY <1>3, MasterForms DEF Master!Make, MasterTypes
  <2>2. masterReq[r].res \in Master!Resources
    BY <2>1 DEF MakeReqs
  <2>3. masterReq' \in [Requests -> MasterReqs]
    BY <1>3, MasterAnswers DEF Master!Make
  <2>4. inUse' \in [Master!Resources -> 0..MaxMade] /\ inUse'["barbers"] + retired <= MaxMade
    BY SMTT(30), <1>3, <2>2, MasterAssumed DEF Master!Make, Master!Made, MasterTypes, Master!MasterDataAssumption, Master!Resources
  <2> QED
    BY <1>3, <2>3, <2>4 DEF Master!Make, MasterTypes, Master!labels
<1> QED
  BY <1>1, <1>2, <1>3 DEF Master!Staffing

LEMMA ShopTypes ==
    ASSUME MasterTypes, Master!Retire \/ Master!Activate \/ (\E p \in Plans : Master!ChangePlan(p)) \/ Master!Blacklist
    PROVE  MasterTypes'
<1>1. CASE Master!Retire
  BY <1>1, MasterAssumed DEF Master!Retire, MasterTypes, Master!MasterDataAssumption, Master!Resources, Master!labels
<1>2. CASE Master!Activate
  BY <1>2, MasterAssumed DEF Master!Activate, MasterTypes, Master!MasterDataAssumption, Master!Resources, Master!labels
<1>3. CASE \E p \in Plans : Master!ChangePlan(p)
  BY <1>3 DEF Master!ChangePlan, MasterTypes, Master!labels
<1>4. CASE Master!Blacklist
  BY <1>4, MasterAssumed DEF Master!Blacklist, MasterTypes, Master!MasterDataAssumption, Master!staffing
<1> QED
  BY <1>1, <1>2, <1>3, <1>4

LEMMA ServiceRowsKept ==
    ASSUME NEW f \in Seq(ServiceRow)
    PROVE  /\ DOMAIN f = 1..Len(f) /\ Len(f) \in Nat
           /\ \A i \in DOMAIN f : f[i] \in ServiceRow /\ i \in Nat
           /\ \A x \in ServiceRow : Append(f, x) \in Seq(ServiceRow)
           /\ \A i \in DOMAIN f, x \in ServiceRow :
                 [f EXCEPT ![i] = x] \in Seq(ServiceRow) /\ Len([f EXCEPT ![i] = x]) = Len(f)
OBVIOUS

LEMMA ServiceRowForms ==
    ASSUME NEW x \in ServiceRow
    PROVE  /\ x.name \in ServiceNames
           /\ \A n \in ServiceNames : [x EXCEPT !.name = n] \in ServiceRow /\ [x EXCEPT !.name = n].name = n
                               /\ ([x EXCEPT !.name = n].on <=> x.on)
           /\ [x EXCEPT !.on = TRUE] \in ServiceRow /\ [x EXCEPT !.on = TRUE].name = x.name /\ [x EXCEPT !.on = TRUE].on
           /\ [x EXCEPT !.on = FALSE] \in ServiceRow /\ [x EXCEPT !.on = FALSE].name = x.name /\ ~[x EXCEPT !.on = FALSE].on
BY DEF ServiceRow

LEMMA ServiceRowMade ==
    ASSUME NEW n \in ServiceNames
    PROVE  /\ [name |-> n, on |-> TRUE] \in ServiceRow
           /\ [name |-> n, on |-> TRUE].name = n /\ [name |-> n, on |-> TRUE].on
BY DEF ServiceRow

\* A service is added at the end, or one of those there are is changed.
LEMMA AddsRow ==
    ASSUME rows \in Seq(ServiceRow), NEW n \in ServiceNames, Master!Add(n)
    PROVE  /\ rows' \in Seq(ServiceRow) /\ Len(rows) < MaxRows
           /\ DOMAIN rows' = DOMAIN rows \cup {Len(rows) + 1} /\ Len(rows) + 1 \notin DOMAIN rows
           /\ Len(rows') = Len(rows) + 1 /\ Len(rows) \in Nat
           /\ \A i \in DOMAIN rows : rows'[i] = rows[i]
           /\ rows'[Len(rows) + 1].name = n /\ rows'[Len(rows) + 1].on
<1> DEFINE x == [name |-> n, on |-> TRUE]
<1>1. x \in ServiceRow /\ x.name = n /\ x.on
  BY ServiceRowMade
<1>2. rows' = Append(rows, x) /\ Len(rows) < MaxRows
  BY DEF Master!Add
<1> HIDE DEF x
<1>3. /\ rows' \in Seq(ServiceRow) /\ Len(rows') = Len(rows) + 1 /\ Len(rows) \in Nat
      /\ DOMAIN rows' = DOMAIN rows \cup {Len(rows) + 1} /\ Len(rows) + 1 \notin DOMAIN rows
      /\ \A i \in DOMAIN rows : rows'[i] = rows[i]
      /\ rows'[Len(rows) + 1] = x
  BY <1>1, <1>2
<1> QED
  BY <1>1, <1>2, <1>3

LEMMA ChangesRow ==
    ASSUME rows \in Seq(ServiceRow), NEW i \in DOMAIN rows, NEW x \in ServiceRow, rows' = [rows EXCEPT ![i] = x]
    PROVE  /\ rows' \in Seq(ServiceRow) /\ DOMAIN rows' = DOMAIN rows /\ Len(rows') = Len(rows)
           /\ rows'[i] = x /\ \A j \in DOMAIN rows \ {i} : rows'[j] = rows[j]
OBVIOUS

LEMMA RenamesRow ==
    ASSUME rows \in Seq(ServiceRow), NEW i \in DOMAIN rows, NEW n \in ServiceNames, rows' = [rows EXCEPT ![i].name = n]
    PROVE  /\ rows' \in Seq(ServiceRow) /\ DOMAIN rows' = DOMAIN rows /\ Len(rows') = Len(rows)
           /\ rows'[i].name = n /\ (rows'[i].on <=> rows[i].on)
           /\ \A j \in DOMAIN rows \ {i} : rows'[j] = rows[j]
<1>1. PICK x : x = [rows[i] EXCEPT !.name = n]
  OBVIOUS
<1>2. rows' = [rows EXCEPT ![i] = x]
  BY <1>1
<1>3. rows[i] \in ServiceRow
  OBVIOUS
<1>4. x \in ServiceRow /\ x.name = n /\ (x.on <=> rows[i].on)
  BY <1>1, <1>3, ServiceRowForms, Zenon
<1>5. /\ rows' \in Seq(ServiceRow) /\ DOMAIN rows' = DOMAIN rows /\ Len(rows') = Len(rows)
      /\ rows'[i] = x /\ \A j \in DOMAIN rows \ {i} : rows'[j] = rows[j]
  BY <1>2, <1>4, ChangesRow
<1> QED
  BY <1>4, <1>5, Zenon

LEMMA SwitchesRow ==
    ASSUME rows \in Seq(ServiceRow), NEW i \in DOMAIN rows, NEW on \in BOOLEAN, rows' = [rows EXCEPT ![i].on = on]
    PROVE  /\ rows' \in Seq(ServiceRow) /\ DOMAIN rows' = DOMAIN rows /\ Len(rows') = Len(rows)
           /\ rows'[i].name = rows[i].name /\ (rows'[i].on <=> on)
           /\ \A j \in DOMAIN rows \ {i} : rows'[j] = rows[j]
<1>1. PICK x : x = [rows[i] EXCEPT !.on = on]
  OBVIOUS
<1>2. rows' = [rows EXCEPT ![i] = x]
  BY <1>1
<1>3. rows[i] \in ServiceRow
  OBVIOUS
<1>4. x \in ServiceRow /\ x.name = rows[i].name /\ (x.on <=> on)
  <2>1. CASE on = TRUE
    BY <1>1, <1>3, <2>1, ServiceRowForms, Zenon
  <2>2. CASE on = FALSE
    BY <1>1, <1>3, <2>2, ServiceRowForms, Zenon
  <2> QED
    BY <2>1, <2>2
<1>5. /\ rows' \in Seq(ServiceRow) /\ DOMAIN rows' = DOMAIN rows /\ Len(rows') = Len(rows)
      /\ rows'[i] = x /\ \A j \in DOMAIN rows \ {i} : rows'[j] = rows[j]
  BY <1>2, <1>4, ChangesRow
<1> QED
  BY <1>4, <1>5, Zenon

LEMMA CatalogueTypes ==
    ASSUME MasterTypes, RowsKnown, NEW r \in Requests, Master!Catalogue(r)
    PROVE  MasterTypes'
<1>0. rows \in Seq(ServiceRow) /\ masterReq[r] \in MasterReqs
  BY DEF MasterTypes
<1>1. ASSUME NEW n \in ServiceNames, NEW i \in {0} \cup DOMAIN rows,
             Master!Go(r, [op |-> "service", row |-> i, name |-> n]), Master!Excuse("services", Master!Busy(r, Master!ServiceOps)),
             UNCHANGED <<Master!staffing, rows, Master!labels>>
      PROVE  MasterTypes'
  <2>1. i \in Nat
    BY <1>0, ServiceRowsKept
  <2>2. [op |-> "service", row |-> i, name |-> n] \in MasterReqs
    BY <2>1 DEF MasterReqs, ServiceReqs
  <2> QED
    BY <1>1, <2>2, MasterGoes DEF MasterTypes, Master!staffing, Master!labels, Master!Excuse
<1>2. CASE Master!WriteService(r)
  <2>1. masterReq[r] \in ServiceReqs
    BY <1>0, <1>2, MasterForms DEF Master!WriteService
  <2>2. masterReq[r].name \in ServiceNames
    BY <2>1 DEF ServiceReqs
  <2>3. masterReq' \in [Requests -> MasterReqs]
    BY <1>2, MasterAnswers DEF Master!WriteService
  <2>4. rows' \in Seq(ServiceRow) /\ Len(rows') <= MaxRows
    <3>1. CASE masterReq[r].row = 0
      <4>1. Master!Add(masterReq[r].name)
        BY <1>2, <3>1 DEF Master!WriteService
      <4>2. rows' \in Seq(ServiceRow) /\ Len(rows) < MaxRows /\ Len(rows') = Len(rows) + 1 /\ Len(rows) \in Nat
        BY <1>0, <2>2, <4>1, AddsRow
      <4> QED
        BY <4>2, MasterAssumed DEF Master!MasterDataAssumption
    <3>2. CASE masterReq[r].row # 0
      <4>1. masterReq[r].row \in DOMAIN rows
        BY <1>2, <3>2 DEF Master!WriteService, RowsKnown
      <4>2. rows' = [rows EXCEPT ![masterReq[r].row].name = masterReq[r].name]
        BY <1>2, <3>2 DEF Master!WriteService
      <4>3. rows' \in Seq(ServiceRow) /\ Len(rows') = Len(rows)
        BY <1>0, <2>2, <4>1, <4>2, RenamesRow
      <4> QED
        BY <4>3 DEF MasterTypes
    <3> QED
      BY <3>1, <3>2
  <2> QED
    BY <1>2, <2>3, <2>4 DEF Master!WriteService, MasterTypes, Master!staffing, Master!labels
<1>3. ASSUME NEW replace \in BOOLEAN, NEW list \in SUBSET ServiceNames, Master!StartImport(r, replace, list)
      PROVE  MasterTypes'
  <2>1. Master!ToRetire(replace, list) \in SUBSET Nat
    BY <1>0, ServiceRowsKept DEF Master!ToRetire, Master!On
  <2>2. [op |-> "import", step |-> "check", replace |-> replace, list |-> list,
         retire |-> Master!ToRetire(replace, list), todo |-> list, new |-> {}] \in ImportReqs
    BY <2>1 DEF ImportReqs
  <2>3. masterReq' \in [Requests -> MasterReqs]
    BY <1>3, <2>2, MasterGoes DEF Master!StartImport, MasterReqs
  <2> QED
    BY <1>3, <2>3 DEF Master!StartImport, MasterTypes, Master!staffing, Master!labels, Master!Excuse
<1>4. ASSUME NEW i \in DOMAIN rows, Master!ImportRetire(r, i)
      PROVE  MasterTypes'
  <2>1. masterReq[r] \in ImportReqs
    BY <1>0, <1>4, MasterForms DEF Master!ImportRetire
  <2>2. [masterReq[r] EXCEPT !.retire = @ \ {i}] \in MasterReqs
    BY <2>1 DEF MasterReqs, ImportReqs
  <2>3. masterReq' \in [Requests -> MasterReqs]
    BY <1>4, <2>2, MasterGoes DEF Master!ImportRetire
  <2>4. rows' \in Seq(ServiceRow) /\ Len(rows') <= MaxRows
    BY <1>0, <1>4, SwitchesRow DEF Master!ImportRetire, MasterTypes
  <2> QED
    BY <1>4, <2>3, <2>4 DEF Master!ImportRetire, MasterTypes, Master!staffing, Master!labels
<1>5. ASSUME NEW n \in ServiceNames, Master!ImportCheck(r, n)
      PROVE  MasterTypes'
  <2>1. masterReq[r] \in ImportReqs
    BY <1>0, <1>5, MasterForms DEF Master!ImportCheck
  <2>2. ASSUME NEW x \in {"check"} \cup ServiceNames
        PROVE  [masterReq[r] EXCEPT !.todo = @ \ {n}, !.step = x] \in MasterReqs
    BY <2>1 DEF MasterReqs, ImportReqs
  <2>3. masterReq' \in [Requests -> MasterReqs]
    BY <1>5, <2>2, MasterGoes DEF Master!ImportCheck
  <2> QED
    BY <1>5, <2>3 DEF Master!ImportCheck, MasterTypes, Master!staffing, Master!labels
<1>6. CASE Master!ImportInsert(r)
  <2>1. masterReq[r] \in ImportReqs
    BY <1>0, <1>6, MasterForms DEF Master!ImportInsert
  <2>2. rows' \in Seq(ServiceRow) /\ Len(rows) < MaxRows /\ Len(rows') = Len(rows) + 1 /\ Len(rows) \in Nat
    <3>1. masterReq[r].step \in ServiceNames /\ Master!Add(masterReq[r].step)
      BY <1>6 DEF Master!ImportInsert
    <3> QED
      BY <1>0, <3>1, AddsRow
  <2>3. [masterReq[r] EXCEPT !.step = "check", !.new = @ \cup {Len(rows) + 1}] \in MasterReqs
    <3>1. PICK l \in Nat : l = Len(rows) + 1
      BY <2>2
    <3>2. masterReq[r].new \cup {l} \in SUBSET Nat
      BY <2>1 DEF ImportReqs
    <3>3. PICK new \in SUBSET Nat : new = masterReq[r].new \cup {l}
      BY <3>2
    <3>4. [masterReq[r] EXCEPT !.step = "check", !.new = new] \in ImportReqs
      BY <2>1 DEF ImportReqs
    <3> QED
      BY <3>1, <3>3, <3>4 DEF MasterReqs
  <2>4. masterReq' \in [Requests -> MasterReqs]
    BY <1>6, <2>3, MasterGoes DEF Master!ImportInsert
  <2>5. Len(rows') <= MaxRows
    BY <2>2, MasterAssumed DEF Master!MasterDataAssumption
  <2>6. UNCHANGED <<plan, inUse, retired, tags, masterAsked, excused>>
    BY <1>6 DEF Master!ImportInsert, Master!staffing, Master!labels
  <2> QED
    BY <2>2, <2>4, <2>5, <2>6 DEF MasterTypes
<1>7. CASE Master!ImportAnswer(r)
  BY <1>7, MasterAnswers DEF Master!ImportAnswer, MasterTypes, Master!staffing, Master!labels
<1> QED
  BY <1>1, <1>2, <1>3, <1>4, <1>5, <1>6, <1>7 DEF Master!Catalogue, Master!CheckNew, Master!CheckRename

LEMMA TaggingTypes ==
    ASSUME MasterTypes, NEW r \in Requests, Master!Tagging(r)
    PROVE  MasterTypes'
<1>1. ASSUME NEW add \in BOOLEAN, NEW t \in Tags, Master!ReadTags(r, add, t)
      PROVE  MasterTypes'
  <2>1. Master!Retagged(add, t) \in SUBSET Tags
    BY DEF Master!Retagged, MasterTypes
  <2>2. [op |-> "tag", add |-> add, tag |-> t, value |-> Master!Retagged(add, t)] \in TagReqs
    BY <2>1 DEF TagReqs
  <2>3. masterReq' \in [Requests -> MasterReqs]
    BY <1>1, <2>2, MasterGoes DEF Master!ReadTags, MasterReqs
  <2> QED
    BY <1>1, <2>3 DEF Master!ReadTags, MasterTypes, Master!staffing, Master!labels, Master!Excuse
<1>2. CASE Master!WriteTags(r)
  <2>1. masterReq[r] \in TagReqs
    BY <1>2, MasterForms DEF Master!WriteTags, MasterTypes
  <2>2. masterReq[r].value \subseteq Tags /\ masterReq[r].tag \in Tags
    BY <2>1 DEF TagReqs
  <2>3. masterReq' \in [Requests -> MasterReqs]
    BY <1>2, MasterAnswers DEF Master!WriteTags
  <2> QED
    BY <1>2, <2>2, <2>3 DEF Master!WriteTags, MasterTypes, Master!staffing
<1> QED
  BY <1>1, <1>2 DEF Master!Tagging

LEMMA MasterTypesStep == MasterTypes /\ RowsKnown /\ [Master!Next]_Master!vars => MasterTypes'
<1> SUFFICES ASSUME MasterTypes, RowsKnown, [Master!Next]_Master!vars PROVE MasterTypes'
  OBVIOUS
<1>1. ASSUME NEW i \in DOMAIN rows, NEW on \in BOOLEAN, Master!Switch(i, on)
      PROVE  MasterTypes'
  <2>1. rows' \in Seq(ServiceRow) /\ Len(rows') <= MaxRows
    BY <1>1, SwitchesRow DEF Master!Switch, MasterTypes
  <2> QED
    BY <1>1, <2>1 DEF Master!Switch, MasterTypes, Master!staffing, Master!labels
<1>2. CASE UNCHANGED Master!vars
  BY <1>2 DEF Master!vars, MasterTypes, Master!staffing, Master!labels
<1> QED
  BY <1>1, <1>2, StaffingTypes, CatalogueTypes, TaggingTypes, ShopTypes DEF Master!Next

------------------------------------------------------------------------------
(* Within the plan *)

\* The requests whose count leaves room for one more.
Passing(res) ==
    {r \in Requests : masterReq[r].op = "make" /\ masterReq[r].res = res /\ masterReq[r].seen < Limit[plan][res]}

\* What there is and what may still come of it; who is past the gate has seen room.
RoomLeft(res) ==
    Limit[plan][res] >= 0 =>
        inUse[res] + Cardinality(Passing(res)) < Limit[plan][res] + Cardinality(Requests)

SawRoom(r) ==
    masterReq[r].op = "make" /\ masterReq[r].step = "insert" /\ masterReq[r].res \notin excused /\ Limit[plan][masterReq[r].res] >= 0
        => masterReq[r].seen < Limit[plan][masterReq[r].res]

StaffInv ==
    /\ \A res \in Master!Resources \ excused : RoomLeft(res)
    /\ \A r \in Requests : SawRoom(r)

\* The words of the standard modules mean the same in the instance.
LEMMA MasterSame ==
    \A S : (Master!IsFiniteSet(S) <=> IsFiniteSet(S)) /\ Master!Cardinality(S) = Cardinality(S)
<1>1. \A S : Master!IsFiniteSet(S) <=> IsFiniteSet(S)
  BY DEF Master!IsFiniteSet, IsFiniteSet
<1>2. \A S : Master!Cardinality(S) = Cardinality(S)
  BY DEF Master!Cardinality, Cardinality
<1> QED
  BY <1>1, <1>2

LEMMA PassingIsFinite ==
    ASSUME NEW res
    PROVE  /\ IsFiniteSet(Passing(res)) /\ Cardinality(Passing(res)) \in Nat
           /\ Cardinality(Passing(res)) <= Cardinality(Requests)
           /\ Cardinality(Requests) \in Nat /\ Cardinality(Requests) > 0
<1>1. IsFiniteSet(Requests) /\ Requests # {}
  BY MasterAssumed, MasterSame DEF Master!MasterDataAssumption
<1>2. Passing(res) \subseteq Requests
  BY DEF Passing
<1> QED
  BY <1>1, <1>2, FS_Subset, FS_CardinalityType, FS_EmptySet

LEMMA LimitIsNumber ==
    ASSUME MasterTypes, NEW res \in Master!Resources
    PROVE  Limit[plan][res] \in Int /\ inUse[res] \in Nat
BY MasterAssumed DEF MasterTypes, Master!MasterDataAssumption

LEMMA StaffInit == Master!Init => StaffInv
<1> SUFFICES ASSUME Master!Init PROVE StaffInv
  OBVIOUS
<1>1. \A r \in Requests : masterReq[r].op # "make"
  BY DEF Master!Init, Master!Idle
<1>2. ASSUME NEW res \in Master!Resources
      PROVE  RoomLeft(res)
  <2>1. Passing(res) = {}
    BY <1>1 DEF Passing
  <2>2. Cardinality(Passing(res)) = 0 /\ Cardinality(Requests) \in Nat /\ Cardinality(Requests) > 0
    BY <2>1, FS_EmptySet, PassingIsFinite
  <2>3. plan \in Plans /\ Limit[plan][res] \in Int /\ (res = "shops" => Limit[plan][res] # 0)
    <3>1. plan \in Plans /\ Limit \in [Plans -> [Master!Resources -> Int]] /\ Limit[plan]["shops"] # 0
      BY MasterAssumed DEF Master!MasterDataAssumption, Master!Init
    <3> QED
      BY <3>1
  <2>4. inUse[res] = 0 \/ (res = "shops" /\ inUse[res] = 1)
    BY DEF Master!Init
  <2> QED
    BY <2>2, <2>3, <2>4 DEF RoomLeft
<1> QED
  BY <1>1, <1>2 DEF StaffInv, SawRoom

\* No more in use and no more to come: there is as much room as before.
LEMMA RoomStays ==
    ASSUME MasterTypes, MasterTypes', NEW res \in Master!Resources, RoomLeft(res), UNCHANGED plan,
           inUse'[res] <= inUse[res], Passing(res)' \subseteq Passing(res)
    PROVE  RoomLeft(res)'
<1>1. Limit[plan][res] \in Int /\ inUse[res] \in Nat
  BY LimitIsNumber
<1>2. inUse'[res] \in Nat
  BY DEF MasterTypes
<1>3. IsFiniteSet(Passing(res)) /\ Cardinality(Passing(res)) \in Nat /\ Cardinality(Requests) \in Nat
  BY PassingIsFinite
<1>4. Cardinality(Passing(res)') \in Nat /\ Cardinality(Passing(res)') <= Cardinality(Passing(res))
  BY <1>3, FS_Subset, FS_CardinalityType
<1>5. PICK c \in Nat, d \in Nat : c = Cardinality(Passing(res)) /\ d = Cardinality(Passing(res)')
  BY <1>3, <1>4
<1>6. Limit[plan'][res] = Limit[plan][res]
  OBVIOUS
<1> QED
  BY <1>1, <1>2, <1>3, <1>4, <1>5, <1>6 DEF RoomLeft

\* A request that becomes another does not count as one to come.
LEMMA PassingWithout ==
    ASSUME MasterTypes, NEW r \in Requests, NEW q, Master!Go(r, q), q.op # "make", UNCHANGED plan, NEW res
    PROVE  Passing(res)' = Passing(res) \ {r} /\ (\A p \in Requests \ {r} : masterReq'[p] = masterReq[p])
BY DEF Passing, Master!Go, MasterTypes

LEMMA StaffApart ==
    ASSUME MasterTypes, MasterTypes', StaffInv, UNCHANGED plan, excused \subseteq excused',
           \A res \in Master!Resources \ excused' : inUse'[res] <= inUse[res] /\ Passing(res)' \subseteq Passing(res),
           \A r \in Requests : masterReq'[r].op = "make" => masterReq'[r] = masterReq[r]
    PROVE  StaffInv'
<1>1. \A res \in Master!Resources \ excused' : RoomLeft(res)'
  BY RoomStays DEF StaffInv
<1>2. \A r \in Requests : SawRoom(r)'
  BY DEF StaffInv, SawRoom
<1> QED
  BY <1>1, <1>2 DEF StaffInv

LEMMA StaffElsewhere ==
    ASSUME MasterTypes, MasterTypes', StaffInv, UNCHANGED Master!staffing, excused \subseteq excused',
           NEW r \in Requests, NEW q, Master!Go(r, q), q.op # "make"
    PROVE  StaffInv'
<1>1. UNCHANGED <<plan, inUse>>
  BY DEF Master!staffing
<1>2. \A res : Passing(res)' \subseteq Passing(res)
  BY <1>1, PassingWithout, Zenon
<1>3. \A p \in Requests : masterReq'[p].op = "make" => masterReq'[p] = masterReq[p]
  BY DEF Master!Go, MasterTypes
<1>4. \A res \in Master!Resources \ excused' : inUse'[res] <= inUse[res] /\ Passing(res)' \subseteq Passing(res)
  BY <1>1, <1>2, LimitIsNumber
<1> QED
  BY <1>1, <1>3, <1>4, StaffApart

LEMMA StaffingKeeps ==
    ASSUME MasterTypes, MasterTypes', StaffInv, NEW r \in Requests, Master!Staffing(r)
    PROVE  StaffInv'
<1>0. masterReq \in [Requests -> MasterReqs]
  BY DEF MasterTypes
<1>1. ASSUME NEW res \in Master!Resources, Master!Count(r, res)
      PROVE  StaffInv'
  <2>1. /\ masterReq' = [masterReq EXCEPT ![r] = [op |-> "make", step |-> "gate", res |-> res, seen |-> inUse[res]]]
        /\ UNCHANGED <<plan, inUse, excused>>
    BY <1>1 DEF Master!Count, Master!Go, Master!Counted, Master!staffing
  <2>2. masterReq'[r].op = "make" /\ masterReq'[r].step = "gate" /\ masterReq'[r].res = res /\ masterReq'[r].seen = inUse[res]
    BY <1>0, <2>1
  <2>3. \A p \in Requests \ {r} : masterReq'[p] = masterReq[p]
    BY <1>0, <2>1
  <2>4. masterReq[r].op = "none"
    BY <1>1 DEF Master!Count, Master!Idle
  <2>5. \A x \in Master!Resources : inUse'[x] <= inUse[x]
    BY <2>1, LimitIsNumber
  <2>6. ASSUME NEW x \in Master!Resources \ excused, x # res \/ ~(inUse[res] < Limit[plan][res])
        PROVE  RoomLeft(x)'
    <3>1. Passing(x)' \subseteq Passing(x)
      BY <2>1, <2>2, <2>3, <2>6 DEF Passing
    <3> QED
      BY <2>1, <2>5, <3>1, RoomStays DEF StaffInv
  <2>7. ASSUME inUse[res] < Limit[plan][res]
        PROVE  RoomLeft(res)'
    <3>1. Cardinality(Passing(res)') \in Nat /\ Cardinality(Passing(res)') <= Cardinality(Requests)
          /\ Cardinality(Requests) \in Nat
      <4>1. (/\ IsFiniteSet(Passing(res)) /\ Cardinality(Passing(res)) \in Nat
             /\ Cardinality(Passing(res)) <= Cardinality(Requests)
             /\ Cardinality(Requests) \in Nat /\ Cardinality(Requests) > 0)'
        BY PassingIsFinite, PTL
      <4> QED
        BY <4>1
    <3>2. Limit[plan][res] \in Int /\ inUse[res] \in Nat /\ inUse'[res] = inUse[res] /\ plan' = plan
      BY <2>1, LimitIsNumber
    <3>3. PICK d \in Nat : d = Cardinality(Passing(res)')
      BY <3>1
    <3> QED
      BY <2>7, <3>1, <3>2, <3>3 DEF RoomLeft
  <2>8. \A p \in Requests : SawRoom(p)'
    BY <2>1, <2>2, <2>3 DEF StaffInv, SawRoom
  <2> QED
    BY <2>1, <2>6, <2>7, <2>8 DEF StaffInv
<1>2. CASE Master!Gate(r)
  <2>1. masterReq[r] \in MakeReqs
    BY <1>0, <1>2, MasterForms DEF Master!Gate
  <2>2. UNCHANGED <<plan, inUse, excused>>
    BY <1>2 DEF Master!Gate, Master!staffing
  <2>3. CASE Master!Allowed(masterReq[r].res, masterReq[r].seen)
    <3>1. masterReq' = [masterReq EXCEPT ![r] = [masterReq[r] EXCEPT !.step = "insert"]]
      BY <1>2, <2>3 DEF Master!Gate, Master!Go
    <3>2. PICK q : q = [masterReq[r] EXCEPT !.step = "insert"]
      OBVIOUS
    <3>3. q.op = "make" /\ q.res = masterReq[r].res /\ q.seen = masterReq[r].seen /\ q.seen \in Nat /\ q.res \in Master!Resources
      BY <2>1, <3>2 DEF MakeReqs
    <3>4. masterReq'[r] = q /\ \A p \in Requests \ {r} : masterReq'[p] = masterReq[p]
      BY <1>0, <3>1, <3>2
    <3>5. \A x : Passing(x)' \subseteq Passing(x)
      BY <1>2, <2>2, <3>3, <3>4 DEF Passing, Master!Gate
    <3>6. \A x \in Master!Resources \ excused' : RoomLeft(x)'
      BY <2>2, <3>5, RoomStays, LimitIsNumber DEF StaffInv
    <3>7. SawRoom(r)'
      <4>1. Limit[plan][q.res] \in Int
        BY <3>3, LimitIsNumber
      <4> QED
        BY <2>2, <2>3, <3>3, <3>4, <4>1 DEF SawRoom, Master!Allowed
    <3>8. \A p \in Requests : SawRoom(p)'
      BY <2>2, <3>4, <3>7 DEF StaffInv, SawRoom
    <3> QED
      BY <3>6, <3>8 DEF StaffInv
  <2>4. CASE ~Master!Allowed(masterReq[r].res, masterReq[r].seen)
    <3>1. Master!Go(r, Master!Idle) /\ Master!Idle.op # "make"
      BY <1>2, <2>4 DEF Master!Gate, Master!Answer, Master!Idle
    <3> QED
      BY <1>2, <3>1, StaffElsewhere DEF Master!Gate
  <2> QED
    BY <2>3, <2>4
<1>3. CASE Master!Make(r)
  <2>1. masterReq[r] \in MakeReqs
    BY <1>0, <1>3, MasterForms DEF Master!Make
  <2>2. PICK res \in Master!Resources : res = masterReq[r].res
    BY <2>1 DEF MakeReqs
  <2>3. UNCHANGED <<plan, excused>> /\ Master!Go(r, Master!Idle) /\ Master!Idle.op # "make"
    BY <1>3 DEF Master!Make, Master!Answer, Master!Idle
  <2>4. \A x : Passing(x)' = Passing(x) \ {r}
    BY <2>3, PassingWithout, Zenon
  <2>5. \A p \in Requests : masterReq'[p].op = "make" => masterReq'[p] = masterReq[p]
    BY <1>0, <2>3 DEF Master!Go
  <2>6. \A p \in Requests : SawRoom(p)'
    BY <2>3, <2>5 DEF StaffInv, SawRoom
  <2>7. CASE UNCHANGED inUse
    <3>1. \A x \in Master!Resources \ excused' : inUse'[x] <= inUse[x] /\ Passing(x)' \subseteq Passing(x)
      BY <2>4, <2>7, LimitIsNumber
    <3> QED
      BY <2>3, <2>5, <3>1, StaffApart
  <2>8. CASE inUse' = [inUse EXCEPT ![res] = @ + 1]
    <3>1. inUse'[res] = inUse[res] + 1 /\ \A x \in Master!Resources \ {res} : inUse'[x] = inUse[x]
      BY <2>8 DEF MasterTypes
    <3>2. ASSUME NEW x \in Master!Resources \ excused, x # res
          PROVE  RoomLeft(x)'
      <4>1. inUse'[x] <= inUse[x]
        BY <3>1, <3>2, LimitIsNumber
      <4> QED
        BY <2>3, <2>4, <3>2, <4>1, RoomStays DEF StaffInv
    <3>3. ASSUME res \notin excused
          PROVE  RoomLeft(res)'
      <4>1. /\ IsFiniteSet(Passing(res)) /\ Cardinality(Passing(res)) \in Nat
            /\ Cardinality(Requests) \in Nat
        BY PassingIsFinite
      <4>2. Limit[plan][res] \in Int /\ inUse[res] \in Nat
        BY LimitIsNumber
      <4>3. CASE Limit[plan][res] >= 0
        <5>1. r \in Passing(res)
          BY <1>3, <2>2, <3>3, <4>3 DEF StaffInv, SawRoom, Passing, Master!Make
        <5>2. Cardinality(Passing(res)') = Cardinality(Passing(res)) - 1
          BY <2>4, <4>1, <5>1, FS_RemoveElement
        <5>3. RoomLeft(res)
          BY <3>3 DEF StaffInv
        <5>4. PICK c \in Nat : c = Cardinality(Passing(res))
          BY <4>1
        <5>5. Limit[plan'][res] = Limit[plan][res]
          BY <2>3
        <5> QED
          BY <3>1, <4>1, <4>2, <4>3, <5>2, <5>3, <5>4, <5>5 DEF RoomLeft
      <4>4. CASE ~(Limit[plan][res] >= 0)
        BY <2>3, <4>4 DEF RoomLeft
      <4> QED
        BY <4>3, <4>4
    <3> QED
      BY <2>3, <2>6, <3>2, <3>3 DEF StaffInv
  <2> QED
    BY <1>3, <2>2, <2>7, <2>8 DEF Master!Make
<1> QED
  BY <1>1, <1>2, <1>3 DEF Master!Staffing

LEMMA OthersKeepStaff ==
    ASSUME MasterTypes, MasterTypes', StaffInv, NEW r \in Requests, Master!Catalogue(r) \/ Master!Tagging(r)
    PROVE  StaffInv'
<1>0. masterReq[r] \in MasterReqs
  BY DEF MasterTypes
<1>1. ASSUME NEW n, NEW i, Master!Go(r, [op |-> "service", row |-> i, name |-> n]), UNCHANGED Master!staffing, excused \subseteq excused'
      PROVE  StaffInv'
  <2>1. [op |-> "service", row |-> i, name |-> n].op # "make"
    OBVIOUS
  <2> QED
    BY <1>1, <2>1, StaffElsewhere
<1>2. CASE Master!WriteService(r) \/ Master!ImportAnswer(r) \/ Master!WriteTags(r)
  <2>1. Master!Go(r, Master!Idle) /\ Master!Idle.op # "make" /\ UNCHANGED Master!staffing /\ excused \subseteq excused'
    BY <1>2 DEF Master!WriteService, Master!ImportAnswer, Master!WriteTags, Master!Answer, Master!Idle
  <2> QED
    BY <2>1, StaffElsewhere
<1>3. ASSUME NEW replace \in BOOLEAN, NEW list, Master!StartImport(r, replace, list)
      PROVE  StaffInv'
  <2>1. PICK q : q = [op |-> "import", step |-> "check", replace |-> replace,
              list |-> list, retire |-> Master!ToRetire(replace, list), todo |-> list, new |-> {}]
    OBVIOUS
  <2>2. q.op # "make"
    BY <2>1
  <2>3. Master!Go(r, q) /\ UNCHANGED Master!staffing /\ excused \subseteq excused'
    BY <1>3, <2>1 DEF Master!StartImport, Master!Excuse
  <2> QED
    BY <2>2, <2>3, StaffElsewhere
<1>4. ASSUME masterReq[r].op = "import", NEW q, Master!Go(r, q), q.op = masterReq[r].op, UNCHANGED Master!staffing, excused \subseteq excused'
      PROVE  StaffInv'
  BY <1>4, StaffElsewhere
<1>5. ASSUME NEW i, Master!ImportRetire(r, i)
      PROVE  StaffInv'
  <2>1. masterReq[r] \in ImportReqs
    BY <1>0, <1>5, MasterForms DEF Master!ImportRetire
  <2>2. [masterReq[r] EXCEPT !.retire = @ \ {i}].op = masterReq[r].op
    BY <2>1 DEF ImportReqs
  <2> QED
    BY <1>4, <1>5, <2>2 DEF Master!ImportRetire
<1>6. ASSUME NEW n, Master!ImportCheck(r, n)
      PROVE  StaffInv'
  <2>1. masterReq[r] \in ImportReqs
    BY <1>0, <1>6, MasterForms DEF Master!ImportCheck
  <2>2. PICK q : q = [masterReq[r] EXCEPT !.todo = @ \ {n}, !.step = IF Master!Taken(n) THEN "check" ELSE n]
    OBVIOUS
  <2>3. q.op = masterReq[r].op
    BY <2>1, <2>2 DEF ImportReqs
  <2> QED
    BY <1>4, <1>6, <2>2, <2>3 DEF Master!ImportCheck
<1>7. CASE Master!ImportInsert(r)
  <2>1. masterReq[r] \in ImportReqs
    BY <1>0, <1>7, MasterForms DEF Master!ImportInsert
  <2>2. PICK q : q = [masterReq[r] EXCEPT !.step = "check", !.new = @ \cup {Len(rows) + 1}]
    OBVIOUS
  <2>3. q.op = masterReq[r].op
    BY <2>1, <2>2 DEF ImportReqs
  <2> QED
    BY <1>4, <1>7, <2>2, <2>3 DEF Master!ImportInsert
<1>8. ASSUME NEW add \in BOOLEAN, NEW t, Master!ReadTags(r, add, t)
      PROVE  StaffInv'
  <2>1. PICK q : q = [op |-> "tag", add |-> add, tag |-> t, value |-> Master!Retagged(add, t)]
    OBVIOUS
  <2>2. q.op # "make"
    BY <2>1
  <2>3. Master!Go(r, q) /\ UNCHANGED Master!staffing /\ excused \subseteq excused'
    BY <1>8, <2>1 DEF Master!ReadTags, Master!Excuse
  <2> QED
    BY <2>2, <2>3, StaffElsewhere
<1> QED
  BY <1>1, <1>2, <1>3, <1>5, <1>6, <1>7, <1>8 DEF Master!Catalogue, Master!Tagging, Master!CheckNew, Master!CheckRename, Master!Excuse

LEMMA StaffStep ==
    ASSUME MasterTypes, MasterTypes', StaffInv, [Master!Next]_Master!vars
    PROVE  StaffInv'
<1>1. ASSUME UNCHANGED <<plan, masterReq>>, excused \subseteq excused',
             \A res \in Master!Resources \ excused' : inUse'[res] <= inUse[res]
      PROVE  StaffInv'
  <2>1. \A res : Passing(res)' = Passing(res)
    BY <1>1 DEF Passing
  <2> QED
    BY <1>1, <2>1, StaffApart
<1>2. \A res \in Master!Resources : inUse[res] \in Nat
  BY LimitIsNumber
<1>3. CASE Master!Retire
  <2>1. \A res \in Master!Resources : inUse'[res] <= inUse[res]
    BY <1>2, <1>3 DEF Master!Retire, MasterTypes
  <2> QED
    BY <1>1, <1>3, <2>1 DEF Master!Retire
<1>4. CASE Master!Activate
  <2>1. \A res \in Master!Resources \ {"barbers"} : inUse'[res] <= inUse[res]
    BY <1>2, <1>4 DEF Master!Activate, MasterTypes
  <2> QED
    BY <1>1, <1>4, <2>1 DEF Master!Activate
<1>5. ASSUME NEW p, Master!ChangePlan(p)
      PROVE  StaffInv'
  <2>1. \A r \in Requests : masterReq'[r] = masterReq[r] /\ (masterReq[r].op = "make" => masterReq[r] \in MakeReqs)
    BY <1>5, MasterForms DEF Master!ChangePlan, MasterTypes
  <2>2. \A r \in Requests : masterReq[r].op = "make" => masterReq[r].res \in Master!Resources
    BY <2>1 DEF MakeReqs
  <2> QED
    BY <1>5, <2>1, <2>2 DEF StaffInv, SawRoom, Master!ChangePlan
<1>6. CASE Master!Blacklist \/ (\E i \in DOMAIN rows, on \in BOOLEAN : Master!Switch(i, on)) \/ UNCHANGED Master!vars
  <2>1. UNCHANGED <<plan, masterReq, inUse>> /\ excused \subseteq excused'
    BY <1>6 DEF Master!Blacklist, Master!Switch, Master!vars, Master!staffing
  <2> QED
    BY <1>1, <1>2, <2>1
<1> QED
  BY <1>3, <1>4, <1>5, <1>6, StaffingKeeps, OthersKeepStaff DEF Master!Next

LEMMA StaffIsWithinPlan == MasterTypes /\ StaffInv => Master!WithinPlan
<1> SUFFICES ASSUME MasterTypes, StaffInv, NEW res \in Master!Resources \ excused, Limit[plan][res] >= 0
             PROVE  inUse[res] < Limit[plan][res] + Cardinality(Requests)
  BY MasterSame DEF Master!WithinPlan
<1>1. RoomLeft(res)
  BY DEF StaffInv
<1>2. /\ Cardinality(Passing(res)) \in Nat /\ Cardinality(Requests) \in Nat
      /\ Limit[plan][res] \in Int /\ inUse[res] \in Nat
  BY PassingIsFinite, LimitIsNumber
<1> QED
  BY <1>1, <1>2 DEF RoomLeft

------------------------------------------------------------------------------
(* Services *)

\* The name a request has looked at is still free; what is on sale is what an import has not yet taken
\* off, and what it has brought.
Ready(r) ==
    /\ masterReq[r].op = "service" => ~Master!TakenByOther(masterReq[r].row, masterReq[r].name)
    /\ masterReq[r].op = "import" /\ masterReq[r].step \in ServiceNames => ~Master!Taken(masterReq[r].step) /\ masterReq[r].retire = {}
    /\ masterReq[r].op = "import" /\ masterReq[r].replace => Master!On = masterReq[r].retire \cup masterReq[r].new /\ masterReq[r].retire \cap masterReq[r].new = {}

NamesApart == \A i, j \in DOMAIN rows : rows[i].name = rows[j].name => i = j

ByItself(r) == \A q \in Requests \ {r} : masterReq[q].op \notin Master!ServiceOps

Tidy ==
    /\ NamesApart
    /\ \A r \in Requests : masterReq[r].op \in Master!ServiceOps => ByItself(r) /\ Ready(r)

ServicesInv == RowsKnown /\ ("services" \notin excused => Tidy)

LEMMA ServicesInit == Master!Init => ServicesInv
<1> SUFFICES ASSUME Master!Init PROVE ServicesInv
  OBVIOUS
<1>1. \A r \in Requests : masterReq[r].op = "none"
  BY DEF Master!Init, Master!Idle
<1>2. NamesApart
  <2>1. CASE rows = <<>>
    BY <2>1 DEF NamesApart
  <2>2. ASSUME NEW n \in ServiceNames, rows = <<[name |-> n, on |-> TRUE]>>
        PROVE  NamesApart
    <3>1. PICK x : x = [name |-> n, on |-> TRUE]
      OBVIOUS
    <3>2. DOMAIN <<x>> = {1}
      OBVIOUS
    <3> QED
      BY <2>2, <3>1, <3>2 DEF NamesApart
  <2> QED
    BY <2>1, <2>2 DEF Master!Init
<1> QED
  BY <1>1, <1>2 DEF ServicesInv, RowsKnown, Tidy, Master!ServiceOps

\* A step of one request.
LEMMA TidyByItself ==
    ASSUME NEW r \in Requests, ByItself(r), \A p \in Requests \ {r} : masterReq'[p] = masterReq[p],
           NamesApart', masterReq'[r].op \in Master!ServiceOps => Ready(r)'
    PROVE  Tidy'
BY DEF Tidy, ByItself

\* The rows stay, and so does what others mean by their numbers.
LEMMA KnownRows ==
    ASSUME RowsKnown, DOMAIN rows \subseteq DOMAIN rows', NEW r \in Requests,
           \A p \in Requests \ {r} : masterReq'[p] = masterReq[p],
           masterReq'[r].op = "service" => masterReq'[r].row \in {0} \cup DOMAIN rows',
           masterReq'[r].op = "import" => masterReq'[r].retire \subseteq DOMAIN rows' /\ masterReq'[r].new \subseteq DOMAIN rows'
    PROVE  RowsKnown'
BY DEF RowsKnown

\* Steps that leave the services and what requests know of them alone.
LEMMA TidyElsewhere ==
    ASSUME ServicesInv, UNCHANGED rows, "services" \notin excused' => "services" \notin excused,
           \A r \in Requests : masterReq'[r] = masterReq[r] \/ masterReq'[r].op \notin Master!ServiceOps
    PROVE  ServicesInv'
<1>1. RowsKnown'
  BY DEF ServicesInv, RowsKnown, Master!ServiceOps
<1>2. (\A i, n : Master!TakenByOther(i, n)' <=> Master!TakenByOther(i, n)) /\ (\A n : Master!Taken(n)' <=> Master!Taken(n)) /\ Master!On' = Master!On
  BY DEF Master!TakenByOther, Master!Taken, Master!On
<1>3. ASSUME Tidy
      PROVE  Tidy'
  <2>1. NamesApart'
    BY <1>3 DEF Tidy, NamesApart
  <2>2. ASSUME NEW r \in Requests, masterReq'[r].op \in Master!ServiceOps
        PROVE  ByItself(r)' /\ Ready(r)'
    <3>1. masterReq'[r] = masterReq[r] /\ ByItself(r) /\ Ready(r)
      BY <1>3, <2>2 DEF Tidy
    <3>2. ByItself(r)'
      BY <3>1 DEF ByItself
    <3>3. Ready(r)'
      BY <1>2, <3>1 DEF Ready
    <3> QED
      BY <3>2, <3>3
  <2> QED
    BY <2>1, <2>2 DEF Tidy
<1> QED
  BY <1>1, <1>3 DEF ServicesInv

LEMMA GoesAlone ==
    ASSUME MasterTypes, NEW r \in Requests, NEW q, Master!Go(r, q)
    PROVE  masterReq'[r] = q /\ \A p \in Requests \ {r} : masterReq'[p] = masterReq[p]
BY DEF MasterTypes, Master!Go

LEMMA StartsService ==
    ASSUME MasterTypes, ServicesInv, NEW r \in Requests, masterReq[r] = Master!Idle, NEW n \in ServiceNames, NEW i \in {0} \cup DOMAIN rows,
           ~Master!TakenByOther(i, n), Master!Go(r, [op |-> "service", row |-> i, name |-> n]),
           Master!Excuse("services", Master!Busy(r, Master!ServiceOps)), UNCHANGED rows
    PROVE  ServicesInv'
<1>1. PICK q : q = [op |-> "service", row |-> i, name |-> n]
  OBVIOUS
<1>2. q.op = "service" /\ q.row = i /\ q.name = n
  BY <1>1
<1>3. masterReq'[r] = q /\ \A p \in Requests \ {r} : masterReq'[p] = masterReq[p]
  BY <1>1, GoesAlone
<1>4. RowsKnown'
  BY <1>2, <1>3, KnownRows DEF ServicesInv
<1>5. ASSUME "services" \notin excused'
      PROVE  Tidy'
  <2>1. "services" \notin excused /\ ByItself(r)
    BY <1>5 DEF Master!Excuse, Master!Busy, ByItself
  <2>2. NamesApart'
    BY <2>1 DEF ServicesInv, Tidy, NamesApart
  <2>3. Ready(r)'
    BY <1>2, <1>3 DEF Ready, Master!TakenByOther
  <2> QED
    BY <1>3, <2>1, <2>2, <2>3, TidyByItself
<1> QED
  BY <1>4, <1>5 DEF ServicesInv

LEMMA StartsImport ==
    ASSUME MasterTypes, ServicesInv, NEW r \in Requests, NEW replace \in BOOLEAN, NEW list \in SUBSET ServiceNames,
           Master!StartImport(r, replace, list)
    PROVE  ServicesInv'
<1>1. PICK q : q = [op |-> "import", step |-> "check", replace |-> replace,
              list |-> list, retire |-> Master!ToRetire(replace, list), todo |-> list, new |-> {}]
  OBVIOUS
<1>2. /\ q.op = "import" /\ q.step = "check" /\ (q.replace <=> replace) /\ q.new = {}
      /\ q.retire = Master!ToRetire(replace, list)
  BY <1>1, Zenon
<1>3. masterReq'[r] = q /\ \A p \in Requests \ {r} : masterReq'[p] = masterReq[p]
  BY <1>1, GoesAlone DEF Master!StartImport
<1>4. UNCHANGED rows
  BY DEF Master!StartImport
<1>5. Master!On' = Master!On /\ Master!On \subseteq DOMAIN rows /\ q.retire \subseteq Master!On /\ (q.replace => q.retire = Master!On)
  BY <1>2, <1>4 DEF Master!On, Master!ToRetire
<1>6. RowsKnown'
  BY <1>2, <1>3, <1>4, <1>5, KnownRows DEF ServicesInv
<1>7. ASSUME "services" \notin excused'
      PROVE  Tidy'
  <2>1. "services" \notin excused /\ ByItself(r)
    BY <1>7 DEF Master!Excuse, Master!Busy, ByItself, Master!StartImport
  <2>2. NamesApart'
    BY <1>4, <2>1 DEF ServicesInv, Tidy, NamesApart
  <2>3. "check" \notin ServiceNames
    BY MasterAssumed DEF Master!MasterDataAssumption
  <2>4. Ready(r)'
    BY <1>2, <1>3, <1>5, <2>3 DEF Ready
  <2> QED
    BY <1>3, <2>1, <2>2, <2>4, TidyByItself
<1> QED
  BY <1>6, <1>7 DEF ServicesInv

LEMMA WritesService ==
    ASSUME MasterTypes, ServicesInv, NEW r \in Requests, Master!WriteService(r)
    PROVE  ServicesInv'
<1>0. rows \in Seq(ServiceRow) /\ masterReq[r] \in ServiceReqs
  BY MasterForms DEF MasterTypes, Master!WriteService
<1>1. masterReq[r].name \in ServiceNames /\ masterReq[r].op = "service" /\ masterReq[r].row \in {0} \cup DOMAIN rows
  BY <1>0 DEF Master!WriteService, ServiceReqs, ServicesInv, RowsKnown
<1>2. masterReq'[r] = Master!Idle /\ \A p \in Requests \ {r} : masterReq'[p] = masterReq[p]
  BY GoesAlone DEF Master!WriteService, Master!Answer
<1>3. Master!Idle.op = "none"
  BY DEF Master!Idle
<1>4. PICK n \in ServiceNames : n = masterReq[r].name
  BY <1>1
<1>5. CASE masterReq[r].row = 0
  <2>1. Master!Add(n)
    BY <1>4, <1>5 DEF Master!WriteService
  <2>2. /\ DOMAIN rows' = DOMAIN rows \cup {Len(rows) + 1} /\ Len(rows) + 1 \notin DOMAIN rows
        /\ \A i \in DOMAIN rows : rows'[i] = rows[i]
        /\ rows'[Len(rows) + 1].name = n
    BY <1>0, <2>1, AddsRow
  <2>3. RowsKnown'
    BY <1>2, <1>3, <2>2, KnownRows DEF ServicesInv
  <2>4. 0 \notin DOMAIN rows
    BY <1>0, ServiceRowsKept
  <2>5. ASSUME "services" \notin excused'
        PROVE  Tidy'
    <3>1. ByItself(r) /\ Ready(r) /\ NamesApart
      BY <1>1, <2>5 DEF ServicesInv, Tidy, Master!ServiceOps, Master!WriteService
    <3>2. \A i \in DOMAIN rows : rows[i].name # n
      BY <1>1, <1>4, <1>5, <2>4, <3>1 DEF Ready, Master!TakenByOther
    <3>3. NamesApart'
      <4> DEFINE new == Len(rows) + 1
      <4> HIDE DEF new
      <4> QED
        BY <2>2, <3>1, <3>2 DEF NamesApart, new
    <3> QED
      BY <1>2, <1>3, <3>1, <3>3, TidyByItself DEF Master!ServiceOps
  <2> QED
    BY <2>3, <2>5 DEF ServicesInv
<1>6. CASE masterReq[r].row # 0
  <2>1. PICK i \in DOMAIN rows : i = masterReq[r].row
    BY <1>1, <1>6
  <2>2. rows' = [rows EXCEPT ![i].name = n]
    BY <1>4, <1>6, <2>1 DEF Master!WriteService
  <2>3. /\ DOMAIN rows' = DOMAIN rows /\ rows'[i].name = n
        /\ \A j \in DOMAIN rows \ {i} : rows'[j] = rows[j]
    BY <1>0, <2>2, RenamesRow
  <2>4. RowsKnown'
    BY <1>2, <1>3, <2>3, KnownRows DEF ServicesInv
  <2>5. ASSUME "services" \notin excused'
        PROVE  Tidy'
    <3>1. ByItself(r) /\ Ready(r) /\ NamesApart
      BY <1>1, <2>5 DEF ServicesInv, Tidy, Master!ServiceOps, Master!WriteService
    <3>2. \A j \in DOMAIN rows \ {i} : rows[j].name # n
      BY <1>1, <1>4, <2>1, <3>1 DEF Ready, Master!TakenByOther
    <3>3. NamesApart'
      BY <2>3, <3>1, <3>2 DEF NamesApart
    <3> QED
      BY <1>2, <1>3, <3>1, <3>3, TidyByItself DEF Master!ServiceOps
  <2> QED
    BY <2>4, <2>5 DEF ServicesInv
<1> QED
  BY <1>5, <1>6

LEMMA ImportRetires ==
    ASSUME MasterTypes, ServicesInv, NEW r \in Requests, NEW i \in DOMAIN rows, Master!ImportRetire(r, i)
    PROVE  ServicesInv'
<1>0. rows \in Seq(ServiceRow) /\ masterReq[r] \in ImportReqs /\ masterReq[r].op = "import" /\ i \in masterReq[r].retire
  BY MasterForms DEF MasterTypes, Master!ImportRetire
<1>1. PICK q : q = [masterReq[r] EXCEPT !.retire = @ \ {i}]
  OBVIOUS
<1>2. /\ q.op = "import" /\ q.step = masterReq[r].step /\ (q.replace <=> masterReq[r].replace)
      /\ q.retire = masterReq[r].retire \ {i} /\ q.new = masterReq[r].new
  BY <1>0, <1>1 DEF ImportReqs
<1>3. masterReq'[r] = q /\ \A p \in Requests \ {r} : masterReq'[p] = masterReq[p]
  BY <1>1, GoesAlone DEF Master!ImportRetire
<1>4. /\ DOMAIN rows' = DOMAIN rows /\ rows'[i].name = rows[i].name /\ ~rows'[i].on
      /\ \A j \in DOMAIN rows \ {i} : rows'[j] = rows[j]
  BY <1>0, SwitchesRow DEF Master!ImportRetire
<1>5. RowsKnown'
  BY <1>0, <1>2, <1>3, <1>4, KnownRows DEF ServicesInv, RowsKnown
<1>6. ASSUME "services" \notin excused'
      PROVE  Tidy'
  <2>1. ByItself(r) /\ Ready(r) /\ NamesApart
    BY <1>0, <1>6 DEF ServicesInv, Tidy, Master!ServiceOps, Master!ImportRetire
  <2>2. NamesApart'
    BY <1>4, <2>1 DEF NamesApart
  <2>3. Master!On' = Master!On \ {i}
    BY <1>4 DEF Master!On
  <2>4. masterReq[r].step \notin ServiceNames
    BY <1>0, <2>1 DEF Ready
  <2>5. Ready(r)'
    BY <1>0, <1>2, <1>3, <2>1, <2>3, <2>4 DEF Ready
  <2> QED
    BY <1>3, <2>1, <2>2, <2>5, TidyByItself
<1> QED
  BY <1>5, <1>6 DEF ServicesInv

LEMMA ImportChecks ==
    ASSUME MasterTypes, ServicesInv, NEW r \in Requests, NEW n \in ServiceNames, Master!ImportCheck(r, n)
    PROVE  ServicesInv'
<1>0. masterReq[r] \in ImportReqs /\ masterReq[r].op = "import" /\ masterReq[r].step = "check" /\ masterReq[r].retire = {} /\ UNCHANGED rows
  BY MasterForms DEF MasterTypes, Master!ImportCheck
<1>1. PICK q : q = [masterReq[r] EXCEPT !.todo = @ \ {n}, !.step = IF Master!Taken(n) THEN "check" ELSE n]
  OBVIOUS
<1>2. /\ q.op = "import" /\ q.step = (IF Master!Taken(n) THEN "check" ELSE n) /\ (q.replace <=> masterReq[r].replace)
      /\ q.retire = masterReq[r].retire /\ q.new = masterReq[r].new
  BY <1>0, <1>1 DEF ImportReqs
<1>3. masterReq'[r] = q /\ \A p \in Requests \ {r} : masterReq'[p] = masterReq[p]
  BY <1>1, GoesAlone DEF Master!ImportCheck
<1>4. RowsKnown'
  BY <1>0, <1>2, <1>3, KnownRows DEF ServicesInv, RowsKnown
<1>5. ASSUME "services" \notin excused'
      PROVE  Tidy'
  <2>1. ByItself(r) /\ Ready(r) /\ NamesApart
    BY <1>0, <1>5 DEF ServicesInv, Tidy, Master!ServiceOps, Master!ImportCheck
  <2>2. NamesApart' /\ Master!On' = Master!On /\ \A x : Master!Taken(x)' <=> Master!Taken(x)
    BY <1>0, <2>1 DEF NamesApart, Master!On, Master!Taken
  <2>3. "check" \notin ServiceNames
    BY MasterAssumed DEF Master!MasterDataAssumption
  <2>4. Ready(r)'
    BY <1>0, <1>2, <1>3, <2>1, <2>2, <2>3 DEF Ready
  <2> QED
    BY <1>3, <2>1, <2>2, <2>4, TidyByItself
<1> QED
  BY <1>4, <1>5 DEF ServicesInv

LEMMA ImportInserts ==
    ASSUME MasterTypes, ServicesInv, NEW r \in Requests, Master!ImportInsert(r)
    PROVE  ServicesInv'
<1>0. rows \in Seq(ServiceRow) /\ masterReq[r] \in ImportReqs /\ masterReq[r].op = "import" /\ masterReq[r].step \in ServiceNames
  BY MasterForms DEF MasterTypes, Master!ImportInsert
<1>1. PICK n \in ServiceNames : n = masterReq[r].step
  BY <1>0
<1>2. Master!Add(n)
  BY <1>1 DEF Master!ImportInsert
<1>3. PICK new : new = Len(rows) + 1
  OBVIOUS
<1>4. /\ DOMAIN rows' = DOMAIN rows \cup {new} /\ new \notin DOMAIN rows
      /\ \A i \in DOMAIN rows : rows'[i] = rows[i]
      /\ rows'[new].name = n /\ rows'[new].on
  BY <1>0, <1>2, <1>3, AddsRow
<1>5. PICK q : q = [masterReq[r] EXCEPT !.step = "check", !.new = @ \cup {new}]
  OBVIOUS
<1>6. /\ q.op = "import" /\ q.step = "check" /\ (q.replace <=> masterReq[r].replace)
      /\ q.retire = masterReq[r].retire /\ q.new = masterReq[r].new \cup {new}
  BY <1>0, <1>5 DEF ImportReqs
<1>7. masterReq'[r] = q /\ \A p \in Requests \ {r} : masterReq'[p] = masterReq[p]
  BY <1>3, <1>5, GoesAlone DEF Master!ImportInsert
<1>8. masterReq[r].retire \subseteq DOMAIN rows /\ masterReq[r].new \subseteq DOMAIN rows
  BY <1>0 DEF ServicesInv, RowsKnown
<1>9. RowsKnown'
  BY <1>4, <1>6, <1>7, <1>8, KnownRows DEF ServicesInv
<1>10. ASSUME "services" \notin excused'
       PROVE  Tidy'
  <2>1. ByItself(r) /\ Ready(r) /\ NamesApart
    BY <1>0, <1>10 DEF ServicesInv, Tidy, Master!ServiceOps, Master!ImportInsert
  <2>2. \A i \in DOMAIN rows : rows[i].name # n
    BY <1>0, <1>1, <2>1 DEF Ready, Master!Taken
  <2>3. NamesApart'
    BY <1>4, <2>1, <2>2 DEF NamesApart
  <2>4. Master!On' = Master!On \cup {new}
    BY <1>4 DEF Master!On
  <2>5. masterReq[r].retire = {}
    BY <1>0, <2>1 DEF Ready
  <2>6. "check" \notin ServiceNames
    BY MasterAssumed DEF Master!MasterDataAssumption
  <2>7. Ready(r)'
    BY <1>0, <1>6, <1>7, <2>1, <2>4, <2>5, <2>6 DEF Ready
  <2> QED
    BY <1>7, <2>1, <2>3, <2>7, TidyByItself
<1> QED
  BY <1>9, <1>10 DEF ServicesInv

LEMMA Switches ==
    ASSUME MasterTypes, ServicesInv, NEW i \in DOMAIN rows, NEW on \in BOOLEAN, Master!Switch(i, on)
    PROVE  ServicesInv'
<1>0. rows \in Seq(ServiceRow) /\ UNCHANGED masterReq
  BY DEF MasterTypes, Master!Switch
<1>1. /\ DOMAIN rows' = DOMAIN rows /\ rows'[i].name = rows[i].name
      /\ \A j \in DOMAIN rows \ {i} : rows'[j] = rows[j]
  BY <1>0, SwitchesRow DEF Master!Switch
<1>2. \A j \in DOMAIN rows : rows'[j].name = rows[j].name
  BY <1>1
<1>3. RowsKnown'
  BY <1>0, <1>1 DEF ServicesInv, RowsKnown
<1>4. ASSUME "services" \notin excused'
      PROVE  Tidy'
  <2>1. "services" \notin excused /\ \A q \in Requests : masterReq[q].op # "import"
    BY <1>4 DEF Master!Switch
  <2>2. Tidy
    BY <2>1 DEF ServicesInv
  <2>3. NamesApart'
    BY <1>1, <1>2, <2>2 DEF Tidy, NamesApart
  <2>4. ASSUME NEW r \in Requests, masterReq[r].op \in Master!ServiceOps
        PROVE  ByItself(r)' /\ Ready(r)'
    <3>1. ByItself(r) /\ Ready(r)
      BY <2>2, <2>4 DEF Tidy
    <3>2. masterReq[r].op = "service"
      BY <2>1, <2>4 DEF Master!ServiceOps
    <3>3. ByItself(r)'
      BY <1>0, <3>1 DEF ByItself
    <3>4. Ready(r)'
      BY <1>0, <1>1, <1>2, <3>1, <3>2 DEF Ready, Master!TakenByOther
    <3> QED
      BY <3>3, <3>4
  <2> QED
    BY <1>0, <2>3, <2>4 DEF Tidy
<1> QED
  BY <1>3, <1>4 DEF ServicesInv

LEMMA ServicesStep ==
    ASSUME MasterTypes, MasterTypes', ServicesInv, [Master!Next]_Master!vars
    PROVE  ServicesInv'
<1>0. masterReq \in [Requests -> MasterReqs]
  BY DEF MasterTypes
<1>1. ASSUME NEW r \in Requests, NEW q, q.op \notin Master!ServiceOps, Master!Go(r, q), UNCHANGED rows,
             "services" \notin excused' => "services" \notin excused
      PROVE  ServicesInv'
  BY <1>1, GoesAlone, TidyElsewhere
<1>2. Master!Idle.op \notin Master!ServiceOps
  BY DEF Master!Idle, Master!ServiceOps
<1>3. ASSUME NEW r \in Requests, Master!Staffing(r)
      PROVE  ServicesInv'
  <2>1. ASSUME NEW res, Master!Count(r, res)
        PROVE  ServicesInv'
    <3>1. PICK q : q = [op |-> "make", step |-> "gate", res |-> res, seen |-> Master!Counted(res)]
      OBVIOUS
    <3>2. q.op \notin Master!ServiceOps
      BY <3>1 DEF Master!ServiceOps
    <3> QED
      BY <1>1, <2>1, <3>1, <3>2 DEF Master!Count
  <2>2. CASE Master!Gate(r)
    <3>1. masterReq[r] \in MakeReqs
      BY <1>0, <2>2, MasterForms DEF Master!Gate
    <3>2. PICK q : q = [masterReq[r] EXCEPT !.step = "insert"]
      OBVIOUS
    <3>3. q.op \notin Master!ServiceOps
      BY <3>1, <3>2 DEF MakeReqs, Master!ServiceOps
    <3> QED
      BY <1>1, <1>2, <2>2, <3>2, <3>3 DEF Master!Gate, Master!Answer
  <2>3. CASE Master!Make(r)
    BY <1>1, <1>2, <2>3 DEF Master!Make, Master!Answer
  <2> QED
    BY <1>3, <2>1, <2>2, <2>3 DEF Master!Staffing
<1>4. ASSUME NEW r \in Requests, Master!Tagging(r)
      PROVE  ServicesInv'
  <2>1. ASSUME NEW add \in BOOLEAN, NEW t, Master!ReadTags(r, add, t)
        PROVE  ServicesInv'
    <3>1. PICK q : q = [op |-> "tag", add |-> add, tag |-> t, value |-> Master!Retagged(add, t)]
      OBVIOUS
    <3>2. q.op \notin Master!ServiceOps
      BY <3>1 DEF Master!ServiceOps
    <3>3. "services" \notin excused' => "services" \notin excused
      BY <2>1 DEF Master!ReadTags, Master!Excuse
    <3> QED
      BY <1>1, <2>1, <3>1, <3>2, <3>3 DEF Master!ReadTags
  <2>2. CASE Master!WriteTags(r)
    BY <1>1, <1>2, <2>2 DEF Master!WriteTags, Master!Answer
  <2> QED
    BY <1>4, <2>1, <2>2 DEF Master!Tagging
<1>5. ASSUME NEW r \in Requests, Master!Catalogue(r)
      PROVE  ServicesInv'
  <2>1. \A n : Master!TakenByOther(0, n) => Master!Taken(n)
    BY DEF Master!TakenByOther, Master!Taken
  <2>2. ASSUME NEW n \in ServiceNames, Master!CheckNew(r, n)
        PROVE  ServicesInv'
    BY <2>1, <2>2, StartsService DEF Master!CheckNew
  <2>3. ASSUME NEW i \in DOMAIN rows, NEW n \in ServiceNames, Master!CheckRename(r, i, n)
        PROVE  ServicesInv'
    BY <2>3, StartsService DEF Master!CheckRename
  <2>4. CASE Master!ImportAnswer(r)
    BY <1>1, <1>2, <2>4 DEF Master!ImportAnswer, Master!Answer
  <2> QED
    BY <1>5, <2>2, <2>3, <2>4, WritesService, StartsImport, ImportRetires, ImportChecks, ImportInserts DEF Master!Catalogue
<1>6. CASE Master!Retire \/ Master!Activate \/ (\E p \in Plans : Master!ChangePlan(p)) \/ Master!Blacklist \/ UNCHANGED Master!vars
  <2>1. UNCHANGED <<rows, masterReq>> /\ ("services" \notin excused' => "services" \notin excused)
    BY <1>6 DEF Master!Retire, Master!Activate, Master!ChangePlan, Master!Blacklist, Master!vars
  <2> QED
    BY <2>1, TidyElsewhere
<1> QED
  BY <1>3, <1>4, <1>5, <1>6, Switches DEF Master!Next

LEMMA ServicesAreTold == MasterTypes /\ ServicesInv => Master!NamesDistinct /\ Master!OnlyImportedOnSale
<1> SUFFICES ASSUME MasterTypes, ServicesInv PROVE Master!NamesDistinct /\ Master!OnlyImportedOnSale
  OBVIOUS
<1>1. Master!NamesDistinct
  BY DEF ServicesInv, Tidy, NamesApart, Master!NamesDistinct
<1>2. Master!OnlyImportedOnSale
  BY DEF ServicesInv, Tidy, Ready, Master!ServiceOps, Master!ImportOver, Master!OnlyImportedOnSale
<1> QED
  BY <1>1, <1>2

------------------------------------------------------------------------------
(* Tags *)

\* Who has read the tags is the only one, and will write what he was asked for.
TagsRead(r) ==
    masterReq[r].op = "tag" =>
        /\ masterReq[r].value = Master!Retagged(masterReq[r].add, masterReq[r].tag)
        /\ \A q \in Requests \ {r} : masterReq[q].op # "tag"

TagsInv == "tags" \notin excused => tags = masterAsked /\ \A r \in Requests : TagsRead(r)

LEMMA TagsElsewhere ==
    ASSUME TagsInv, UNCHANGED Master!labels, "tags" \notin excused' => "tags" \notin excused,
           \A r \in Requests : masterReq'[r] = masterReq[r] \/ masterReq'[r].op # "tag"
    PROVE  TagsInv'
<1>1. \A add, t : Master!Retagged(add, t)' = Master!Retagged(add, t)
  BY DEF Master!Retagged, Master!labels
<1>2. ASSUME "tags" \notin excused'
      PROVE  tags' = masterAsked' /\ \A r \in Requests : TagsRead(r)'
  BY <1>1, <1>2 DEF TagsInv, TagsRead, Master!labels
<1> QED
  BY <1>2 DEF TagsInv

LEMMA TagsStep ==
    ASSUME MasterTypes, MasterTypes', TagsInv, [Master!Next]_Master!vars
    PROVE  TagsInv'
<1>0. masterReq \in [Requests -> MasterReqs]
  BY DEF MasterTypes
<1>1. ASSUME NEW r \in Requests, NEW q, q.op # "tag", Master!Go(r, q), UNCHANGED Master!labels,
             "tags" \notin excused' => "tags" \notin excused
      PROVE  TagsInv'
  BY <1>1, GoesAlone, TagsElsewhere
<1>2. Master!Idle.op # "tag"
  BY DEF Master!Idle
<1>3. ASSUME NEW r \in Requests, Master!Staffing(r)
      PROVE  TagsInv'
  <2>1. ASSUME NEW res, Master!Count(r, res)
        PROVE  TagsInv'
    <3>1. PICK q : q = [op |-> "make", step |-> "gate", res |-> res, seen |-> Master!Counted(res)]
      OBVIOUS
    <3>2. q.op # "tag"
      BY <3>1
    <3> QED
      BY <1>1, <2>1, <3>1, <3>2 DEF Master!Count
  <2>2. CASE Master!Gate(r)
    <3>1. masterReq[r] \in MakeReqs
      BY <1>0, <2>2, MasterForms DEF Master!Gate
    <3>2. PICK q : q = [masterReq[r] EXCEPT !.step = "insert"]
      OBVIOUS
    <3>3. q.op # "tag"
      BY <3>1, <3>2 DEF MakeReqs
    <3> QED
      BY <1>1, <1>2, <2>2, <3>2, <3>3 DEF Master!Gate, Master!Answer
  <2>3. CASE Master!Make(r)
    BY <1>1, <1>2, <2>3 DEF Master!Make, Master!Answer
  <2> QED
    BY <1>3, <2>1, <2>2, <2>3 DEF Master!Staffing
<1>4. ASSUME NEW r \in Requests, Master!Catalogue(r)
      PROVE  TagsInv'
  <2>1. ASSUME NEW n, NEW i, Master!Go(r, [op |-> "service", row |-> i, name |-> n]), UNCHANGED Master!labels,
               "tags" \notin excused' => "tags" \notin excused
        PROVE  TagsInv'
    <3>1. [op |-> "service", row |-> i, name |-> n].op # "tag"
      OBVIOUS
    <3> QED
      BY <1>1, <2>1, <3>1
  <2>2. CASE Master!WriteService(r) \/ Master!ImportAnswer(r)
    <3>1. Master!Go(r, Master!Idle) /\ UNCHANGED Master!labels /\ ("tags" \notin excused' => "tags" \notin excused)
      BY <2>2 DEF Master!WriteService, Master!ImportAnswer, Master!Answer
    <3> QED
      BY <1>1, <1>2, <3>1
  <2>3. ASSUME NEW replace \in BOOLEAN, NEW list, Master!StartImport(r, replace, list)
        PROVE  TagsInv'
    <3>1. PICK q : q = [op |-> "import", step |-> "check", replace |-> replace,
                list |-> list, retire |-> Master!ToRetire(replace, list), todo |-> list, new |-> {}]
      OBVIOUS
    <3>2. q.op # "tag"
      BY <3>1
    <3>3. "tags" \notin excused' => "tags" \notin excused
      BY <2>3 DEF Master!StartImport, Master!Excuse
    <3> QED
      BY <1>1, <2>3, <3>1, <3>2, <3>3 DEF Master!StartImport
  <2>4. ASSUME NEW i, Master!ImportRetire(r, i)
        PROVE  TagsInv'
    <3>1. masterReq[r] \in ImportReqs
      BY <1>0, <2>4, MasterForms DEF Master!ImportRetire
    <3>2. [masterReq[r] EXCEPT !.retire = @ \ {i}].op # "tag"
      BY <3>1 DEF ImportReqs
    <3> QED
      BY <1>1, <2>4, <3>2 DEF Master!ImportRetire
  <2>5. ASSUME NEW n, Master!ImportCheck(r, n)
        PROVE  TagsInv'
    <3>1. masterReq[r] \in ImportReqs
      BY <1>0, <2>5, MasterForms DEF Master!ImportCheck
    <3>2. PICK q : q = [masterReq[r] EXCEPT !.todo = @ \ {n}, !.step = IF Master!Taken(n) THEN "check" ELSE n]
      OBVIOUS
    <3>3. q.op # "tag"
      BY <3>1, <3>2 DEF ImportReqs
    <3> QED
      BY <1>1, <2>5, <3>2, <3>3 DEF Master!ImportCheck
  <2>6. CASE Master!ImportInsert(r)
    <3>1. masterReq[r] \in ImportReqs
      BY <1>0, <2>6, MasterForms DEF Master!ImportInsert
    <3>2. PICK q : q = [masterReq[r] EXCEPT !.step = "check", !.new = @ \cup {Len(rows) + 1}]
      OBVIOUS
    <3>3. q.op # "tag"
      BY <3>1, <3>2 DEF ImportReqs
    <3> QED
      BY <1>1, <2>6, <3>2, <3>3 DEF Master!ImportInsert
  <2> QED
    BY <1>4, <2>1, <2>2, <2>3, <2>4, <2>5, <2>6 DEF Master!Catalogue, Master!CheckNew, Master!CheckRename, Master!Excuse
<1>5. ASSUME NEW r \in Requests, NEW add \in BOOLEAN, NEW t \in Tags, Master!ReadTags(r, add, t)
      PROVE  TagsInv'
  <2>1. PICK q : q = [op |-> "tag", add |-> add, tag |-> t, value |-> Master!Retagged(add, t)]
    OBVIOUS
  <2>2. q.op = "tag" /\ q.value = Master!Retagged(q.add, q.tag)
    BY <2>1, Zenon
  <2>3. masterReq'[r] = q /\ \A p \in Requests \ {r} : masterReq'[p] = masterReq[p]
    BY <1>5, <2>1, GoesAlone DEF Master!ReadTags
  <2>4. UNCHANGED <<tags, masterAsked>>
    BY <1>5 DEF Master!ReadTags, Master!labels
  <2>5. ASSUME "tags" \notin excused'
        PROVE  tags' = masterAsked' /\ \A p \in Requests : TagsRead(p)'
    <3>1. "tags" \notin excused /\ \A p \in Requests \ {r} : masterReq[p].op # "tag"
      BY <1>5, <2>5 DEF Master!ReadTags, Master!Excuse, Master!Busy
    <3>2. TagsRead(r)'
      BY <2>2, <2>3, <2>4, <3>1 DEF TagsRead, Master!Retagged
    <3>3. \A p \in Requests \ {r} : TagsRead(p)'
      BY <2>3, <3>1 DEF TagsRead
    <3> QED
      BY <2>4, <3>1, <3>2, <3>3 DEF TagsInv
  <2> QED
    BY <2>5 DEF TagsInv
<1>6. ASSUME NEW r \in Requests, Master!WriteTags(r)
      PROVE  TagsInv'
  <2>1. masterReq'[r] = Master!Idle /\ \A p \in Requests \ {r} : masterReq'[p] = masterReq[p]
    BY <1>6, GoesAlone DEF Master!WriteTags, Master!Answer
  <2>2. ASSUME "tags" \notin excused'
        PROVE  tags' = masterAsked' /\ \A p \in Requests : TagsRead(p)'
    <3>1. tags = masterAsked /\ TagsRead(r) /\ masterReq[r].op = "tag"
      BY <1>6, <2>2 DEF Master!WriteTags, TagsInv
    <3>2. tags' = Master!Retagged(masterReq[r].add, masterReq[r].tag)
      BY <1>6, <3>1 DEF Master!WriteTags, TagsRead
    <3>3. tags' = masterAsked'
      BY <1>6, <3>1, <3>2 DEF Master!WriteTags, Master!Retagged
    <3>4. \A p \in Requests : masterReq'[p].op # "tag"
      BY <1>2, <2>1, <3>1 DEF TagsRead
    <3> QED
      BY <3>3, <3>4 DEF TagsRead
  <2> QED
    BY <2>2 DEF TagsInv
<1>7. CASE Master!Blacklist
  <2>1. ASSUME "tags" \notin excused'
        PROVE  tags' = masterAsked' /\ \A p \in Requests : TagsRead(p)'
    <3>1. "tags" \notin excused /\ \A q \in Requests : masterReq[q].op # "tag"
      BY <1>7, <2>1 DEF Master!Blacklist
    <3> QED
      BY <1>7, <3>1 DEF Master!Blacklist, TagsInv, TagsRead
  <2> QED
    BY <2>1 DEF TagsInv
<1>8. CASE \/ Master!Retire \/ Master!Activate \/ (\E p \in Plans : Master!ChangePlan(p)) \/ UNCHANGED Master!vars
           \/ \E i \in DOMAIN rows, on \in BOOLEAN : Master!Switch(i, on)
  <2>1. UNCHANGED <<Master!labels, masterReq>> /\ ("tags" \notin excused' => "tags" \notin excused)
    BY <1>8 DEF Master!Retire, Master!Activate, Master!ChangePlan, Master!Switch, Master!vars
  <2> QED
    BY <2>1, TagsElsewhere
<1> QED
  BY <1>3, <1>4, <1>5, <1>6, <1>7, <1>8 DEF Master!Next, Master!Tagging

MasterInv == MasterTypes /\ StaffInv /\ ServicesInv /\ TagsInv

LEMMA MasterInit == Master!Init => MasterInv
<1>1. Master!Init => TagsInv
  BY DEF Master!Init, TagsInv, TagsRead, Master!Idle
<1> QED
  BY <1>1, MasterTypesInit, StaffInit, ServicesInit DEF MasterInv

LEMMA MasterStep == MasterInv /\ [Master!Next]_Master!vars => MasterInv'
BY MasterTypesStep, StaffStep, ServicesStep, TagsStep DEF MasterInv, ServicesInv

LEMMA MasterTold ==
    MasterInv => Master!TypeOK /\ Master!WithinPlan /\ Master!NamesDistinct /\ Master!OnlyImportedOnSale /\ Master!TagsAsAsked
BY MasterTypesSuffice, StaffIsWithinPlan, ServicesAreTold DEF MasterInv, TagsInv, Master!TagsAsAsked

------------------------------------------------------------------------------
(* The card products *)

InReqs == [at : {"in"}, shop : Shops]
CreateReqs == [at : {"create"}, shop : Shops, row : Desk!Rows, stale : BOOLEAN]
UpdateReqs == [at : {"update"}, shop : Shops, id : Products, change : Desk!Changes, stale : BOOLEAN]
SellReqs == [at : {"sell"}, shop : Shops, id : Products, row : Desk!Rows]

DeskReqs == {Desk!Idle} \cup InReqs \cup CreateReqs \cup UpdateReqs \cup SellReqs

SoldRows == [shop : Shops, of : Products, kind : Desk!Kinds, price : Nat, worth : Nat]

LEMMA DeskForms ==
    ASSUME NEW q \in DeskReqs
    PROVE  /\ q.at \in {"idle", "in", "create", "update", "sell"}
           /\ q.at = "idle" => q = Desk!Idle
           /\ q.at = "in" => q \in InReqs
           /\ q.at = "create" => q \in CreateReqs
           /\ q.at = "update" => q \in UpdateReqs
           /\ q.at = "sell" => q \in SellReqs
           /\ "stale" \in DOMAIN q <=> q.at \in {"create", "update"}
<1>1. CASE q = Desk!Idle
  BY <1>1 DEF Desk!Idle
<1>2. CASE q \in InReqs
  BY <1>2 DEF InReqs
<1>3. CASE q \in CreateReqs
  <2>1. q.at = "create" /\ "stale" \in DOMAIN q
    BY <1>3 DEF CreateReqs
  <2> QED
    BY <1>3, <2>1
<1>4. CASE q \in UpdateReqs
  <2>1. q.at = "update" /\ "stale" \in DOMAIN q
    BY <1>4 DEF UpdateReqs
  <2> QED
    BY <1>4, <2>1
<1>5. CASE q \in SellReqs
  BY <1>5 DEF SellReqs
<1> QED
  BY <1>1, <1>2, <1>3, <1>4, <1>5 DEF DeskReqs

\* A change gives names, prices, face values and bonuses, and nothing else.
LEMMA ChangeForms ==
    ASSUME NEW change \in Desk!Changes
    PROVE  /\ "name" \in DOMAIN change => change["name"] \in ProductNames
           /\ "price" \in DOMAIN change => change["price"] \in 0..MaxCents
           /\ "face" \in DOMAIN change => change["face"] \in 0..MaxCents
           /\ "bonus" \in DOMAIN change => change["bonus"] \in 0..1
<1>1. CASE change \in [name : ProductNames]
  BY <1>1
<1>2. CASE change \in [bonus : 0..1]
  BY <1>2
<1>3. CASE change \in [price : 0..MaxCents]
  BY <1>3
<1>4. CASE change \in [face : 0..MaxCents]
  BY <1>4
<1>5. CASE change \in [price : 0..MaxCents, face : 0..MaxCents]
  BY <1>5
<1> QED
  BY <1>1, <1>2, <1>3, <1>4, <1>5 DEF Desk!Changes

LEMMA ChangedIsRow ==
    ASSUME NEW offer \in Desk!Rows, NEW change \in Desk!Changes
    PROVE  Desk!Changed(offer, change) \in Desk!Rows /\ Desk!Changed(offer, change).kind = offer.kind /\ Desk!Changed(offer, change).shop = offer.shop
<1> DEFINE G(f) == IF f \in DOMAIN change THEN change[f] ELSE offer[f]
<1>1. /\ offer["name"] \in ProductNames /\ offer["price"] \in 0..MaxCents /\ offer["face"] \in 0..MaxCents
      /\ offer["bonus"] \in 0..1
  BY DEF Desk!Rows
<1>2. G("name") \in ProductNames /\ G("price") \in 0..MaxCents /\ G("face") \in 0..MaxCents /\ G("bonus") \in 0..1
  BY <1>1, ChangeForms
<1>3. Desk!Changed(offer, change) = [offer EXCEPT !.name = G("name"), !.price = G("price"), !.face = G("face"), !.bonus = G("bonus")]
  BY Zenon DEF Desk!Changed
<1>4. PICK n \in ProductNames, p \in 0..MaxCents, f \in 0..MaxCents, b \in 0..1 :
         n = G("name") /\ p = G("price") /\ f = G("face") /\ b = G("bonus")
  BY <1>2
<1>5. Desk!Changed(offer, change) = [offer EXCEPT !.name = n, !.price = p, !.face = f, !.bonus = b]
  BY <1>3, <1>4
<1> QED
  BY <1>5 DEF Desk!Rows

\* The tables, and what a request of each kind remembers.
DeskTypes ==
    /\ pro \subseteq Shops
    /\ DOMAIN products \subseteq Products /\ products \in [DOMAIN products -> Desk!Rows]
    /\ DOMAIN sold \subseteq Sold /\ sold \in [DOMAIN sold -> SoldRows]
    /\ usedBy \in [DOMAIN sold -> SUBSET Shops]
    /\ offers \in [DOMAIN products -> SUBSET Desk!Rows]
    /\ raced \subseteq DOMAIN products
    /\ asked \in 0..MaxAsked
    /\ req \in [Requests -> DeskReqs]

\* A request knows rows that exist and are of its shop; what it will write is worth its price, unless
\* another has written since it looked.
Grounded(q) ==
    /\ q.at = "create" => Desk!WellPriced(q.row) /\ q.row.shop = q.shop
    /\ q.at = "update" =>
          /\ q.id \in DOMAIN products /\ products[q.id].shop = q.shop
          /\ ~q.stale => Desk!WellPriced(Desk!Changed(products[q.id], q.change))
    /\ q.at = "sell" =>
          /\ q.id \in DOMAIN products /\ products[q.id].shop = q.shop
          /\ q.row \in offers[q.id] /\ q.row.kind = products[q.id].kind

\* A card was made from a product that exists, for its shop.
WellSold(c) ==
    /\ sold[c].of \in DOMAIN products /\ sold[c].kind = products[sold[c].of].kind
    /\ products[sold[c].of].shop = sold[c].shop
    /\ usedBy[c] = {sold[c].shop}
    /\ \E offer \in offers[sold[c].of] : offer.price = sold[c].price /\ Desk!Worth(offer) = sold[c].worth

DeskInv ==
    /\ DeskTypes
    /\ \A r \in Requests : Grounded(req[r])
    /\ \A p \in DOMAIN products : products[p] \in offers[p]
    /\ \A p \in DOMAIN products \ raced : Desk!WellPriced(products[p])
    /\ \A c \in DOMAIN sold : WellSold(c)

LEMMA DeskInit == Desk!Init => DeskInv
<1> SUFFICES ASSUME Desk!Init PROVE DeskInv
  OBVIOUS
<1>1. DOMAIN <<>> = {}
  OBVIOUS
<1>2. \A r \in Requests : req[r] = Desk!Idle
  BY DEF Desk!Init
<1>3. \A r \in Requests : Grounded(req[r])
  BY <1>2 DEF Grounded, Desk!Idle
<1>4. asked \in 0..MaxAsked
  BY DeskAssumed DEF Desk!Init, Desk!DeskAssumption
<1>5. /\ products \in [{} -> Desk!Rows] /\ sold \in [{} -> SoldRows] /\ usedBy \in [{} -> SUBSET Shops]
      /\ offers \in [{} -> SUBSET Desk!Rows] /\ DOMAIN products = {} /\ DOMAIN sold = {}
  BY <1>1 DEF Desk!Init
<1>6. req \in [Requests -> DeskReqs]
  BY DEF Desk!Init, DeskReqs
<1>7. pro \subseteq Shops /\ raced = {}
  BY DEF Desk!Init
<1> QED
  BY <1>3, <1>4, <1>5, <1>6, <1>7 DEF DeskInv, DeskTypes

\* Requests that write nothing to the products: only their own state changes, and sold cards.
LEMMA DeskProductsStay ==
    ASSUME DeskInv, UNCHANGED <<products, offers, raced>>, NEW r \in Requests, NEW q \in DeskReqs,
           Grounded(q), req' = [req EXCEPT ![r] = q], pro' \subseteq Shops, asked' \in 0..MaxAsked,
           DOMAIN sold' \subseteq Sold, sold' \in [DOMAIN sold' -> SoldRows], usedBy' \in [DOMAIN sold' -> SUBSET Shops],
           \A c \in DOMAIN sold' : WellSold(c)'
    PROVE  DeskInv'
<1>1. \A p \in Requests : req'[p] = req[p] \/ req'[p] = q
  BY DEF DeskInv, DeskTypes
<1>2. ASSUME NEW p \in Requests PROVE Grounded(req[p])'
  <2>1. Grounded(req'[p])
    BY <1>1 DEF DeskInv
  <2> QED
    BY <2>1 DEF Grounded
<1>3. req' \in [Requests -> DeskReqs]
  BY DEF DeskInv, DeskTypes
<1> QED
  BY <1>2, <1>3 DEF DeskInv, DeskTypes

LEMMA IdleIsGrounded == Desk!Idle \in DeskReqs /\ Grounded(Desk!Idle)
BY DEF DeskReqs, Grounded, Desk!Idle

\* A table with one row more is still of its type.
LEMMA WithTypes ==
    ASSUME NEW T, NEW id, NEW x, NEW S, T \in [DOMAIN T -> S], x \in S
    PROVE  Desk!With(T, id, x) \in [DOMAIN T \cup {id} -> S]
BY DEF Desk!With

\* Steps of a request that write no card either.
LEMMA DeskOnlyAsks ==
    ASSUME DeskInv, UNCHANGED <<products, offers, raced, sold, usedBy>>, NEW r \in Requests, NEW q \in DeskReqs,
           Grounded(q), req' = [req EXCEPT ![r] = q], pro' \subseteq Shops, asked' \in 0..MaxAsked
    PROVE  DeskInv'
<1>1. \A c \in DOMAIN sold' : WellSold(c)'
  BY DEF DeskInv, WellSold
<1>2. /\ DOMAIN sold' \subseteq Sold /\ sold' \in [DOMAIN sold' -> SoldRows]
      /\ usedBy' \in [DOMAIN sold' -> SUBSET Shops]
  BY DEF DeskInv, DeskTypes
<1> QED
  BY <1>1, <1>2, DeskProductsStay

LEMMA DeskLooks ==
    ASSUME DeskInv, NEW r \in Requests,
           \/ Desk!Refuse(r) \/ \E s \in Shops : Desk!Enter(r, s)
           \/ \E offer \in Desk!Rows : Desk!CheckNew(r, offer)
           \/ \E p \in Products : Desk!ReadProduct(r, p) \/ \E change \in Desk!Changes : Desk!CheckUpdate(r, p, change)
    PROVE  DeskInv'
<1>0. /\ req[r] \in DeskReqs /\ pro \subseteq Shops /\ asked \in 0..MaxAsked
      /\ \A p \in DOMAIN products : products[p] \in Desk!Rows /\ p \in Products /\ products[p] \in offers[p]
  BY DEF DeskInv, DeskTypes
<1>1. CASE Desk!Refuse(r)
  <2>1. UNCHANGED <<products, offers, raced, sold, usedBy, pro, asked>> /\ req' = [req EXCEPT ![r] = Desk!Idle]
    BY <1>1 DEF Desk!Refuse, Desk!tables, Desk!history, Desk!Forget
  <2> QED
    BY <1>0, <2>1, IdleIsGrounded, DeskOnlyAsks
<1>2. ASSUME NEW s \in Shops, Desk!Enter(r, s)
      PROVE  DeskInv'
  <2>1. PICK q : q = [at |-> "in", shop |-> s]
    OBVIOUS
  <2>2. q \in DeskReqs /\ Grounded(q)
    BY <2>1 DEF DeskReqs, InReqs, Grounded
  <2>3. UNCHANGED <<products, offers, raced, sold, usedBy, pro>> /\ req' = [req EXCEPT ![r] = q]
    BY <1>2, <2>1 DEF Desk!Enter, Desk!tables, Desk!history
  <2>4. asked' \in 0..MaxAsked
    BY <1>0, <1>2, DeskAssumed DEF Desk!Enter, Desk!DeskAssumption
  <2> QED
    BY <1>0, <2>2, <2>3, <2>4, DeskOnlyAsks
<1>3. ASSUME NEW offer \in Desk!Rows, Desk!CheckNew(r, offer)
      PROVE  DeskInv'
  <2>1. PICK q : q = [at |-> "create", shop |-> offer.shop, row |-> offer, stale |-> FALSE]
    OBVIOUS
  <2>2. q.at = "create" /\ q.row = offer /\ q.shop = offer.shop
    BY <2>1, Zenon
  <2>3. offer.shop \in Shops
    BY DEF Desk!Rows
  <2>4. q \in DeskReqs
    BY <2>1, <2>3 DEF DeskReqs, CreateReqs
  <2>5. Grounded(q)
    BY <1>3, <2>2 DEF Grounded, Desk!CheckNew
  <2>6. UNCHANGED <<products, offers, raced, sold, usedBy, pro, asked>> /\ req' = [req EXCEPT ![r] = q]
    BY <1>3, <2>1 DEF Desk!CheckNew, Desk!tables, Desk!history
  <2> QED
    BY <1>0, <2>4, <2>5, <2>6, DeskOnlyAsks
<1>4. ASSUME NEW p \in Products, NEW change \in Desk!Changes, Desk!CheckUpdate(r, p, change)
      PROVE  DeskInv'
  <2>1. req[r] \in InReqs
    BY <1>0, <1>4, DeskForms DEF Desk!CheckUpdate
  <2>2. PICK s \in Shops : s = req[r].shop
    BY <2>1 DEF InReqs
  <2>3. PICK q : q = [at |-> "update", shop |-> s, id |-> p, change |-> change, stale |-> FALSE]
    OBVIOUS
  <2>4. q.at = "update" /\ q.id = p /\ q.shop = s /\ q.change = change
    BY <2>3, Zenon
  <2>5. q \in DeskReqs
    BY <2>3 DEF DeskReqs, UpdateReqs
  <2>6. p \in DOMAIN products /\ products[p].shop = s /\ Desk!WellPriced(Desk!Changed(products[p], change))
    BY <1>4, <2>2 DEF Desk!CheckUpdate, Desk!GetCardInShop
  <2>7. Grounded(q)
    BY <2>4, <2>6 DEF Grounded
  <2>8. UNCHANGED <<products, offers, raced, sold, usedBy, pro, asked>> /\ req' = [req EXCEPT ![r] = q]
    BY <1>4, <2>2, <2>3 DEF Desk!CheckUpdate, Desk!tables, Desk!history
  <2> QED
    BY <1>0, <2>5, <2>7, <2>8, DeskOnlyAsks
<1>5. ASSUME NEW p \in Products, Desk!ReadProduct(r, p)
      PROVE  DeskInv'
  <2>1. req[r] \in InReqs
    BY <1>0, <1>5, DeskForms DEF Desk!ReadProduct
  <2>2. PICK s \in Shops : s = req[r].shop
    BY <2>1 DEF InReqs
  <2>3. p \in DOMAIN products /\ products[p].shop = s
    BY <1>5, <2>2 DEF Desk!ReadProduct, Desk!GetCardInShop
  <2>4. PICK offer \in Desk!Rows : offer = products[p]
    BY <1>0, <2>3
  <2>5. PICK q : q = [at |-> "sell", shop |-> s, id |-> p, row |-> offer]
    OBVIOUS
  <2>6. q.at = "sell" /\ q.id = p /\ q.shop = s /\ q.row = offer
    BY <2>5, Zenon
  <2>7. q \in DeskReqs
    BY <2>5 DEF DeskReqs, SellReqs
  <2>8. Grounded(q)
    BY <1>0, <2>3, <2>4, <2>6 DEF Grounded
  <2>9. UNCHANGED <<products, offers, raced, sold, usedBy, pro, asked>> /\ req' = [req EXCEPT ![r] = q]
    BY <1>5, <2>2, <2>4, <2>5 DEF Desk!ReadProduct, Desk!tables, Desk!history
  <2> QED
    BY <1>0, <2>7, <2>8, <2>9, DeskOnlyAsks
<1> QED
  BY <1>1, <1>2, <1>3, <1>4, <1>5

LEMMA DeskSells ==
    ASSUME DeskInv, NEW r \in Requests, NEW c \in Sold, Desk!SellCard(r, c)
    PROVE  DeskInv'
<1>0. req[r] \in SellReqs /\ Grounded(req[r]) /\ req[r].at = "sell"
  BY DeskForms DEF DeskInv, DeskTypes, Desk!SellCard
<1>1. PICK s \in Shops, p \in Products, offer \in Desk!Rows : s = req[r].shop /\ p = req[r].id /\ offer = req[r].row
  BY <1>0 DEF SellReqs
<1>2. PICK made : made = [shop |-> s, of |-> p, kind |-> offer.kind, price |-> offer.price, worth |-> Desk!Worth(offer)]
  OBVIOUS
<1>3. /\ made.shop = s /\ made.of = p /\ made.kind = offer.kind /\ made.price = offer.price
      /\ made.worth = Desk!Worth(offer)
  BY <1>2, Zenon
<1>4. offer.kind \in Desk!Kinds /\ offer.price \in Nat /\ Desk!Worth(offer) \in Nat
  BY DeskAssumed DEF Desk!Rows, Desk!Worth, Desk!DeskAssumption
<1>5. made \in SoldRows
  BY <1>2, <1>4 DEF SoldRows
<1>6. /\ sold' = Desk!With(sold, c, made) /\ usedBy' = Desk!With(usedBy, c, {s}) /\ c \notin DOMAIN sold
      /\ req' = [req EXCEPT ![r] = Desk!Idle] /\ UNCHANGED <<pro, products, asked, offers, raced>>
  BY <1>1, <1>2 DEF Desk!SellCard, Desk!Forget, Desk!history
<1>7. DOMAIN usedBy = DOMAIN sold
  BY DEF DeskInv, DeskTypes
<1>8. /\ DOMAIN sold' = DOMAIN sold \cup {c} /\ sold'[c] = made /\ usedBy'[c] = {s}
      /\ \A d \in DOMAIN sold : sold'[d] = sold[d] /\ usedBy'[d] = usedBy[d]
  <2>1. /\ DOMAIN sold' = DOMAIN sold \cup {c} /\ sold'[c] = made
        /\ \A d \in DOMAIN sold \ {c} : sold'[d] = sold[d]
    BY <1>6 DEF Desk!With
  <2>2. usedBy'[c] = {s} /\ \A d \in DOMAIN usedBy \ {c} : usedBy'[d] = usedBy[d]
    BY <1>6 DEF Desk!With
  <2> QED
    BY <1>6, <1>7, <2>1, <2>2
<1>9. sold' \in [DOMAIN sold' -> SoldRows] /\ usedBy' \in [DOMAIN sold' -> SUBSET Shops] /\ DOMAIN sold' \subseteq Sold
  <2>1. sold \in [DOMAIN sold -> SoldRows] /\ usedBy \in [DOMAIN usedBy -> SUBSET Shops] /\ DOMAIN sold \subseteq Sold
    BY <1>7 DEF DeskInv, DeskTypes
  <2>2. {s} \in SUBSET Shops
    OBVIOUS
  <2>3. sold' \in [DOMAIN sold \cup {c} -> SoldRows] /\ usedBy' \in [DOMAIN usedBy \cup {c} -> SUBSET Shops]
    BY <1>5, <1>6, <2>1, <2>2, WithTypes
  <2> QED
    BY <1>7, <1>8, <2>1, <2>3
<1>10. WellSold(c)'
  BY <1>0, <1>1, <1>3, <1>6, <1>8 DEF WellSold, Grounded
<1>11. ASSUME NEW d \in DOMAIN sold
       PROVE  WellSold(d)'
  <2>1. WellSold(d)
    BY DEF DeskInv
  <2>2. sold'[d] = sold[d] /\ usedBy'[d] = usedBy[d] /\ products' = products /\ offers' = offers
    BY <1>6, <1>8
  <2> QED
    BY <2>1, <2>2 DEF WellSold
<1> QED
  BY <1>6, <1>8, <1>9, <1>10, <1>11, IdleIsGrounded, DeskProductsStay DEF DeskInv, DeskTypes

LEMMA DeskUses ==
    ASSUME DeskInv, NEW r \in Requests, Desk!ListCards(r) \/ \E c \in Sold : Desk!UseCard(r, c)
    PROVE  DeskInv'
<1>0. req[r] \in InReqs
  BY DeskForms DEF DeskInv, DeskTypes, Desk!ListCards, Desk!UseCard
<1>1. PICK s \in Shops : s = req[r].shop
  BY <1>0 DEF InReqs
<1>2. UNCHANGED <<pro, products, sold, asked, offers, raced>> /\ req' = [req EXCEPT ![r] = Desk!Idle]
  BY DEF Desk!ListCards, Desk!UseCard, Desk!Forget, Desk!history
<1>3. /\ DOMAIN usedBy = DOMAIN sold /\ usedBy \in [DOMAIN sold -> SUBSET Shops]
      /\ sold \in [DOMAIN sold -> SoldRows] /\ DOMAIN sold \subseteq Sold
  BY DEF DeskInv, DeskTypes
<1>4. \A c \in DOMAIN sold : usedBy[c] = {sold[c].shop}
  BY DEF DeskInv, WellSold
<1>5. usedBy' = usedBy
  <2>1. CASE Desk!ListCards(r)
    <3>1. usedBy' = [c \in DOMAIN sold |-> IF c \in Desk!Listed(s) THEN usedBy[c] \cup {s} ELSE usedBy[c]]
      BY <1>1, <2>1 DEF Desk!ListCards
    <3>2. \A c \in Desk!Listed(s) : usedBy[c] \cup {s} = usedBy[c]
      BY <1>4 DEF Desk!Listed
    <3> QED
      BY <1>3, <3>1, <3>2
  <2>2. ASSUME NEW c \in Sold, Desk!UseCard(r, c)
        PROVE  usedBy' = usedBy
    <3>1. c \in DOMAIN sold /\ sold[c].shop = s
      BY <1>1, <2>2 DEF Desk!UseCard, Desk!GetCustomerCardInShop
    <3>2. usedBy[c] \cup {s} = usedBy[c]
      BY <1>4, <3>1
    <3>3. usedBy' = [usedBy EXCEPT ![c] = usedBy[c] \cup {s}]
      BY <1>1, <2>2 DEF Desk!UseCard
    <3> QED
      BY <1>3, <3>2, <3>3
  <2> QED
    BY <2>1, <2>2
<1>6. pro \subseteq Shops /\ asked \in 0..MaxAsked
  BY DEF DeskInv, DeskTypes
<1> QED
  BY <1>2, <1>5, <1>6, IdleIsGrounded, DeskOnlyAsks

\* A write leaves those who looked before it stale.
LEMMA LeftStale ==
    ASSUME DeskInv, NEW r \in Requests, Desk!Wrote(r), NEW q \in Requests
    PROVE  /\ req'[q] \in DeskReqs
           /\ req'[q] = Desk!Idle \/ req'[q].at = req[q].at
           /\ req'[q].at \in {"in", "sell"} => req'[q] = req[q]
           /\ req'[q].at = "create" => req'[q].row = req[q].row /\ req'[q].shop = req[q].shop
           /\ req'[q].at = "update" => req'[q].id = req[q].id /\ req'[q].shop = req[q].shop /\ req'[q].stale = TRUE
<1>0. req[q] \in DeskReqs
  BY DEF DeskInv, DeskTypes
<1>1. CASE q = r
  BY <1>1 DEF Desk!Wrote, DeskReqs, Desk!Idle
<1>2. CASE q # r /\ req[q].at \notin {"create", "update"}
  <2>1. req'[q] = req[q]
    BY <1>0, <1>2, DeskForms DEF Desk!Wrote
  <2> QED
    BY <1>0, <1>2, <2>1
<1>3. CASE q # r /\ req[q].at \in {"create", "update"}
  <2>1. PICK x : x = [req[q] EXCEPT !.stale = TRUE]
    OBVIOUS
  <2>2. req'[q] = x
    BY <1>0, <1>3, <2>1, DeskForms DEF Desk!Wrote
  <2>3. CASE req[q].at = "create"
    <3>1. req[q] \in CreateReqs
      BY <1>0, <2>3, DeskForms
    <3>2. x \in CreateReqs /\ x.at = "create" /\ x.row = req[q].row /\ x.shop = req[q].shop
      BY <2>1, <3>1 DEF CreateReqs
    <3> QED
      BY <2>2, <2>3, <3>2 DEF DeskReqs
  <2>4. CASE req[q].at = "update"
    <3>1. req[q] \in UpdateReqs
      BY <1>0, <2>4, DeskForms
    <3>2. x \in UpdateReqs /\ x.at = "update" /\ x.id = req[q].id /\ x.shop = req[q].shop /\ x.stale = TRUE
      BY <2>1, <3>1 DEF UpdateReqs
    <3> QED
      BY <2>2, <2>4, <3>2 DEF DeskReqs
  <2> QED
    BY <1>3, <2>3, <2>4
<1> QED
  BY <1>1, <1>2, <1>3

LEMMA DeskStores ==
    ASSUME DeskInv, NEW r \in Requests, NEW p \in Products, NEW offer \in Desk!Rows, Desk!Store(r, p, offer),
           UNCHANGED <<pro, sold, usedBy, asked>>,
           req[r].stale \in BOOLEAN, ~req[r].stale => Desk!WellPriced(offer),
           p \in DOMAIN products => offer.shop = products[p].shop /\ offer.kind = products[p].kind
    PROVE  DeskInv'
<1>0. DOMAIN offers = DOMAIN products
  BY DEF DeskInv, DeskTypes
<1>1. PICK was \in SUBSET Desk!Rows : was = IF p \in DOMAIN offers THEN offers[p] ELSE {}
  BY DEF DeskInv, DeskTypes
<1>2. /\ products' = Desk!With(products, p, offer) /\ offers' = Desk!With(offers, p, was \cup {offer})
      /\ raced' = (IF req[r].stale THEN raced \cup {p} ELSE raced) /\ Desk!Wrote(r)
  BY <1>1 DEF Desk!Store
<1>3. /\ DOMAIN products' = DOMAIN products \cup {p} /\ products'[p] = offer
      /\ \A x \in DOMAIN products \ {p} : products'[x] = products[x]
  BY <1>2 DEF Desk!With
<1>4. /\ offers'[p] = was \cup {offer}
      /\ \A x \in DOMAIN products \ {p} : offers'[x] = offers[x]
  BY <1>0, <1>2 DEF Desk!With
<1>5. \A x \in DOMAIN products : offers[x] \subseteq offers'[x]
  BY <1>0, <1>1, <1>4
<1>6. \A x \in DOMAIN products : products'[x].shop = products[x].shop /\ products'[x].kind = products[x].kind
  BY <1>3
<1>7. /\ products' \in [DOMAIN products' -> Desk!Rows] /\ DOMAIN products' \subseteq Products
      /\ offers' \in [DOMAIN products' -> SUBSET Desk!Rows]
  <2>1. products \in [DOMAIN products -> Desk!Rows] /\ offers \in [DOMAIN offers -> SUBSET Desk!Rows] /\ DOMAIN products \subseteq Products
    BY <1>0 DEF DeskInv, DeskTypes
  <2>2. was \cup {offer} \in SUBSET Desk!Rows
    OBVIOUS
  <2>3. products' \in [DOMAIN products \cup {p} -> Desk!Rows] /\ offers' \in [DOMAIN offers \cup {p} -> SUBSET Desk!Rows]
    BY <1>2, <2>1, <2>2, WithTypes
  <2> QED
    BY <1>0, <1>3, <2>1, <2>3
<1>8. DeskTypes'
  <2>1. req' \in [Requests -> DeskReqs]
    <3>1. \A q \in Requests : req'[q] \in DeskReqs
      BY <1>2, LeftStale
    <3>2. DOMAIN req' = Requests /\ req' = [q \in Requests |-> req'[q]]
      BY <1>2 DEF Desk!Wrote
    <3> QED
      BY <3>1, <3>2
  <2>2. raced' \subseteq DOMAIN products'
    BY <1>2, <1>3 DEF DeskInv, DeskTypes
  <2> QED
    BY <1>7, <2>1, <2>2 DEF DeskInv, DeskTypes
<1>9. ASSUME NEW q \in Requests
      PROVE  Grounded(req[q])'
  <2>1. Grounded(req[q])
    BY DEF DeskInv
  <2>2. /\ req'[q] = Desk!Idle \/ req'[q].at = req[q].at
        /\ req'[q].at \in {"in", "sell"} => req'[q] = req[q]
        /\ req'[q].at = "create" => req'[q].row = req[q].row /\ req'[q].shop = req[q].shop
        /\ req'[q].at = "update" => req'[q].id = req[q].id /\ req'[q].shop = req[q].shop /\ req'[q].stale = TRUE
    BY <1>2, LeftStale
  <2>3. Desk!Idle.at = "idle"
    BY DEF Desk!Idle
  <2> QED
    BY <1>3, <1>5, <1>6, <2>1, <2>2, <2>3 DEF Grounded
<1>10. \A x \in DOMAIN products' : products'[x] \in offers'[x]
  BY <1>3, <1>4 DEF DeskInv
<1>11. \A x \in DOMAIN products' \ raced' : Desk!WellPriced(products'[x])
  BY <1>2, <1>3 DEF DeskInv
<1>12. ASSUME NEW c \in DOMAIN sold'
       PROVE  WellSold(c)'
  <2>1. c \in DOMAIN sold /\ sold' = sold /\ usedBy' = usedBy /\ WellSold(c)
    BY DEF DeskInv
  <2> QED
    BY <1>3, <1>5, <1>6, <2>1 DEF WellSold
<1> QED
  BY <1>8, <1>9, <1>10, <1>11, <1>12 DEF DeskInv, Desk!WellPriced, Desk!Worth

LEMMA DeskWrites ==
    ASSUME DeskInv, NEW r \in Requests, Desk!UpdateCard(r) \/ \E p \in Products : Desk!CreateCard(r, p)
    PROVE  DeskInv'
<1>0. req[r] \in DeskReqs /\ Grounded(req[r])
  BY DEF DeskInv, DeskTypes
<1>1. ASSUME NEW p \in Products, Desk!CreateCard(r, p)
      PROVE  DeskInv'
  <2>1. req[r] \in CreateReqs /\ req[r].at = "create"
    BY <1>0, <1>1, DeskForms DEF Desk!CreateCard
  <2>2. PICK offer \in Desk!Rows : offer = req[r].row
    BY <2>1 DEF CreateReqs
  <2>3. req[r].stale \in BOOLEAN
    BY <2>1 DEF CreateReqs
  <2>4. Desk!WellPriced(offer)
    BY <1>0, <2>1, <2>2 DEF Grounded
  <2> QED
    BY <1>1, <2>2, <2>3, <2>4, DeskStores DEF Desk!CreateCard
<1>2. CASE Desk!UpdateCard(r)
  <2>1. req[r] \in UpdateReqs /\ req[r].at = "update"
    BY <1>0, <1>2, DeskForms DEF Desk!UpdateCard
  <2>2. req[r].change \in Desk!Changes /\ req[r].id \in Products /\ req[r].stale \in BOOLEAN
    BY <2>1 DEF UpdateReqs
  <2>3. PICK p \in Products : p = req[r].id
    BY <2>2
  <2>4. p \in DOMAIN products /\ products[p] \in Desk!Rows
    BY <1>0, <2>1, <2>3 DEF Grounded, DeskInv, DeskTypes
  <2>5. PICK offer : offer = Desk!Changed(products[p], req[r].change)
    OBVIOUS
  <2>6. offer \in Desk!Rows /\ offer.shop = products[p].shop /\ offer.kind = products[p].kind
    BY <2>2, <2>4, <2>5, ChangedIsRow
  <2>7. ~req[r].stale => Desk!WellPriced(offer)
    BY <1>0, <2>1, <2>3, <2>5 DEF Grounded
  <2>8. Desk!Store(r, p, offer) /\ UNCHANGED <<pro, sold, usedBy, asked>>
    BY <1>2, <2>3, <2>5 DEF Desk!UpdateCard
  <2> QED
    BY <2>2, <2>6, <2>7, <2>8, DeskStores
<1> QED
  BY <1>1, <1>2

LEMMA DeskStep == DeskInv /\ [Desk!Next]_Desk!vars => DeskInv'
<1> SUFFICES ASSUME DeskInv, [Desk!Next]_Desk!vars PROVE DeskInv'
  OBVIOUS
<1>1. ASSUME UNCHANGED <<products, offers, raced, sold, usedBy, req, asked>>, pro' \subseteq Shops
      PROVE  DeskInv'
  BY <1>1 DEF DeskInv, DeskTypes, Grounded, WellSold, Desk!WellPriced, Desk!Worth
<1>2. ASSUME NEW s \in Shops, Desk!ChangePlan(s)
      PROVE  DeskInv'
  BY <1>1, <1>2 DEF Desk!ChangePlan, Desk!tables, Desk!history, DeskInv, DeskTypes
<1>3. CASE UNCHANGED Desk!vars
  BY <1>1, <1>3 DEF Desk!vars, Desk!tables, Desk!history, DeskInv, DeskTypes
<1> QED
  BY <1>2, <1>3, DeskLooks, DeskSells, DeskUses, DeskWrites DEF Desk!Next

LEMMA DeskTold == DeskInv => Desk!TypeOK /\ Desk!WorthItsPrice /\ Desk!SoldAsOffered /\ Desk!OwnShopOnly
<1> SUFFICES ASSUME DeskInv PROVE Desk!TypeOK /\ Desk!WorthItsPrice /\ Desk!SoldAsOffered /\ Desk!OwnShopOnly
  OBVIOUS
<1>1. Desk!TypeOK
  BY DEF DeskInv, DeskTypes, Desk!TypeOK
<1>2. Desk!WorthItsPrice
  BY DEF DeskInv, Desk!WorthItsPrice
<1>3. Desk!SoldAsOffered
  BY DEF DeskInv, WellSold, Desk!SoldAsOffered
<1>4. Desk!OwnShopOnly
  BY DEF DeskInv, WellSold, Desk!OwnShopOnly
<1> QED
  BY <1>1, <1>2, <1>3, <1>4

------------------------------------------------------------------------------
(* The figures of the reports *)

\* Two functions of the subsets of a finite set that take the same step from a subset to
\* one with one element less are one.
LEMMA FoldIsUnique ==
    ASSUME NEW S, IsFiniteSet(S), NEW g, NEW h, g[{}] = h[{}],
           \A s \in (SUBSET S) \ {{}} :
              g[s \ {CHOOSE x \in s : TRUE}] = h[s \ {CHOOSE x \in s : TRUE}] => g[s] = h[s]
    PROVE  g[S] = h[S]
<1> DEFINE B == {Cardinality(s) : s \in {s \in SUBSET S : g[s] # h[s]}}
           R == {p \in Nat \X Nat : p[1] < p[2]}
<1> SUFFICES ASSUME g[S] # h[S] PROVE FALSE
  OBVIOUS
<1>1. \A s \in SUBSET S : IsFiniteSet(s) /\ Cardinality(s) \in Nat
  BY FS_Subset, FS_CardinalityType
<1>2. B \subseteq Nat /\ B # {}
  BY <1>1
<1>3. IsWellFoundedOn(R, Nat)
  BY NatLessThanWellFounded DEF OpToRel
<1>4. \E n \in B : \A m \in B : ~(<<m, n>> \in R)
  <2> HIDE DEF B, R
  <2> QED
    BY <1>2, <1>3, WFMin
<1>5. PICK s \in SUBSET S : g[s] # h[s] /\ \A m \in B : ~(<<m, Cardinality(s)>> \in R)
  BY <1>4
<1>6. \A m \in B : ~(m < Cardinality(s))
  BY <1>1, <1>2, <1>5
<1>7. s # {}
  BY <1>5
<1>8. PICK x \in s : x = CHOOSE y \in s : TRUE
  BY <1>7
<1>9. s \ {x} \in SUBSET S /\ Cardinality(s \ {x}) = Cardinality(s) - 1
  BY <1>1, FS_RemoveElement
<1>10. Cardinality(s \ {x}) < Cardinality(s)
  BY <1>1, <1>9
<1>11. g[s \ {x}] = h[s \ {x}]
  BY <1>6, <1>9, <1>10
<1> QED
  BY <1>5, <1>7, <1>8, <1>11

LEMMA RepSame == \A S : (Rep!IsFiniteSet(S) <=> IsFiniteSet(S)) /\ Rep!Cardinality(S) = Cardinality(S)
<1>1. \A S : Rep!IsFiniteSet(S) <=> IsFiniteSet(S)
  BY DEF Rep!IsFiniteSet, IsFiniteSet
<1>2. \A S : Rep!Cardinality(S) = Cardinality(S)
  BY DEF Rep!Cardinality, Cardinality
<1> QED
  BY <1>1, <1>2

LEMMA TwoParts ==
    ASSUME NEW A, NEW B, IsFiniteSet(A), IsFiniteSet(B), A \cap B = {}
    PROVE  /\ IsFiniteSet(A \cup B) /\ Cardinality(A \cup B) = Cardinality(A) + Cardinality(B)
           /\ Cardinality(A) \in Nat /\ Cardinality(B) \in Nat
<1>1. Cardinality(A) \in Nat /\ Cardinality(B) \in Nat /\ Cardinality(A \cap B) = 0
  BY FS_CardinalityType, FS_EmptySet
<1>2. IsFiniteSet(A \cup B) /\ Cardinality(A \cup B) = Cardinality(A) + Cardinality(B) - Cardinality(A \cap B)
  BY FS_Union
<1> QED
  BY <1>1, <1>2

------------------------------------------------------------------------------
\* A trend adds up to what falls on its days.
LEMMA TrendSums ==
    ASSUME NEW N \in Nat, NEW rows_, IsFiniteSet(rows_), NEW d,
           NEW trend, trend = [i \in 0..(N - 1) |-> Cardinality({a \in rows_ : d[a] = i})]
    PROVE  Rep!Sum(trend) = Cardinality({a \in rows_ : d[a] \in 0..(N - 1)})
<1> DEFINE D == 0..(N - 1)
           Fall(s) == {a \in rows_ : d[a] \in s}
           g == [s \in SUBSET D |-> Cardinality(Fall(s))]
           Adds(f) == f = [s \in SUBSET D |->
                              IF s = {} THEN 0 ELSE f[s \ {CHOOSE x \in s : TRUE}] + trend[CHOOSE x \in s : TRUE]]
<1>1. IsFiniteSet(D) /\ DOMAIN trend = D
  BY FS_Interval
<1>2. \A s : IsFiniteSet(Fall(s)) /\ Cardinality(Fall(s)) \in Nat
  BY FS_Subset, FS_CardinalityType
<1>3. \A s \in (SUBSET D) \ {{}} : \A x \in s : Cardinality(Fall(s)) = Cardinality(Fall(s \ {x})) + trend[x]
  <2> TAKE s \in (SUBSET D) \ {{}}
  <2> TAKE x \in s
  <2>1. Fall(s) = Fall(s \ {x}) \cup Fall({x}) /\ Fall(s \ {x}) \cap Fall({x}) = {}
    OBVIOUS
  <2>2. Cardinality(Fall(s \ {x}) \cup Fall({x})) = Cardinality(Fall(s \ {x})) + Cardinality(Fall({x}))
    <3> HIDE DEF Fall
    <3> QED
      BY <1>2, <2>1, TwoParts
  <2>3. Fall({x}) = {a \in rows_ : d[a] = x}
    OBVIOUS
  <2>4. trend[x] = Cardinality(Fall({x}))
    BY <2>3
  <2> QED
    BY <2>1, <2>2, <2>4
<1>4. Fall({}) = {} /\ Cardinality(Fall({})) = 0
  BY FS_EmptySet
<1>5. Adds(g)
  <2>1. ASSUME NEW s \in SUBSET D
        PROVE  g[s] = IF s = {} THEN 0 ELSE g[s \ {CHOOSE x \in s : TRUE}] + trend[CHOOSE x \in s : TRUE]
    <3>1. CASE s = {}
      BY <1>4, <3>1
    <3>2. CASE s # {}
      <4>1. PICK x \in s : x = CHOOSE y \in s : TRUE
        BY <3>2
      <4>2. s \ {x} \in SUBSET D
        OBVIOUS
      <4>3. g[s] = Cardinality(Fall(s)) /\ g[s \ {x}] = Cardinality(Fall(s \ {x}))
        BY <4>2
      <4>4. Cardinality(Fall(s)) = Cardinality(Fall(s \ {x})) + trend[x]
        BY <1>3, <3>2
      <4> HIDE DEF g, Fall
      <4> QED
        BY <3>2, <4>1, <4>3, <4>4
    <3> QED
      BY <3>1, <3>2
  <2> QED
    BY <2>1
<1>6. PICK h : h = CHOOSE f : Adds(f)
  OBVIOUS
<1>7. Adds(h)
  <2> HIDE DEF Adds, g
  <2> QED
    BY <1>5, <1>6
<1>8. Rep!Sum(trend) = h[D]
  BY <1>1, <1>6 DEF Rep!Sum, Rep!FoldSet, Rep!MapThenFoldSet
<1>9. g[D] = h[D]
  <2>1. \A s \in SUBSET D : g[s] = IF s = {} THEN 0 ELSE g[s \ {CHOOSE x \in s : TRUE}] + trend[CHOOSE x \in s : TRUE]
    BY <1>5
  <2>2. \A s \in SUBSET D : h[s] = IF s = {} THEN 0 ELSE h[s \ {CHOOSE x \in s : TRUE}] + trend[CHOOSE x \in s : TRUE]
    BY <1>7
  <2> HIDE DEF g, D
  <2>3. g[{}] = h[{}]
    BY <2>1, <2>2
  <2>4. \A s \in (SUBSET D) \ {{}} :
              g[s \ {CHOOSE x \in s : TRUE}] = h[s \ {CHOOSE x \in s : TRUE}] => g[s] = h[s]
    <3> TAKE s \in (SUBSET D) \ {{}}
    <3> PICK c : c = CHOOSE x \in s : TRUE
      OBVIOUS
    <3>1. g[s] = g[s \ {c}] + trend[c]
      BY <2>1
    <3>2. h[s] = h[s \ {c}] + trend[c]
      BY <2>2
    <3> QED
      BY <3>1, <3>2
  <2> QED
    BY SMTT(30), <1>1, <2>3, <2>4, FoldIsUnique
<1>10. g[D] = Cardinality(Fall(D))
  OBVIOUS
<1> QED
  BY <1>8, <1>9, <1>10
LEMMA DivParts ==
    ASSUME NEW t \in Nat, NEW N \in Nat \ {0}
    PROVE  t \div N \in Int /\ t = N * (t \div N) + (t % N)
OBVIOUS
\* Two times of the job are a week apart at least.
LEMMA JobsApart ==
    ASSUME NEW t \in Nat, NEW u \in Nat, NEW N \in Nat \ {0}, t % N = 1, u % N = 1, t < u
    PROVE  t + N <= u
<1> PICK x \in Int : x = t \div N
  BY DivParts
<1> PICK y \in Int : y = u \div N
  BY DivParts
<1>1. t = N * x + 1 /\ u = N * y + 1
  BY DivParts
<1>2. N * y - N * x > 0
  BY <1>1
<1>3. y > x
  <2> SUFFICES ASSUME y <= x PROVE FALSE
    OBVIOUS
  <2> PICK z \in Nat : x = y + z
    OBVIOUS
  <2>1. N * x = N * y + N * z /\ N * z >= 0
    OBVIOUS
  <2> QED
    BY <1>2, <2>1
<1>4. PICK z \in Nat : y = x + 1 + z
  <2>1. y - x - 1 \in Nat /\ y = x + 1 + (y - x - 1)
    BY <1>3
  <2> QED
    BY <2>1
<1>5. N * y = N * x + N + N * z /\ N * z >= 0
  BY <1>4
<1>6. N * x \in Int /\ N * y \in Int /\ N * z \in Int
  OBVIOUS
<1> DEFINE a == N * x  b == N * y  c == N * z
<1>7. t = a + 1 /\ u = b + 1 /\ b = a + N + c /\ c >= 0
  BY <1>1, <1>5, <1>6
<1> HIDE DEF a, b, c
<1>8. a \in Int /\ b \in Int /\ c \in Int
  BY <1>6 DEF a, b, c
<1> QED
  BY <1>7, <1>8

------------------------------------------------------------------------------
(* Counting *)

LEMMA RepFacts ==
    /\ IsFiniteSet(Appts) /\ IsFiniteSet(Branches) /\ ShopOf \in [Appts -> Branches]
    /\ Week \in Nat \ {0} /\ Baseline \in Nat \ {0} /\ First \in Nat \ {0} /\ RankLimit \in Nat \ {0}
    /\ MaxTime \in Nat
BY ReportsAssumed, RepSame DEF Rep!ReportsAssumption

\* Sets of appointments are counted by numbers.
LEMMA Counted ==
    ASSUME NEW R, R \subseteq Appts
    PROVE  IsFiniteSet(R) /\ Cardinality(R) \in Nat
BY RepFacts, FS_Subset, FS_CardinalityType

Fields == {"total", "completed", "noshow", "cancelled", "active"}

Counts(f, R) == IF f = "total" THEN R ELSE {a \in R : row[a].status = f}

LEMMA SummaryForm ==
    ASSUME NEW R
    PROVE  Rep!Summary(R) = [f \in Fields |-> Cardinality(Counts(f, R))]
<1>1. /\ Counts("total", R) = R
      /\ \A f \in Fields \ {"total"} : Counts(f, R) = {a \in R : row[a].status = f}
  BY DEF Counts
<1>2. /\ Rep!Summary(R) = [f \in Fields |-> Rep!Summary(R)[f]]
      /\ Rep!Summary(R)["total"] = Cardinality(R)
      /\ \A f \in Fields \ {"total"} : Rep!Summary(R)[f] = Rep!With(R, f)
  BY RepSame DEF Rep!Summary, Fields
<1>4. \A f : Rep!With(R, f) = Cardinality({a \in R : row[a].status = f})
  BY RepSame DEF Rep!With
<1>3. \A f \in Fields : Rep!Summary(R)[f] = Cardinality(Counts(f, R))
  BY <1>1, <1>2, <1>4 DEF Fields
<1> HIDE DEF Fields, Counts, Rep!Summary
<1> QED
  BY <1>2, <1>3

\* What is told of two sets that have nothing in common is told of both together.
LEMMA SummaryOfBoth ==
    ASSUME NEW A, NEW B, A \subseteq Appts, B \subseteq Appts, A \cap B = {}
    PROVE  Rep!Summary(A \cup B) = Rep!Plus(Rep!Summary(A), Rep!Summary(B))
<1>1. ASSUME NEW f \in Fields
      PROVE  Cardinality(Counts(f, A \cup B)) = Cardinality(Counts(f, A)) + Cardinality(Counts(f, B))
  <2>1. /\ Counts(f, A \cup B) = Counts(f, A) \cup Counts(f, B) /\ Counts(f, A) \cap Counts(f, B) = {}
        /\ Counts(f, A) \subseteq Appts /\ Counts(f, B) \subseteq Appts
    BY DEF Counts
  <2> QED
    BY <2>1, Counted, TwoParts
<1>2. DOMAIN Rep!Summary(A) = Fields /\ \A f \in Fields : Rep!Summary(A)[f] = Cardinality(Counts(f, A))
  BY SummaryForm
<1>3. \A f \in Fields : Rep!Summary(B)[f] = Cardinality(Counts(f, B))
  BY SummaryForm
<1>4. Rep!Summary(A \cup B) = [f \in Fields |-> Cardinality(Counts(f, A \cup B))]
  BY SummaryForm
<1>5. Rep!Plus(Rep!Summary(A), Rep!Summary(B)) = [f \in Fields |-> Rep!Summary(A)[f] + Rep!Summary(B)[f]]
  BY <1>2 DEF Rep!Plus
<1> QED
  BY <1>1, <1>2, <1>3, <1>4, <1>5

LEMMA ReportForm ==
    ASSUME NEW s, NEW t
    PROVE  /\ Rep!BuildWeeklyUsageReport(s, t).all = Rep!Summary(Rep!Window(s, t))
           /\ Rep!BuildWeeklyUsageReport(s, t).last = Rep!LastWeek(s, t)
           /\ Rep!BuildWeeklyUsageReport(s, t).trend = Rep!Trend(Rep!Window(s, t), t - Rep!Days(Week), Week)
BY DEF Rep!BuildWeeklyUsageReport

------------------------------------------------------------------------------
(* All shops together *)

LEMMA ChainAddsUp == Rep!ChainCountsAll
<1> DEFINE Of(S) == UNION {Rep!Window(s, now) : s \in S}
           g == [S \in (SUBSET Branches) |-> Rep!Summary(Of(S))]
           Adds(f) == f = [S \in (SUBSET Branches) |->
                              IF S = {} THEN Rep!Zero
                              ELSE Rep!Plus(f[S \ {CHOOSE s \in S : TRUE}],
                                        Rep!BuildWeeklyUsageReport(CHOOSE s \in S : TRUE, now).all)]
<1>1. \A s : Rep!Window(s, now) \subseteq Appts /\ \A a \in Rep!Window(s, now) : ShopOf[a] = s
  BY DEF Rep!Window, Rep!In
<1>2. \A S \in (SUBSET Branches) \ {{}} : \A s \in S :
          Rep!Summary(Of(S)) = Rep!Plus(Rep!Summary(Of(S \ {s})), Rep!BuildWeeklyUsageReport(s, now).all)
  <2> TAKE S \in (SUBSET Branches) \ {{}}
  <2> TAKE s \in S
  <2>1. /\ Of(S) = Of(S \ {s}) \cup Rep!Window(s, now) /\ Of(S \ {s}) \cap Rep!Window(s, now) = {}
        /\ Of(S \ {s}) \subseteq Appts
    BY <1>1
  <2>2. Rep!Summary(Of(S \ {s}) \cup Rep!Window(s, now)) = Rep!Plus(Rep!Summary(Of(S \ {s})), Rep!Summary(Rep!Window(s, now)))
    <3> HIDE DEF Of
    <3> QED
      BY <1>1, <2>1, SummaryOfBoth
  <2> QED
    BY <2>1, <2>2, ReportForm
<1>3. Of({}) = {}
  OBVIOUS
<1>4. Adds(g)
  <2>1. ASSUME NEW S \in SUBSET Branches
        PROVE  g[S] = IF S = {} THEN Rep!Zero
                      ELSE Rep!Plus(g[S \ {CHOOSE s \in S : TRUE}],
                                Rep!BuildWeeklyUsageReport(CHOOSE s \in S : TRUE, now).all)
    <3>1. CASE S = {}
      BY <1>3, <3>1 DEF Rep!Zero
    <3>2. CASE S # {}
      <4>1. PICK s \in S : s = CHOOSE x \in S : TRUE
        BY <3>2
      <4>2. g[S] = Rep!Summary(Of(S)) /\ g[S \ {s}] = Rep!Summary(Of(S \ {s}))
        <5> HIDE DEF Of
        <5> QED
          OBVIOUS
      <4>3. Rep!Summary(Of(S)) = Rep!Plus(Rep!Summary(Of(S \ {s})), Rep!BuildWeeklyUsageReport(s, now).all)
        BY <1>2, <3>2
      <4> HIDE DEF g, Of
      <4> QED
        BY <3>2, <4>1, <4>2, <4>3
    <3> QED
      BY <3>1, <3>2
  <2> HIDE DEF Of
  <2> QED
    BY <2>1
<1>5. PICK h : h = CHOOSE f : Adds(f)
  OBVIOUS
<1>6. Adds(h)
  <2> HIDE DEF Adds, g
  <2> QED
    BY <1>4, <1>5
<1>7. Rep!ChainTotal(now) = h[Branches]
  BY <1>5 DEF Rep!ChainTotal, Rep!FoldSet, Rep!MapThenFoldSet
<1>8. g[Branches] = h[Branches]
  <2>1. \A S \in SUBSET Branches : g[S] = IF S = {} THEN Rep!Zero
                                       ELSE Rep!Plus(g[S \ {CHOOSE s \in S : TRUE}],
                                                 Rep!BuildWeeklyUsageReport(CHOOSE s \in S : TRUE, now).all)
    <3> HIDE DEF g
    <3> QED
      BY <1>4
  <2>2. \A S \in SUBSET Branches : h[S] = IF S = {} THEN Rep!Zero
                                       ELSE Rep!Plus(h[S \ {CHOOSE s \in S : TRUE}],
                                                 Rep!BuildWeeklyUsageReport(CHOOSE s \in S : TRUE, now).all)
    BY <1>6
  <2> HIDE DEF g, Of
  <2>3. g[{}] = h[{}]
    BY <2>1, <2>2
  <2>4. \A S \in (SUBSET Branches) \ {{}} :
              g[S \ {CHOOSE s \in S : TRUE}] = h[S \ {CHOOSE s \in S : TRUE}] => g[S] = h[S]
    <3> TAKE S \in (SUBSET Branches) \ {{}}
    <3> PICK c : c = CHOOSE s \in S : TRUE
      OBVIOUS
    <3>1. g[S] = Rep!Plus(g[S \ {c}], Rep!BuildWeeklyUsageReport(c, now).all)
      BY <2>1
    <3>2. h[S] = Rep!Plus(h[S \ {c}], Rep!BuildWeeklyUsageReport(c, now).all)
      BY <2>2
    <3> QED
      BY <3>1, <3>2
  <2> QED
    BY <2>3, <2>4, RepFacts, FoldIsUnique
<1>9. g[Branches] = Rep!Summary(Of(Branches))
  <2> HIDE DEF Of
  <2> QED
    OBVIOUS
<1> QED
  BY <1>7, <1>8, <1>9 DEF Rep!ChainCountsAll

------------------------------------------------------------------------------
(* Rep!Phases, trend and hand-offs *)

LEMMA PhasesDo == Rep!TypeOK => Rep!PhasesAddUp
<1> SUFFICES ASSUME Rep!TypeOK, NEW s \in Branches, NEW from \in 0..now
             PROVE  Rep!Plus(Rep!BuildD15UsageReport(s, from, now).phases.baseline,
                         Rep!BuildD15UsageReport(s, from, now).phases.growth)
                      = Rep!BuildD15UsageReport(s, from, now).all
  BY DEF Rep!PhasesAddUp
<1>1. now \in Nat /\ from \in Nat /\ from <= now /\ \A a \in Appts : row[a].at \in Nat
  BY RepFacts DEF Rep!TypeOK, Rep!Times
<1>2. PICK to : to = Rep!Least(now, from + Rep!Days(First))
  OBVIOUS
<1>3. /\ Rep!BuildD15UsageReport(s, from, now).phases.baseline
           = Rep!Summary(Rep!In(s, from, Rep!Least(to, from + Rep!Days(Baseline))))
      /\ Rep!BuildD15UsageReport(s, from, now).phases.growth = Rep!Summary(Rep!In(s, from + Rep!Days(Baseline), to))
      /\ Rep!BuildD15UsageReport(s, from, now).all = Rep!Summary(Rep!In(s, from, to))
  BY <1>2 DEF Rep!BuildD15UsageReport, Rep!Phases
<1>4. to \in Nat /\ from <= to
  BY <1>1, <1>2, RepFacts DEF Rep!Least, Rep!Days
<1>5. PICK mid \in Nat : mid = from + Rep!Days(Baseline)
  BY <1>1, RepFacts DEF Rep!Days
<1>6. from <= mid
  BY <1>1, <1>5, RepFacts DEF Rep!Days
<1>7. PICK A, B : A = Rep!In(s, from, Rep!Least(to, mid)) /\ B = Rep!In(s, mid, to)
  OBVIOUS
<1>8. A \subseteq Appts /\ B \subseteq Appts /\ A \cap B = {} /\ A \cup B = Rep!In(s, from, to)
  BY <1>1, <1>4, <1>6, <1>7 DEF Rep!In, Rep!Least
<1>9. Rep!Summary(A \cup B) = Rep!Plus(Rep!Summary(A), Rep!Summary(B))
  BY <1>8, SummaryOfBoth
<1> QED
  BY <1>3, <1>5, <1>7, <1>8, <1>9

LEMMA TrendDoes == Rep!TypeOK => Rep!TrendTells
<1> SUFFICES ASSUME Rep!TypeOK, NEW s \in Branches
             PROVE  /\ Rep!Sum(Rep!BuildWeeklyUsageReport(s, now).trend) <= Rep!BuildWeeklyUsageReport(s, now).all.total
                    /\ now = Rep!Midnight(now) =>
                         Rep!Sum(Rep!BuildWeeklyUsageReport(s, now).trend) = Rep!BuildWeeklyUsageReport(s, now).all.total
  BY DEF Rep!TrendTells
<1>1. now \in Nat /\ \A a \in Appts : row[a].at \in Nat
  BY RepFacts DEF Rep!TypeOK, Rep!Times
<1>2. PICK R : R = Rep!Window(s, now)
  OBVIOUS
<1>3. PICK first \in Int : first = Rep!Day(now - Rep!Days(Week))
  BY <1>1, RepFacts DEF Rep!Day, Rep!Days
<1>4. PICK d : d = [a \in R |-> Rep!Day(row[a].at) - first]
  OBVIOUS
<1>5. \A a \in R : a \in Appts /\ now - 2 * Week <= row[a].at /\ row[a].at < now
  BY <1>2 DEF Rep!Window, Rep!In, Rep!Days
<1>6. \A a \in R : \A i \in 0..(Week - 1) : Rep!Day(row[a].at) = first + i <=> d[a] = i
  BY <1>1, <1>4, <1>5, RepFacts DEF Rep!Day
<1>7. Rep!Trend(R, now - Rep!Days(Week), Week) = [i \in 0..(Week - 1) |-> Cardinality({a \in R : d[a] = i})]
  <2>1. \A i \in 0..(Week - 1) : {a \in R : Rep!Day(row[a].at) = first + i} = {a \in R : d[a] = i}
    BY <1>6
  <2>2. Rep!Trend(R, now - Rep!Days(Week), Week)
          = [i \in 0..(Week - 1) |-> Cardinality({a \in R : Rep!Day(row[a].at) = first + i})]
    BY <1>3, RepSame DEF Rep!Trend
  <2> QED
    BY <2>1, <2>2
<1>8. Rep!Sum(Rep!Trend(R, now - Rep!Days(Week), Week)) = Cardinality({a \in R : d[a] \in 0..(Week - 1)})
  <2>1. R \subseteq Appts
    BY <1>5
  <2>2. PICK tr : tr = Rep!Trend(R, now - Rep!Days(Week), Week)
    OBVIOUS
  <2>3. IsFiniteSet(R) /\ Week \in Nat
    BY <2>1, RepFacts, Counted
  <2>4. tr = [i \in 0..(Week - 1) |-> Cardinality({a \in R : d[a] = i})]
    BY <1>7, <2>2, Zenon
  <2>5. Rep!Sum(tr) = Cardinality({a \in R : d[a] \in 0..(Week - 1)})
    BY <2>3, <2>4, TrendSums, ZenonT(30)
  <2> QED
    BY <2>2, <2>5, Zenon
<1>9. /\ Cardinality({a \in R : d[a] \in 0..(Week - 1)}) <= Cardinality(R)
  BY <1>5, Counted, FS_Subset
<1>10. ASSUME now = Rep!Midnight(now)
       PROVE  {a \in R : d[a] \in 0..(Week - 1)} = R
  <2> SUFFICES ASSUME NEW a \in R PROVE d[a] \in 0..(Week - 1)
    OBVIOUS
  <2>1. PICK at \in Nat, w \in Nat, n \in Nat : at = row[a].at /\ w = Week /\ n = now
    BY <1>1, <1>5, RepFacts
  <2>2. n = 2 * (n \div 2) /\ n - 2 * w <= at /\ at < n
    BY <1>5, <1>10, <2>1 DEF Rep!Midnight, Rep!Day
  <2>3. d[a] = (at \div 2) - ((n - 2 * w) \div 2)
    BY <1>3, <1>4, <2>1 DEF Rep!Day, Rep!Days
  <2>4. (at \div 2) - ((n - 2 * w) \div 2) \in 0..(w - 1)
    BY <2>2
  <2> QED
    BY <2>1, <2>3, <2>4
<1>11. Rep!BuildWeeklyUsageReport(s, now).all.total = Cardinality(R)
  <2>1. Rep!BuildWeeklyUsageReport(s, now).all = Rep!Summary(R)
    BY <1>2, ReportForm
  <2>2. Rep!Summary(R).total = Cardinality(R)
    BY RepSame DEF Rep!Summary
  <2> QED
    BY <2>1, <2>2
<1>12. Rep!BuildWeeklyUsageReport(s, now).trend = Rep!Trend(R, now - Rep!Days(Week), Week)
  BY <1>2, ReportForm
<1> QED
  BY <1>8, <1>9, <1>10, <1>11, <1>12

LEMMA PendingDoes == Rep!TypeOK => Rep!PendingAgrees
<1> SUFFICES ASSUME Rep!TypeOK PROVE Rep!PendingAgrees
  OBVIOUS
<1> DEFINE A == {t \in Rep!Times : Rep!Since(now) <= t /\ t < now /\ event[<<t, Rep!Handoff>>] > 0}
           B == {t \in Rep!Times : Rep!Midnight(now) <= t /\ event[<<t, Rep!Handoff>>] > 0}
<1>1. IsFiniteSet(Rep!Times)
  BY RepFacts, FS_Interval DEF Rep!Times
<1>2. A \subseteq B /\ B \subseteq Rep!Times
  BY DEF Rep!Since
<1>3. IsFiniteSet(B) /\ Cardinality(A) <= Cardinality(B) /\ Cardinality(A) \in Nat /\ Cardinality(B) \in Nat
  <2>1. IsFiniteSet(B) /\ IsFiniteSet(A)
    BY <1>1, <1>2, FS_Subset
  <2> HIDE DEF A, B
  <2> QED
    BY <1>2, <2>1, FS_Subset, FS_CardinalityType
<1>4. Rep!Events(Rep!Handoff, Rep!Since(now), now) = Cardinality(A)
  BY RepSame DEF Rep!Events
<1>5. Rep!HandoffAlert(now) = Cardinality(B)
  BY RepSame DEF Rep!HandoffAlert
<1>6. Rep!HandoffPendingToday(now) \in {Cardinality(A), 0}
  <2> HIDE DEF A
  <2> QED
    BY <1>4 DEF Rep!HandoffPendingToday
<1> QED
  <2> HIDE DEF A, B
  <2> QED
    BY <1>3, <1>5, <1>6 DEF Rep!PendingAgrees

------------------------------------------------------------------------------
(* The reports that were made *)

SentInv == \A t \in DOMAIN sent : Rep!JobTime(t) /\ t <= now

\* An appointment that was not moved is where it was when the reports were made.
CountInv == \A a \in Appts \ moved : counted[a] = {t \in DOMAIN sent : a \in Rep!Window(ShopOf[a], t)}

\* As long as none was moved, the tables still give the totals that were sent.
WeekInv ==
    moved = {} =>
        \A t \in DOMAIN sent, s \in Branches :
            /\ sent[t][s].total = Cardinality(Rep!Window(s, t))
            /\ sent[t][s].last = Cardinality(Rep!In(s, t - Rep!Days(Week) - Rep!Days(Week), t - Rep!Days(Week)))

RepInv == Rep!TypeOK /\ SentInv /\ CountInv /\ WeekInv

LEMMA RepInit == Rep!Init => RepInv
<1> SUFFICES ASSUME Rep!Init PROVE RepInv
  OBVIOUS
<1>1. DOMAIN sent = {} /\ counted = [a \in Appts |-> {}] /\ now = 0
  BY DEF Rep!Init
<1>2. Rep!TypeOK
  BY <1>1, RepFacts DEF Rep!Init, Rep!TypeOK, Rep!Times, Rep!Status
<1> QED
  BY <1>1, <1>2 DEF RepInv, SentInv, CountInv, WeekInv

LEMMA RepTypesStep == Rep!TypeOK /\ [Rep!Next]_Rep!vars => Rep!TypeOK'
<1> SUFFICES ASSUME Rep!TypeOK, [Rep!Next]_Rep!vars PROVE Rep!TypeOK'
  OBVIOUS
<1>1. ASSUME NEW a \in Appts, NEW at \in Rep!Times, Rep!Make(a, at) \/ Rep!Move(a, at)
      PROVE  Rep!TypeOK'
  BY <1>1 DEF Rep!Make, Rep!Move, Rep!TypeOK, Rep!Status, Rep!Times
<1>2. ASSUME NEW a \in Appts, NEW st \in Rep!Status \ {"none"}, Rep!Change(a, st)
      PROVE  Rep!TypeOK'
  BY <1>2 DEF Rep!Change, Rep!TypeOK, Rep!Status, Rep!Times
<1>3. ASSUME NEW y \in Types, Rep!Track(y)
      PROVE  Rep!TypeOK'
  BY <1>3 DEF Rep!Track, Rep!TypeOK, Rep!Times
<1>4. CASE Rep!Tick
  BY <1>4, RepFacts DEF Rep!Tick, Rep!TypeOK, Rep!Times
<1>5. CASE Rep!Scan
  <2>1. DOMAIN sent' = DOMAIN sent \cup {now} /\ UNCHANGED <<now, row, moved, event>>
    BY <1>5 DEF Rep!Scan
  <2>2. counted' \in [Appts -> SUBSET Rep!Times]
    BY <1>5 DEF Rep!Scan, Rep!TypeOK
  <2> QED
    BY <2>1, <2>2 DEF Rep!TypeOK, Rep!Times
<1>6. CASE UNCHANGED Rep!vars
  BY <1>6 DEF Rep!vars, Rep!TypeOK, Rep!Times
<1> QED
  BY <1>1, <1>2, <1>3, <1>4, <1>5, <1>6 DEF Rep!Next

\* What is made or closed now was not in the past, or stays where it is in it.
LEMMA PastStays ==
    ASSUME Rep!TypeOK, NEW a \in Appts,
           (\E at \in Rep!Times : Rep!Make(a, at)) \/ (\E st \in Rep!Status \ {"none"} : Rep!Change(a, st)),
           NEW s, NEW from \in Int, NEW to \in Int, to <= now
    PROVE  Rep!In(s, from, to)' = Rep!In(s, from, to)
<1>1. now \in Nat /\ \A b \in Appts : row[b].at \in Nat
  BY RepFacts DEF Rep!TypeOK, Rep!Times
<1>2. ASSUME NEW at \in Rep!Times, Rep!Make(a, at)
      PROVE  Rep!In(s, from, to)' = Rep!In(s, from, to)
  <2>1. /\ row[a].status = "none" /\ at > now /\ row'[a].at = at /\ at \in Nat
        /\ \A b \in Appts \ {a} : row'[b] = row[b]
    BY <1>2, RepFacts DEF Rep!Make, Rep!TypeOK, Rep!Times
  <2>2. a \notin Rep!In(s, from, to) /\ a \notin Rep!In(s, from, to)'
    BY <1>1, <2>1 DEF Rep!In
  <2> QED
    BY <2>1, <2>2 DEF Rep!In
<1>3. ASSUME NEW st \in Rep!Status \ {"none"}, Rep!Change(a, st)
      PROVE  Rep!In(s, from, to)' = Rep!In(s, from, to)
  <2>1. /\ row[a].status # "none" /\ row'[a].status # "none" /\ row'[a].at = row[a].at
        /\ \A b \in Appts \ {a} : row'[b] = row[b]
    BY <1>3 DEF Rep!Change, Rep!TypeOK
  <2>2. \A b \in Appts : (row'[b].status # "none" <=> row[b].status # "none") /\ row'[b].at = row[b].at
    BY <2>1
  <2> QED
    BY <2>2 DEF Rep!In
<1> QED
  BY <1>2, <1>3

\* The times of the windows are numbers.
LEMMA WindowTimes ==
    ASSUME Rep!TypeOK, NEW t \in DOMAIN sent
    PROVE  t \in Nat /\ t \in Rep!Times /\ Rep!Days(Week) \in Nat \ {0}
           /\ t - Rep!Days(Week) \in Int /\ t - Rep!Days(Week) - Rep!Days(Week) \in Int /\ t - Rep!Days(Week) <= t
BY RepFacts DEF Rep!TypeOK, Rep!Times, Rep!Days

\* The invariants of the reports depend on what is in their windows.
LEMMA SameWindows ==
    ASSUME Rep!TypeOK, CountInv, WeekInv, UNCHANGED <<sent, counted>>, moved \subseteq moved',
           \A t \in DOMAIN sent : \A a \in Appts \ moved' :
               a \in Rep!Window(ShopOf[a], t)' <=> a \in Rep!Window(ShopOf[a], t),
           moved' = {} =>
               \A t \in DOMAIN sent : \A s \in Branches :
                   /\ Rep!Window(s, t)' = Rep!Window(s, t)
                   /\ Rep!In(s, t - Rep!Days(Week) - Rep!Days(Week), t - Rep!Days(Week))'
                        = Rep!In(s, t - Rep!Days(Week) - Rep!Days(Week), t - Rep!Days(Week))
    PROVE  CountInv' /\ WeekInv'
<1>1. CountInv'
  <2> SUFFICES ASSUME NEW a \in Appts \ moved'
               PROVE  counted'[a] = {t \in DOMAIN sent' : a \in Rep!Window(ShopOf[a], t)'}
    BY DEF CountInv
  <2>1. counted[a] = {t \in DOMAIN sent : a \in Rep!Window(ShopOf[a], t)}
    BY DEF CountInv
  <2>2. \A t \in DOMAIN sent : a \in Rep!Window(ShopOf[a], t)' <=> a \in Rep!Window(ShopOf[a], t)
    OBVIOUS
  <2> QED
    BY <2>1, <2>2
<1>2. WeekInv'
  <2> SUFFICES ASSUME moved' = {}, NEW t \in DOMAIN sent, NEW s \in Branches
               PROVE  /\ sent'[t][s].total = Cardinality(Rep!Window(s, t)')
                      /\ sent'[t][s].last = Cardinality(Rep!In(s, t - Rep!Days(Week) - Rep!Days(Week), t - Rep!Days(Week))')
    BY DEF WeekInv
  <2>1. moved = {}
    OBVIOUS
  <2>2. /\ sent[t][s].total = Cardinality(Rep!Window(s, t))
        /\ sent[t][s].last = Cardinality(Rep!In(s, t - Rep!Days(Week) - Rep!Days(Week), t - Rep!Days(Week)))
    BY <2>1 DEF WeekInv
  <2> QED
    BY <2>2
<1> QED
  BY <1>1, <1>2

LEMMA ScanKeeps == RepInv /\ Rep!Scan => SentInv' /\ CountInv' /\ WeekInv'
<1> SUFFICES ASSUME RepInv, Rep!Scan PROVE SentInv' /\ CountInv' /\ WeekInv'
  OBVIOUS
<1> USE DEF RepInv
<1>1. /\ DOMAIN sent' = DOMAIN sent \cup {now} /\ now \notin DOMAIN sent /\ Rep!JobTime(now) /\ now \in Nat
      /\ UNCHANGED <<now, row, moved>>
  BY DEF Rep!Scan, Rep!TypeOK, Rep!Times
<1>2. \A t \in DOMAIN sent : sent'[t] = sent[t]
  BY <1>1 DEF Rep!Scan
<1>3. \A s, from, to : Rep!In(s, from, to)' = Rep!In(s, from, to)
  BY <1>1 DEF Rep!In
<1>4. \A s, t : Rep!Window(s, t)' = Rep!Window(s, t)
  BY <1>3 DEF Rep!Window
<1>5. SentInv'
  BY <1>1 DEF SentInv
<1>6. CountInv'
  <2> SUFFICES ASSUME NEW a \in Appts \ moved
               PROVE  counted'[a] = {t \in DOMAIN sent' : a \in Rep!Window(ShopOf[a], t)'}
    BY <1>1 DEF CountInv
  <2>1. counted[a] = {t \in DOMAIN sent : a \in Rep!Window(ShopOf[a], t)}
    BY DEF CountInv
  <2>2. counted'[a] = IF a \in Rep!Window(ShopOf[a], now) THEN counted[a] \cup {now} ELSE counted[a]
    BY DEF Rep!Scan
  <2>3. {t \in DOMAIN sent' : a \in Rep!Window(ShopOf[a], t)'} = {t \in DOMAIN sent' : a \in Rep!Window(ShopOf[a], t)}
    BY <1>4
  <2> QED
    BY <1>1, <2>1, <2>2, <2>3
<1>7. WeekInv'
  <2> SUFFICES ASSUME moved = {}, NEW t \in DOMAIN sent', NEW s \in Branches
               PROVE  /\ sent'[t][s].total = Cardinality(Rep!Window(s, t))
                      /\ sent'[t][s].last = Cardinality(Rep!In(s, t - Rep!Days(Week) - Rep!Days(Week), t - Rep!Days(Week)))
    BY <1>1, <1>3, <1>4 DEF WeekInv
  <2>1. CASE t \in DOMAIN sent
    BY <1>2, <2>1 DEF WeekInv
  <2>2. CASE t = now
    <3>1. sent'[now][s] = Rep!Figures(Rep!BuildWeeklyUsageReport(s, now))
      BY <1>1 DEF Rep!Scan
    <3>2. /\ Rep!BuildWeeklyUsageReport(s, now).all = Rep!Summary(Rep!Window(s, now))
          /\ Rep!BuildWeeklyUsageReport(s, now).last
               = Rep!Summary(Rep!In(s, now - Rep!Days(Week) - Rep!Days(Week), now - Rep!Days(Week)))
      BY ReportForm DEF Rep!LastWeek
    <3>3. \A R : Rep!Summary(R).total = Cardinality(R)
      BY RepSame DEF Rep!Summary
    <3>4. /\ sent'[now][s].total = Rep!BuildWeeklyUsageReport(s, now).all.total
          /\ sent'[now][s].last = Rep!BuildWeeklyUsageReport(s, now).last.total
      BY <3>1 DEF Rep!Figures
    <3> QED
      BY <2>2, <3>2, <3>3, <3>4
  <2> QED
    BY <1>1, <2>1, <2>2
<1> QED
  BY <1>5, <1>6, <1>7

LEMMA RepStep == RepInv /\ [Rep!Next]_Rep!vars => RepInv'
<1> SUFFICES ASSUME RepInv, [Rep!Next]_Rep!vars PROVE SentInv' /\ CountInv' /\ WeekInv'
  BY RepTypesStep DEF RepInv
<1>1. \A t \in DOMAIN sent : t <= now
  BY DEF RepInv, SentInv
<1>2. now \in Nat
  BY DEF RepInv, Rep!TypeOK, Rep!Times
<1>3. ASSUME NEW a \in Appts,
             (\E at \in Rep!Times : Rep!Make(a, at)) \/ (\E st \in Rep!Status \ {"none"} : Rep!Change(a, st))
      PROVE  SentInv' /\ CountInv' /\ WeekInv'
  <2>1. UNCHANGED <<now, moved, sent, counted>>
    BY <1>3 DEF Rep!Make, Rep!Change
  <2>2. \A t \in DOMAIN sent : \A s :
           /\ Rep!Window(s, t)' = Rep!Window(s, t)
           /\ Rep!In(s, t - Rep!Days(Week) - Rep!Days(Week), t - Rep!Days(Week))'
                = Rep!In(s, t - Rep!Days(Week) - Rep!Days(Week), t - Rep!Days(Week))
    <3> TAKE t \in DOMAIN sent
    <3> TAKE s
    <3>1. PICK t1 \in Int, t2 \in Int, t3 \in Int :
             t1 = t - Rep!Days(Week) - Rep!Days(Week) /\ t2 = t - Rep!Days(Week) /\ t3 = t /\ t2 <= now /\ t3 <= now
      <4>1. /\ t \in Nat /\ t - Rep!Days(Week) \in Int /\ t - Rep!Days(Week) - Rep!Days(Week) \in Int
            /\ t - Rep!Days(Week) <= t /\ t <= now
        BY <1>1, WindowTimes DEF RepInv
      <4>2. t - Rep!Days(Week) <= now
        BY <1>2, <4>1
      <4> QED
        BY <4>1, <4>2
    <3>2. Rep!In(s, t1, t2)' = Rep!In(s, t1, t2) /\ Rep!In(s, t2, t3)' = Rep!In(s, t2, t3)
      BY <1>3, <3>1, PastStays DEF RepInv
    <3>3. Rep!Window(s, t) = Rep!In(s, t2, t3) /\ Rep!Window(s, t)' = Rep!In(s, t2, t3)'
      BY <3>1 DEF Rep!Window
    <3> QED
      BY <3>1, <3>2, <3>3
  <2>3. CountInv' /\ WeekInv'
    BY <2>1, <2>2, SameWindows DEF RepInv
  <2> QED
    BY <2>1, <2>3 DEF RepInv, SentInv
<1>4. ASSUME NEW a \in Appts, NEW at \in Rep!Times, Rep!Move(a, at)
      PROVE  SentInv' /\ CountInv' /\ WeekInv'
  <2>1. /\ UNCHANGED <<now, sent, counted>> /\ moved' = moved \cup {a}
        /\ \A b \in Appts \ {a} : row'[b] = row[b]
    BY <1>4 DEF Rep!Move, RepInv, Rep!TypeOK
  <2>2. \A b \in Appts \ {a} : \A s, from, to : b \in Rep!In(s, from, to)' <=> b \in Rep!In(s, from, to)
    BY <2>1 DEF Rep!In
  <2>3. \A b \in Appts \ {a} : \A s, t : b \in Rep!Window(s, t)' <=> b \in Rep!Window(s, t)
    BY <2>2 DEF Rep!Window
  <2>4. CountInv' /\ WeekInv'
    BY <2>1, <2>3, SameWindows DEF RepInv
  <2> QED
    BY <2>1, <2>4 DEF RepInv, SentInv
<1>5. CASE Rep!Scan
  BY <1>5, ScanKeeps
<1>6. CASE Rep!Tick \/ (\E y \in Types : Rep!Track(y)) \/ UNCHANGED Rep!vars
  <2>1. UNCHANGED <<row, moved, sent, counted>> /\ now' \in {now, now + 1}
    BY <1>6 DEF Rep!Tick, Rep!Track, Rep!vars
  <2>2. \A s, from, to : Rep!In(s, from, to)' = Rep!In(s, from, to)
    BY <2>1 DEF Rep!In
  <2>3. \A s, t : Rep!Window(s, t)' = Rep!Window(s, t)
    BY <2>2 DEF Rep!Window
  <2>4. CountInv' /\ WeekInv'
    BY <2>1, <2>2, <2>3, SameWindows DEF RepInv
  <2>5. SentInv'
    BY <1>2, <2>1 DEF RepInv, SentInv, Rep!TypeOK, Rep!Times
  <2> QED
    BY <2>4, <2>5
<1> QED
  BY <1>3, <1>4, <1>5, <1>6 DEF Rep!Next

\* Two reports that count an appointment are less than a week apart, so they are one.
LEMMA OnceIsEnough == RepInv => Rep!CountedOnce
<1> SUFFICES ASSUME RepInv, NEW a \in Appts \ moved
             PROVE  /\ Cardinality(counted[a]) <= 1
                    /\ \A t \in DOMAIN sent : a \in Rep!Window(ShopOf[a], t) => counted[a] = {t}
  BY RepSame DEF Rep!CountedOnce
<1>1. counted[a] = {t \in DOMAIN sent : a \in Rep!Window(ShopOf[a], t)}
  BY DEF RepInv, CountInv
<1>2. \A t \in DOMAIN sent : t \in Nat /\ t % Rep!Days(Week) = 1
  BY DEF RepInv, Rep!TypeOK, Rep!Times, SentInv, Rep!JobTime
<1>3. ASSUME NEW t \in counted[a], NEW u \in counted[a], t < u
      PROVE  FALSE
  <2>1. PICK N \in Nat \ {0} : N = Rep!Days(Week)
    BY RepFacts DEF Rep!Days
  <2>2. t \in Nat /\ u \in Nat /\ t % N = 1 /\ u % N = 1
    BY <1>1, <1>2, <2>1
  <2>3. t + N <= u
    BY <1>3, <2>2, JobsApart
  <2>4. row[a].at < t /\ u - N <= row[a].at /\ row[a].at \in Nat
    BY <1>1, <2>1, RepFacts DEF Rep!Window, Rep!In, RepInv, Rep!TypeOK, Rep!Times
  <2> QED
    BY <2>2, <2>3, <2>4
<1>4. \A t, u \in counted[a] : t = u
  <2>1. \A t \in counted[a] : t \in Nat
    BY <1>1, <1>2
  <2> QED
    BY <1>3, <2>1
<1>5. Cardinality(counted[a]) <= 1
  <2>1. CASE counted[a] = {}
    BY <2>1, FS_EmptySet
  <2>2. CASE counted[a] # {}
    <3>1. PICK t : counted[a] = {t}
      BY <1>4, <2>2
    <3>2. Cardinality({t}) = 1
      BY FS_Singleton
    <3> QED
      BY <3>1, <3>2
  <2> QED
    BY <2>1, <2>2
<1> QED
  BY <1>1, <1>4, <1>5

LEMMA WeeksAgree == RepInv => Rep!LastWeekAgrees
<1> SUFFICES ASSUME RepInv, moved = {}, NEW t \in DOMAIN sent, NEW s \in Branches,
                    t - Rep!Days(Week) \in DOMAIN sent
             PROVE  sent[t][s].last = sent[t - Rep!Days(Week)][s].total
  BY DEF Rep!LastWeekAgrees
<1>1. sent[t][s].last = Cardinality(Rep!In(s, t - Rep!Days(Week) - Rep!Days(Week), t - Rep!Days(Week)))
  BY DEF RepInv, WeekInv
<1>2. sent[t - Rep!Days(Week)][s].total = Cardinality(Rep!Window(s, t - Rep!Days(Week)))
  BY DEF RepInv, WeekInv
<1> QED
  BY <1>1, <1>2 DEF Rep!Window

LEMMA RepTold ==
    RepInv => Rep!TypeOK /\ Rep!CountedOnce /\ Rep!LastWeekAgrees /\ Rep!TrendTells /\ Rep!PhasesAddUp
              /\ Rep!ChainCountsAll /\ Rep!PendingAgrees
BY OnceIsEnough, WeeksAgree, TrendDoes, PhasesDo, ChainAddsUp, PendingDoes DEF RepInv

------------------------------------------------------------------------------
(* The tables, of which a behaviour is about one *)

TablesInv ==
    /\ part = "desk" => DeskInv
    /\ part = "master" => MasterInv
    /\ part = "reports" => RepInv

LEMMA TablesInvHolds == PartSpec => []TablesInv
<1>1. PartInit => TablesInv
  BY DeskInit, MasterInit, RepInit DEF PartInit, TablesInv
<1>2. TablesInv /\ [PartNext]_allVars => TablesInv'
  <2>1. SUFFICES ASSUME TablesInv, [PartNext]_allVars PROVE TablesInv'
    OBVIOUS
  <2>2. part' = part
    BY <2>1 DEF PartNext, allVars
  <2>3. part = "desk" => [Desk!Next]_(Desk!vars)
    BY <2>1 DEF PartNext, allVars, DeskVars, Desk!vars, Desk!tables, Desk!history
  <2>4. part = "master" => [Master!Next]_(Master!vars)
    BY <2>1 DEF PartNext, allVars, MasterVars, Master!vars, Master!staffing, Master!labels
  <2>5. part = "reports" => [Rep!Next]_(Rep!vars)
    BY <2>1 DEF PartNext, allVars, RepVars, Rep!vars
  <2>6. part = "desk" => DeskInv'
    BY <2>1, <2>3, DeskStep DEF TablesInv
  <2>7. part = "master" => MasterInv'
    BY <2>1, <2>4, MasterStep DEF TablesInv
  <2>8. part = "reports" => RepInv'
    BY <2>1, <2>5, RepStep DEF TablesInv
  <2> QED
    BY <2>2, <2>6, <2>7, <2>8 DEF TablesInv
<1> QED
  BY <1>1, <1>2, PTL DEF PartSpec

\* Each table keeps what its page promises, for any number of shops, products, cards and requests
\* in flight: a product is worth its price unless it was written from a stale read, a card was sold
\* as its product was offered at some time and is seen by its own shop alone (card_crud.go:119,
\* admin_cards.go); barbers and branches go over the plan by no more than the requests that were
\* let in together, a service is on sale only by an import or a switch, and names and tags are
\* apart but for requests that overlap (handlers of api.go and admin_features.go).
THEOREM OwnersTablesAreKept == PartSpec => []OwnersTablesKept
<1>1. TablesInv => OwnersTablesKept
  BY DeskTold, MasterTold DEF TablesInv, OwnersTablesKept
<1> QED
  BY <1>1, TablesInvHolds, PTL

\* What the shop is told about itself fits together, for any number of shops, appointments and weeks:
\* no appointment is counted by two weekly reports, the total of the week before is what that week's
\* report gave, the trend and the phases add up to what is counted, the chain counts each appointment
\* of its shops once, and the dashboard shows no more hand-offs than the alert (usage_report.go,
\* chain_repo.go, weekly_report.go, api.go).
THEOREM FiguresDoAgree == PartSpec => []FiguresAgree
<1>1. TablesInv => FiguresAgree
  BY RepTold DEF TablesInv, FiguresAgree
<1> QED
  BY <1>1, TablesInvHolds, PTL
====
