------------------------------ MODULE CardDesk ------------------------------
(***************************************************************************)
(* The card products a shop defines, and who may touch which card          *)
(* (storage/card_crud.go, api/admin_cards.go).  The balance of a sold card *)
(* and the sale status of a product are the subject of CustomerCards; here *)
(* every product is on sale.                                               *)
(*                                                                         *)
(* A request passes the gate of the plan, then reads and validates, then   *)
(* writes with one statement: three steps, between which other requests    *)
(* and a change of plan may come.                                          *)
(***************************************************************************)
EXTENDS Naturals

CONSTANTS
    Shops,
    Products,       \* ids of card products
    Cards,          \* ids of customer cards
    Names,          \* names of products
    Requests,       \* requests in flight
    MaxCents,       \* bound on prices, face values and counts
    MaxAsked,       \* bound on the requests of a run
    NoId

\* Assumed by the modules that instantiate this one.
DeskAssumption ==
    /\ MaxCents \in Nat \ {0}
    /\ MaxAsked \in Nat
    /\ NoId \notin Products

VARIABLES
    pro,            \* shops whose plan includes cards
    products,       \* the rows of cards, by id
    sold,           \* the rows of customer_cards, by id
    usedBy,         \* history: shops that changed or saw a customer card
    req,            \* the requests
    asked,          \* requests let in so far
    offers,         \* history: what each product was, at any time
    raced           \* history: products written from a stale read

tables == <<products, sold, usedBy>>
history == <<offers, raced>>
vars == <<pro, tables, req, asked, history>>

Kinds == {"stored_value", "count"}

\* face is the face value, or the number of uses of a count card.
Rows == [shop : Shops, name : Names, kind : Kinds,
         price : 0..MaxCents, face : 0..MaxCents, bonus : 0..1]

\* What an update asks for: the fields it gives, the others stay.
Changes == [name : Names] \cup [bonus : 0..1]
             \cup [price : 0..MaxCents] \cup [face : 0..MaxCents] \cup [price : 0..MaxCents, face : 0..MaxCents]

\* A row with the fields of a change; shop and kind stay.
Changed(row, change) ==
    LET Given(f) == IF f \in DOMAIN change THEN change[f] ELSE row[f] IN
    [row EXCEPT !.name = Given("name"), !.price = Given("price"), !.face = Given("face"), !.bonus = Given("bonus")]

Worth(row) == row.face + row.bonus

\* A table with a row under an id.
With(table, id, row) == [x \in DOMAIN table \cup {id} |-> IF x = id THEN row ELSE table[x]]

Idle == [at |-> "idle"]

Init ==
    /\ pro = Shops
    /\ products = <<>>
    /\ sold = <<>>
    /\ usedBy = <<>>
    /\ req = [r \in Requests |-> Idle]
    /\ asked = 0
    /\ offers = <<>>
    /\ raced = {}

------------------------------------------------------------------------------
(* The gate, and what a shop can see *)

\* requireCardFeature: the plan is read once, before anything else.
Enter(r, s) ==
    /\ req[r] = Idle /\ asked < MaxAsked
    /\ s \in pro
    /\ req' = [req EXCEPT ![r] = [at |-> "in", shop |-> s]]
    /\ asked' = asked + 1
    /\ UNCHANGED <<pro, tables, history>>

\* Mutant: a product is found by its id alone.
GetCardInShop_Anywhere(s) == DOMAIN products

\* The products a request of shop s can find.
GetCardInShop(s) == {p \in DOMAIN products : products[p].shop = s}

\* Mutant: a customer card is found by its id alone.
GetCustomerCardInShop_Anywhere(s) == DOMAIN sold

GetCustomerCardInShop(s) == {c \in DOMAIN sold : sold[c].shop = s}

Taken(s, self) == {products[p].name : p \in GetCardInShop(s) \ {self}}

Forget(r) == req' = [req EXCEPT ![r] = Idle]

\* A request that wrote leaves the others, which have read before, behind.
Wrote(r) ==
    req' = [q \in Requests |->
              IF q = r THEN Idle
              ELSE IF "stale" \in DOMAIN req[q] THEN [req[q] EXCEPT !.stale = TRUE] ELSE req[q]]

------------------------------------------------------------------------------
(* CreateCard and UpdateCard *)

WellPriced(row) ==
    /\ row.price > 0 /\ row.face > 0
    /\ row.kind = "stored_value" => Worth(row) >= row.price

CheckNew(r, row) ==
    /\ req[r].at = "in" /\ row.shop = req[r].shop
    /\ WellPriced(row)
    /\ row.name \notin Taken(row.shop, NoId)
    /\ req' = [req EXCEPT ![r] =
                 [at |-> "create", shop |-> row.shop, row |-> row, stale |-> FALSE]]
    /\ UNCHANGED <<pro, tables, asked, history>>

\* Writes row under id p; no index of the table forbids a name.
Store(r, p, row) ==
    /\ products' = With(products, p, row)
    /\ offers' = With(offers, p, (IF p \in DOMAIN offers THEN offers[p] ELSE {}) \cup {row})
    /\ raced' = IF req[r].stale THEN raced \cup {p} ELSE raced
    /\ Wrote(r)

CreateCard(r, p) ==
    /\ req[r].at = "create" /\ p \notin DOMAIN products
    /\ Store(r, p, req[r].row)
    /\ UNCHANGED <<pro, sold, usedBy, asked>>

\* Mutant: the fields that stay are not validated with the ones that change.
CheckUpdate_GivenOnly(r, p, change) ==
    LET s == req[r].shop
        row == Changed(products[p], change)
    IN  /\ req[r].at = "in" /\ p \in GetCardInShop(s)
        /\ row.price > 0 /\ row.face > 0
        /\ "name" \in DOMAIN change => row.name \notin Taken(s, p)
        /\ req' = [req EXCEPT ![r] =
                     [at |-> "update", shop |-> s, id |-> p, change |-> change, stale |-> FALSE]]
        /\ UNCHANGED <<pro, tables, asked, history>>

\* The row as it will be is validated, from the fields read now; a bonus of a
\* count card is ignored.
CheckUpdate(r, p, change) ==
    LET s == req[r].shop
        row == Changed(products[p], change)
    IN  /\ req[r].at = "in" /\ p \in GetCardInShop(s)
        /\ WellPriced(row)
        /\ "name" \in DOMAIN change => row.name \notin Taken(s, p)
        /\ row.kind = "count" => "bonus" \notin DOMAIN change
        /\ req' = [req EXCEPT ![r] =
                     [at |-> "update", shop |-> s, id |-> p, change |-> change, stale |-> FALSE]]
        /\ UNCHANGED <<pro, tables, asked, history>>

\* Only the fields of the request are written.
UpdateCard(r) ==
    /\ req[r].at = "update"
    /\ Store(r, req[r].id, Changed(products[req[r].id], req[r].change))
    /\ UNCHANGED <<pro, sold, usedBy, asked>>

------------------------------------------------------------------------------
(* Selling a card, and working with a sold one *)

ReadProduct(r, p) ==
    /\ req[r].at = "in" /\ p \in GetCardInShop(req[r].shop)
    /\ req' = [req EXCEPT ![r] =
                 [at |-> "sell", shop |-> req[r].shop, id |-> p, row |-> products[p]]]
    /\ UNCHANGED <<pro, tables, asked, history>>

\* Mutant: the value is read again when the card is written.
SellCard_ReadAgain(r, c) ==
    /\ req[r].at = "sell" /\ c \notin DOMAIN sold
    /\ sold' = With(sold, c, [shop |-> req[r].shop, of |-> req[r].id,
                              kind |-> req[r].row.kind, price |-> req[r].row.price,
                              worth |-> Worth(products[req[r].id])])
    /\ usedBy' = With(usedBy, c, {req[r].shop})
    /\ Forget(r)
    /\ UNCHANGED <<pro, products, asked, history>>

\* The customer gets what the product was when it was read.
SellCard(r, c) ==
    /\ req[r].at = "sell" /\ c \notin DOMAIN sold
    /\ sold' = With(sold, c, [shop |-> req[r].shop, of |-> req[r].id,
                              kind |-> req[r].row.kind, price |-> req[r].row.price,
                              worth |-> Worth(req[r].row)])
    /\ usedBy' = With(usedBy, c, {req[r].shop})
    /\ Forget(r)
    /\ UNCHANGED <<pro, products, asked, history>>

\* Consume, adjust, read, or list the transactions of a customer card.
UseCard(r, c) ==
    /\ req[r].at = "in" /\ c \in GetCustomerCardInShop(req[r].shop)
    /\ usedBy' = [usedBy EXCEPT ![c] = @ \cup {req[r].shop}]
    /\ Forget(r)
    /\ UNCHANGED <<pro, products, sold, asked, history>>

\* The cards of the shop, or of one of its customers.
Listed(s) == {c \in DOMAIN sold : sold[c].shop = s}

ListCards(r) ==
    /\ req[r].at = "in"
    /\ usedBy' = [c \in DOMAIN sold |->
                    IF c \in Listed(req[r].shop) THEN usedBy[c] \cup {req[r].shop} ELSE usedBy[c]]
    /\ Forget(r)
    /\ UNCHANGED <<pro, products, sold, asked, history>>

\* A check fails, the database fails, or the process dies.
Refuse(r) ==
    /\ req[r] # Idle
    /\ Forget(r)
    /\ UNCHANGED <<pro, tables, asked, history>>

\* The platform moves a shop to another plan.
ChangePlan(s) ==
    /\ pro' = IF s \in pro THEN pro \ {s} ELSE pro \cup {s}
    /\ UNCHANGED <<tables, req, asked, history>>

------------------------------------------------------------------------------
Next ==
    \/ \E r \in Requests :
         \/ Refuse(r) \/ UpdateCard(r) \/ ListCards(r)
         \/ \E s \in Shops : Enter(r, s)
         \/ \E row \in Rows : CheckNew(r, row)
         \/ \E p \in Products :
              \/ CreateCard(r, p) \/ ReadProduct(r, p)
              \/ \E change \in Changes : CheckUpdate(r, p, change)
         \/ \E c \in Cards : SellCard(r, c) \/ UseCard(r, c)
    \/ \E s \in Shops : ChangePlan(s)

Spec == Init /\ [][Next]_vars

------------------------------------------------------------------------------
(* Properties *)

TypeOK ==
    /\ pro \subseteq Shops
    /\ DOMAIN products \subseteq Products /\ DOMAIN sold \subseteq Cards
    /\ \A p \in DOMAIN products : products[p] \in Rows
    /\ DOMAIN usedBy = DOMAIN sold /\ DOMAIN offers = DOMAIN products
    /\ raced \subseteq DOMAIN products
    /\ asked \in 0..MaxAsked

\* No customer pays more than the card is worth ("实付 2000 拿到 1800 余额 ...
\* 禁掉", card_crud.go:96): a product that was never written from a stale read
\* is worth its price.
WorthItsPrice ==
    \A p \in DOMAIN products \ raced : WellPriced(products[p])

\* (Not so: two updates validate different fields against one old row, and
\* both write.)
AlwaysWorth == \A p \in DOMAIN products : WellPriced(products[p])

\* (Not so: ErrCardNameTaken, but the check and the insertion are two
\* statements and the table has no unique index to fall back on.)
NamesDistinct ==
    \A p, q \in DOMAIN products :
        products[p].shop = products[q].shop /\ products[p].name = products[q].name => p = q

\* A sold card is one the shop offered at some moment, price and value
\* together, and keeps the kind of its product for ever (UpdateCard: "type /
\* service_id 不可改").
SoldAsOffered ==
    \A c \in DOMAIN sold :
        /\ sold[c].kind = products[sold[c].of].kind
        /\ \E row \in offers[sold[c].of] :
             row.price = sold[c].price /\ Worth(row) = sold[c].worth

\* "多店隔离": a card is sold, used and shown by the shop that owns its product,
\* and by no other (customer_card.go:14).
OwnShopOnly ==
    \A c \in DOMAIN sold :
        /\ usedBy[c] = {sold[c].shop}
        /\ products[sold[c].of].shop = sold[c].shop
=============================================================================
