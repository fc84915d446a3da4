---------------------------- MODULE CustomerCards ----------------------------
(***************************************************************************)
(* Prepaid cards of one product: selling, using, adjusting and expiring    *)
(* them (storage/customer_card.go), and taking the product off sale        *)
(* (storage/card_crud.go).                                                 *)
(*                                                                         *)
(* An operator is one request of the admin console.  Every operation reads *)
(* and validates outside its transaction and writes absolute values inside *)
(* it, so it is two steps; the row write, the journal row and the audit    *)
(* row of a transaction are one step.                                      *)
(***************************************************************************)
EXTENDS Integers

CONSTANTS
    Operators,      \* requests of the console in flight
    Cards,          \* customer cards that may be sold
    Kind,           \* "stored_value" or "count"
    Initial,        \* face value and bonus, or the count of uses
    Amounts,        \* amounts asked for
    MaxBalance,     \* bound on what an adjustment may reach
    NoCard

ASSUME CardsAssumption ==
    /\ Kind \in {"stored_value", "count"}
    /\ Initial \in Nat \ {0}
    /\ Amounts \subseteq Nat \ {0}
    /\ MaxBalance \in Nat
    /\ NoCard \notin Cards

VARIABLES
    product,        \* status of the product
    status,         \* status of each customer card
    balance,        \* balance_cents or remaining_count
    due,            \* expires_at has passed
    booked,         \* history: sum of the deltas of the card's transactions
    pc,             \* what an operator's request does next
    target,         \* the card it works on
    read,           \* the balance it has read
    delta,          \* what it is about to add
    crowded,        \* history: cards that two requests worked on at once
    late            \* history: cards whose sale met a request that takes the product off sale

card    == <<status, balance, booked>>
request == <<target, read, delta>>
met     == <<crowded, late>>
vars    == <<product, card, due, pc, request, met>>

Statuses == {"absent", "active", "depleted", "expired"}

Init ==
    /\ product = "active"
    /\ status = [c \in Cards |-> "absent"]
    /\ balance = [c \in Cards |-> 0]
    /\ due = [c \in Cards |-> FALSE]
    /\ booked = [c \in Cards |-> 0]
    /\ pc = [o \in Operators |-> "idle"]
    /\ target = [o \in Operators |-> NoCard]
    /\ read = [o \in Operators |-> 0]
    /\ delta = [o \in Operators |-> 0]
    /\ crowded = {} /\ late = {}

Goto(o, label) == pc' = [pc EXCEPT ![o] = label]

\* The requests that have read, and have yet to write.
At(label) == {o \in Operators : pc[o] = label}

\* The request ends and forgets what it has read.
Done(o) ==
    /\ Goto(o, "idle")
    /\ target' = [target EXCEPT ![o] = NoCard]
    /\ read' = [read EXCEPT ![o] = 0]
    /\ delta' = [delta EXCEPT ![o] = 0]

------------------------------------------------------------------------------
(* SellCardToCustomer *)

ReadProduct(o, c) ==
    /\ pc[o] = "idle" /\ status[c] = "absent" /\ product = "active"
    /\ Goto(o, "sell")
    /\ target' = [target EXCEPT ![o] = c]
    /\ late' = IF At("archive") # {} THEN late \cup {c} ELSE late
    /\ UNCHANGED <<product, card, due, read, delta, crowded>>

\* The new row gets a fresh id: two requests never sell one card.
Sell(o) ==
    LET c == target[o]
    IN  /\ pc[o] = "sell" /\ status[c] = "absent"
        /\ status' = [status EXCEPT ![c] = "active"]
        /\ balance' = [balance EXCEPT ![c] = Initial]
        /\ booked' = [booked EXCEPT ![c] = Initial]
        /\ Done(o)
        /\ UNCHANGED <<product, due, met>>

------------------------------------------------------------------------------
(* ConsumeCustomerCard and AdjustCustomerCard *)

Cost(amount) == IF Kind = "count" THEN 1 ELSE amount

\* Mutant: the amount is not compared with the balance.
Prepare_Unchecked(o, c, d) ==
    /\ Goto(o, "book")
    /\ target' = [target EXCEPT ![o] = c]
    /\ read' = [read EXCEPT ![o] = balance[c]]
    /\ delta' = [delta EXCEPT ![o] = d]
    /\ UNCHANGED <<product, card, due, met>>

\* The request has read card c and goes on to add d to what it has read.
Prepare(o, c, d) ==
    /\ balance[c] + d >= 0
    /\ Goto(o, "book")
    /\ target' = [target EXCEPT ![o] = c]
    /\ read' = [read EXCEPT ![o] = balance[c]]
    /\ delta' = [delta EXCEPT ![o] = d]
    /\ crowded' = IF \E p \in At("book") : target[p] = c THEN crowded \cup {c} ELSE crowded
    /\ UNCHANGED <<product, card, due, late>>

ReadForUse(o, c, amount) ==
    /\ pc[o] = "idle" /\ status[c] = "active" /\ ~due[c]
    /\ Prepare(o, c, -Cost(amount))

\* Only the stored status is looked at, not expires_at.
ReadForAdjustment(o, c, amount) ==
    /\ pc[o] = "idle" /\ status[c] \notin {"absent", "expired"}
    /\ \/ balance[c] + amount <= MaxBalance /\ Prepare(o, c, amount)
       \/ Prepare(o, c, -amount)

\* Mutant: the journal row is written by a statement of its own, which may fail.
Book_JournalApart(o) ==
    LET c == target[o]
        after == read[o] + delta[o]
    IN  /\ pc[o] = "book"
        /\ balance' = [balance EXCEPT ![c] = after]
        /\ status' = [status EXCEPT ![c] = IF after = 0 THEN "depleted" ELSE @]
        /\ \E committed \in BOOLEAN :
             booked' = [booked EXCEPT ![c] = IF committed THEN @ + delta[o] ELSE @]
        /\ Done(o)
        /\ UNCHANGED <<product, due, met>>

\* Mutant: the last amount does not deplete the card.
Book_NeverDepleted(o) ==
    LET c == target[o]
    IN  /\ pc[o] = "book"
        /\ balance' = [balance EXCEPT ![c] = read[o] + delta[o]]
        /\ UNCHANGED status
        /\ booked' = [booked EXCEPT ![c] = @ + delta[o]]
        /\ Done(o)
        /\ UNCHANGED <<product, due, met>>

\* Row and journal in one transaction; the row gets read + delta, whatever it is
\* by now, and a status only when nothing is left.
Book(o) ==
    LET c == target[o]
        after == read[o] + delta[o]
    IN  /\ pc[o] = "book"
        /\ balance' = [balance EXCEPT ![c] = after]
        /\ status' = [status EXCEPT ![c] = IF after = 0 THEN "depleted" ELSE @]
        /\ booked' = [booked EXCEPT ![c] = @ + delta[o]]
        /\ Done(o)
        /\ UNCHANGED <<product, due, met>>

------------------------------------------------------------------------------
(* ArchiveCard and ActivateCard *)

\* Mutant: the customer cards are not counted.
CountActive_Skipped(o) ==
    /\ pc[o] = "idle" /\ product = "active"
    /\ Goto(o, "archive")
    /\ UNCHANGED <<product, card, due, request, met>>

CountActive(o) ==
    /\ pc[o] = "idle" /\ product = "active"
    /\ \A c \in Cards : status[c] # "active"
    /\ Goto(o, "archive")
    /\ late' = late \cup {target[p] : p \in At("sell")}
    /\ UNCHANGED <<product, card, due, request, crowded>>

Archive(o) ==
    /\ pc[o] = "archive"
    /\ product' = "archived"
    /\ Done(o)
    /\ UNCHANGED <<card, due, met>>

Activate(o) ==
    /\ pc[o] = "idle" /\ product = "archived"
    /\ product' = "active"
    /\ UNCHANGED <<card, due, pc, request, met>>

\* The transaction fails, or the process dies: nothing is written.
GiveUp(o) ==
    /\ pc[o] # "idle"
    /\ Done(o)
    /\ UNCHANGED <<product, card, due, met>>

------------------------------------------------------------------------------
(* Time, and RefreshCustomerCardExpiry *)

Expire(c) ==
    /\ status[c] # "absent" /\ ~due[c]
    /\ due' = [due EXCEPT ![c] = TRUE]
    /\ UNCHANGED <<product, card, pc, request, met>>

Overdue(c) == status[c] = "active" /\ due[c]

RefreshExpiry ==
    /\ \E c \in Cards : Overdue(c)
    /\ status' = [c \in Cards |-> IF Overdue(c) THEN "expired" ELSE status[c]]
    /\ UNCHANGED <<product, balance, booked, due, pc, request, met>>

------------------------------------------------------------------------------
Next ==
    \/ \E o \in Operators :
         \/ Sell(o) \/ Book(o) \/ CountActive(o) \/ Archive(o) \/ Activate(o) \/ GiveUp(o)
         \/ \E c \in Cards :
              \/ ReadProduct(o, c)
              \/ \E a \in Amounts : ReadForUse(o, c, a) \/ ReadForAdjustment(o, c, a)
    \/ RefreshExpiry
    \/ \E c \in Cards : Expire(c)

Spec == Init /\ [][Next]_vars

------------------------------------------------------------------------------
(* Properties *)

Labels == {"idle", "sell", "book", "archive"}

\* In particular no balance is negative (customer_card.go:15).
TypeOK ==
    /\ product \in {"active", "archived"}
    /\ status \in [Cards -> Statuses]
    /\ balance \in [Cards -> Nat]
    /\ due \in [Cards -> BOOLEAN]
    /\ booked \in [Cards -> Int]
    /\ pc \in [Operators -> Labels]
    /\ target \in [Operators -> Cards \cup {NoCard}]
    /\ read \in [Operators -> Nat]
    /\ delta \in [Operators -> Int]
    /\ \A o \in Operators : pc[o] \in {"sell", "book"} => target[o] \in Cards
    /\ \A o \in Operators : pc[o] = "book" => read[o] + delta[o] \in Nat
    /\ crowded \subseteq Cards /\ late \subseteq Cards

\* The journal explains the balance: what a card holds is the sum of what was
\* booked on it (models.go:586, one transaction row for every change), unless
\* two requests once had it in hand together: the second then writes over the first.
BalanceIsSum == \A c \in Cards \ crowded : balance[c] = booked[c]

\* A card with nothing left cannot be used: the booking that empties it takes it
\* out of "active" in the same transaction, and nothing brings it back.
EmptyIsNotActive == \A c \in Cards : status[c] = "active" => balance[c] > 0

\* A product off sale has no customer card in use (the comment on ArchiveCard), but one
\* whose sale was under way while the product was taken off: neither sees the other.
ArchivedIsUnused == product = "archived" => \A c \in Cards \ late : status[c] # "active"
=============================================================================
