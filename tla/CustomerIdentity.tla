-------------------------- MODULE CustomerIdentity --------------------------
(***************************************************************************)
(* Who a customer is: the table customers and those who look a person up   *)
(* in it, create rows, fill them and bind phones to them.                  *)
(*   storage/repo.go: upsertCustomerInTx, GetCustomerByMessagingIdentity,  *)
(*   BindVerifiedPhone; smsverify/service.go; storage/customer_backfill.go;*)
(*   tools/create_appointment.go from the verification to the row.         *)
(*                                                                         *)
(* One call of create_appointment per messaging identity is in flight.     *)
(* Every read or write of Redis is a step; a database transaction is two,  *)
(* its reads on one snapshot and its writes, where the unique index on     *)
(* wechat_open_id bites.  An empty string in a column is Blank.  A code is *)
(* the number of its sending.                                              *)
(***************************************************************************)
EXTENDS Naturals, FiniteSets

CONSTANTS
    Idents,         \* messaging identities that write to the shop
    People, Phones, Names, Ids,
    PersonOf,       \* who stands behind an identity
    OpenOf, ExtOf,  \* the two ids the transport gives for an identity; the second is one person's
    PhoneOwner,     \* who receives the code sent to a phone
    Rows,           \* rows that customers may have
    Blank, NoRow,
    Spellings,      \* names each identity may give
    Typed,          \* phones each identity may give
    MaxTries,       \* SMS_CODE_MAX_ATTEMPTS
    MaxSends        \* bound on the codes sent to a phone

\* Assumed by the modules that instantiate this one.
IdentityAssumption ==
    /\ Blank \notin Ids \cup Phones \cup Names
    /\ NoRow \notin Rows
    /\ PersonOf \in [Idents -> People]
    /\ OpenOf \in [Idents -> Ids] /\ ExtOf \in [Idents -> Ids]
    /\ \A i, j \in Idents : ExtOf[i] = ExtOf[j] => PersonOf[i] = PersonOf[j]
    /\ PhoneOwner \in [Phones -> People]
    /\ Spellings \in [Idents -> SUBSET Names]
    /\ Typed \in [Idents -> SUBSET Phones]
    /\ MaxTries \in Nat /\ MaxSends \in Nat

VARIABLES
    required,       \* SMS_VERIFICATION_ENABLED is configured
    cust,           \* customers
    orphans,        \* names on appointments without a customer_id
    pc,             \* where the call of each identity is
    ask,            \* the phone and name of the call
    held,           \* what the call has read of the code, and the code given
    plan,           \* the row and the columns its transaction is about to write
    live,           \* the code stored for each phone, 0 for none
    sent,           \* codes sent so far to each phone
    cooling,        \* phones that were sent a code less than a minute ago
    tries,          \* the counter of attempts of each phone
    known,          \* codes that reached the owner of the phone
    booked,         \* the customer row of the last appointment of each identity, if
                    \* verification was on and no transactions had overlapped
    raced           \* phones for which two transactions overlapped

sms     == <<live, sent, cooling, tries, known>>
request == <<ask, held, plan>>
vars    == <<required, cust, orphans, pc, request, sms, booked, raced>>

NoCustomer == [used |-> FALSE, name |-> Blank, open |-> Blank, ext |-> Blank,
               phone |-> Blank, verified |-> FALSE]
NoAsk  == [phone |-> Blank, name |-> Blank]
NoHeld == [stored |-> 0, given |-> 0]
NoPlan == [kind |-> "none", row |-> NoRow, columns |-> {}]

Labels == {"idle", "verify", "storing", "delivering", "resetting", "counting",
           "comparing", "bind", "binding", "ready", "upserting"}

TypeOK ==
    /\ required \in BOOLEAN
    /\ cust \in [Rows -> [used : BOOLEAN, name : Names \cup {Blank}, open : Ids \cup {Blank},
                          ext : Ids \cup {Blank}, phone : Phones \cup {Blank},
                          verified : BOOLEAN]]
    /\ orphans \subseteq Names
    /\ pc \in [Idents -> Labels]
    /\ \A i \in Idents : pc[i] # "idle" => ask[i].phone \in Typed[i] /\ ask[i].name \in Spellings[i]
    /\ \A i \in Idents : pc[i] \in {"binding", "upserting"} <=> plan[i].kind # "none"
    /\ \A i \in Idents : plan[i].kind = "update" => cust[plan[i].row].used
    /\ live \in [Phones -> 0..MaxSends] /\ sent \in [Phones -> 0..MaxSends]
    /\ \A ph \in Phones : live[ph] <= sent[ph] /\ known[ph] \subseteq 1..sent[ph]
    /\ cooling \subseteq Phones /\ raced \subseteq Phones
    /\ tries \in [Phones -> Nat]
    /\ booked \in [Idents -> Rows \cup {NoRow}]

Init ==
    /\ required \in BOOLEAN
    /\ cust = [r \in Rows |-> NoCustomer]
    /\ orphans \in SUBSET Names
    /\ pc = [i \in Idents |-> "idle"]
    /\ ask = [i \in Idents |-> NoAsk]
    /\ held = [i \in Idents |-> NoHeld]
    /\ plan = [i \in Idents |-> NoPlan]
    /\ live = [ph \in Phones |-> 0] /\ sent = [ph \in Phones |-> 0]
    /\ cooling = {} /\ tries = [ph \in Phones |-> 0]
    /\ known = [ph \in Phones |-> {}]
    /\ booked = [i \in Idents |-> NoRow]
    /\ raced = {}

Goto(i, label) == pc' = [pc EXCEPT ![i] = label]

\* Mutant: a call that ends leaves its transaction open.
Return_KeepPlan(i) ==
    /\ Goto(i, "idle")
    /\ ask' = [ask EXCEPT ![i] = NoAsk]
    /\ held' = [held EXCEPT ![i] = NoHeld]
    /\ UNCHANGED plan

\* The call returns, with an appointment or with something to say to the customer.
Return(i) ==
    /\ Goto(i, "idle")
    /\ ask' = [ask EXCEPT ![i] = NoAsk]
    /\ held' = [held EXCEPT ![i] = NoHeld]
    /\ plan' = [plan EXCEPT ![i] = NoPlan]

With(field, value) == {r \in Rows : cust[r].used /\ cust[r][field] = value}

------------------------------------------------------------------------------
(* Start of the process *)

\* BackfillMissingCustomers.  A row made here has an empty wechat_open_id, of which
\* the unique index admits one.
Backfill ==
    /\ orphans # {} /\ \A i \in Idents : pc[i] = "idle"
    /\ LET found == {n \in orphans : With("name", n) # {}}
           free  == {r \in Rows : ~cust[r].used}
       IN \/ /\ found = orphans \/ With("open", Blank) # {} \/ free = {}
             /\ found # {}
             /\ orphans' = orphans \ found
             /\ UNCHANGED cust
          \/ /\ With("open", Blank) = {}
             /\ \E n \in orphans \ found, r \in free :
                  /\ cust' = [cust EXCEPT ![r] = [NoCustomer EXCEPT !.used = TRUE, !.name = n]]
                  /\ orphans' = orphans \ (found \cup {n})
    /\ UNCHANGED <<required, pc, request, sms, booked, raced>>

\* The deployment turns the verification on and is restarted.
Configure ==
    /\ ~required /\ \A i \in Idents : pc[i] = "idle"
    /\ required' = TRUE
    /\ UNCHANGED <<cust, orphans, pc, request, sms, booked, raced>>

------------------------------------------------------------------------------
(* create_appointment, up to the verification *)

\* GetCustomerByMessagingIdentity: none when the two ids point to different rows,
\* which is an error of the call, or when there is no row.
Identified(i) ==
    LET byOpen == With("open", OpenOf[i])
        byExt  == With("ext", ExtOf[i])
    IN IF byExt # {} THEN byExt ELSE byOpen

Ambiguous(i) ==
    LET byOpen == With("open", OpenOf[i])
        byExt  == With("ext", ExtOf[i])
    IN byOpen # {} /\ byExt # {} /\ byOpen \cap byExt = {}

\* Mutant: any verified phone will do.
NeedsVerification_AnyPhone(i, ph) ==
    Identified(i) = {} \/ \E r \in Identified(i) : ~cust[r].verified

NeedsVerification(i, ph) ==
    Identified(i) = {} \/ \E r \in Identified(i) : cust[r].phone # ph \/ ~cust[r].verified

Start(i, ph, n) ==
    /\ pc[i] = "idle" /\ n \in Spellings[i] /\ ph \in Typed[i]
    /\ ~(required /\ Ambiguous(i))
    /\ Goto(i, IF required /\ NeedsVerification(i, ph) THEN "verify" ELSE "ready")
    /\ ask' = [ask EXCEPT ![i] = [phone |-> ph, name |-> n]]
    /\ UNCHANGED <<required, cust, orphans, held, plan, sms, booked, raced>>

------------------------------------------------------------------------------
(* verifyOrSend *)

\* No code given: SetNX of the cooldown key.
TakeCooldown(i) ==
    LET ph == ask[i].phone
    IN /\ pc[i] = "verify"
       /\ \/ /\ ph \in cooling
             /\ Return(i) /\ UNCHANGED sms
          \/ /\ ph \notin cooling
             /\ cooling' = cooling \cup {ph}
             /\ Goto(i, "storing")
             /\ UNCHANGED <<request, live, sent, tries, known>>
       /\ UNCHANGED <<required, cust, orphans, booked, raced>>

\* Generating or storing the code may fail; the cooldown is taken back.
StoreCode(i) ==
    LET ph == ask[i].phone
    IN /\ pc[i] = "storing"
       /\ \/ /\ sent[ph] < MaxSends
             /\ sent' = [sent EXCEPT ![ph] = @ + 1]
             /\ live' = [live EXCEPT ![ph] = sent[ph] + 1]
             /\ Goto(i, "delivering")
             /\ UNCHANGED <<request, cooling>>
          \/ /\ cooling' = cooling \ {ph}
             /\ Return(i)
             /\ UNCHANGED <<sent, live>>
       /\ UNCHANGED <<required, cust, orphans, tries, known, booked, raced>>

\* SendCode, or the row for testers.  A failure deletes whatever code is stored.
Deliver(i) ==
    LET ph == ask[i].phone
    IN /\ pc[i] = "delivering"
       /\ \/ /\ known' = [known EXCEPT ![ph] = @ \cup {sent[ph]}]
             /\ Goto(i, "resetting")
             /\ UNCHANGED <<request, cooling, live>>
          \/ /\ cooling' = cooling \ {ph}
             /\ live' = [live EXCEPT ![ph] = 0]
             /\ Return(i)
             /\ UNCHANGED known
       /\ UNCHANGED <<required, cust, orphans, sent, tries, booked, raced>>

ResetTries(i) ==
    /\ pc[i] = "resetting"
    /\ tries' = [tries EXCEPT ![ask[i].phone] = 0]
    /\ Return(i)
    /\ UNCHANGED <<required, cust, orphans, live, sent, cooling, known, booked, raced>>

\* A code was given: 0 stands for any that was never sent.
ReadCode(i, code) ==
    LET ph == ask[i].phone
    IN /\ pc[i] = "verify"
       /\ code \in {0} \cup (IF PhoneOwner[ph] = PersonOf[i] THEN known[ph] ELSE {})
       /\ \/ live[ph] = 0 /\ Return(i)
          \/ /\ live[ph] # 0
             /\ held' = [held EXCEPT ![i] = [stored |-> live[ph], given |-> code]]
             /\ Goto(i, "counting")
             /\ UNCHANGED <<ask, plan>>
       /\ UNCHANGED <<required, cust, orphans, sms, booked, raced>>

CountTry(i) ==
    LET ph == ask[i].phone
    IN /\ pc[i] = "counting"
       /\ tries' = [tries EXCEPT ![ph] = IF @ > MaxTries THEN @ ELSE @ + 1]
       /\ \/ /\ tries[ph] >= MaxTries
             /\ live' = [live EXCEPT ![ph] = 0]
             /\ Return(i)
          \/ /\ tries[ph] < MaxTries /\ held[i].stored # held[i].given
             /\ Return(i)
             /\ UNCHANGED live
          \/ /\ tries[ph] < MaxTries /\ held[i].stored = held[i].given
             /\ Goto(i, "comparing")
             /\ UNCHANGED <<request, live>>
       /\ UNCHANGED <<required, cust, orphans, sent, cooling, known, booked, raced>>

\* The code is deleted; when that fails so does the call.
SpendCode(i) ==
    LET ph == ask[i].phone
    IN /\ pc[i] = "comparing"
       /\ \/ /\ live' = [live EXCEPT ![ph] = 0]
             /\ tries' = [tries EXCEPT ![ph] = 0]
             /\ Goto(i, "bind")
             /\ UNCHANGED request
          \/ Return(i) /\ UNCHANGED <<live, tries>>
       /\ UNCHANGED <<required, cust, orphans, sent, cooling, known, booked, raced>>

\* Keys run out.
Forget(ph) ==
    /\ \/ cooling' = cooling \ {ph} /\ ph \in cooling /\ UNCHANGED live
       \/ live' = [live EXCEPT ![ph] = 0] /\ live[ph] # 0 /\ UNCHANGED cooling
    /\ UNCHANGED <<required, cust, orphans, pc, request, sent, tries, known, booked, raced>>

------------------------------------------------------------------------------
(* BindVerifiedPhone and upsertCustomerInTx *)

\* The columns as the call would write them.
Mine(i) == [used |-> TRUE, name |-> ask[i].name, open |-> OpenOf[i], ext |-> ExtOf[i],
            phone |-> ask[i].phone, verified |-> TRUE]

Blanks(r, columns) == {f \in columns : cust[r][f] = Blank}

\* Others that are in a transaction about the same phone.
Overlap(i) == \E j \in Idents \ {i} : plan[j].kind # "none" /\ ask[j].phone = ask[i].phone

Plan(i, label, kind, r, columns) ==
    /\ plan' = [plan EXCEPT ![i] = [kind |-> kind, row |-> r, columns |-> columns]]
    /\ raced' = IF Overlap(i) THEN raced \cup {ask[i].phone} ELSE raced
    /\ Goto(i, label)
    /\ UNCHANGED <<ask, held>>

PlanBind(i, r) ==
    Plan(i, "binding", "update", r, {"phone", "verified"} \cup Blanks(r, {"open", "ext"}))

PlanNewBound(i) ==
    Plan(i, "binding", "insert", NoRow, {"used", "open", "ext", "phone", "verified"})

AlreadyBound(i) == Return(i) /\ UNCHANGED raced

\* Mutant: whoever has verified the phone takes its row over.
Adoptable_Always(i, r) == TRUE

\* A row with the phone may be taken over when it has no other id.
Adoptable(i, r) == cust[r].ext \in {Blank, ExtOf[i]} /\ cust[r].open \in {Blank, OpenOf[i]}

\* Mutant: a customer who is known need not ask who owns the phone.
BindRead_NoOwner(i) ==
    LET owners == With("phone", ask[i].phone)
        self == Identified(i)
    IN /\ pc[i] = "bind"
       /\ \/ \E r \in self : PlanBind(i, r)
          \/ self = {} /\ \E r \in owners : IF Adoptable(i, r) THEN PlanBind(i, r) ELSE AlreadyBound(i)
          \/ self = {} /\ owners = {} /\ PlanNewBound(i)
       /\ UNCHANGED <<required, cust, orphans, sms, booked>>

\* Which of several rows First returns is not determined.
BindRead(i) ==
    LET owners == With("phone", ask[i].phone)
        self   == Identified(i)
    IN /\ pc[i] = "bind"
       /\ \/ \E r \in self : (owners = {} \/ r \in owners) /\ PlanBind(i, r)
          \/ \E r \in self : owners \ {r} # {} /\ AlreadyBound(i)
          \/ self = {} /\ \E r \in owners : Adoptable(i, r) /\ PlanBind(i, r)
          \/ self = {} /\ \E r \in owners : ~Adoptable(i, r) /\ AlreadyBound(i)
          \/ self = {} /\ owners = {} /\ PlanNewBound(i)
       /\ UNCHANGED <<required, cust, orphans, sms, booked>>

\* Mutant: the name before everything else.
UpsertOrder_NameFirst == <<"name", "phone", "open", "ext">>

UpsertOrder == <<"phone", "open", "ext", "name">>

Hit(i, k) == With(UpsertOrder[k], Mine(i)[UpsertOrder[k]])

\* The transaction of CreateAppointmentFullContext; it may refuse for other reasons
\* (slot, barber, blacklist), see module Appointments.
UpsertRead(i) ==
    /\ pc[i] = "ready"
    /\ \/ \E k \in 1..4 :
            /\ \A j \in 1..(k - 1) : Hit(i, j) = {}
            /\ \E r \in Hit(i, k) :
                 Plan(i, "upserting", "update", r,
                      Blanks(r, {"phone", "open", "ext"})
                        \cup (IF UpsertOrder[k] # "name" /\ cust[r].name # ask[i].name
                              THEN {"name"} ELSE {}))
       \/ /\ \A k \in 1..4 : Hit(i, k) = {}
          /\ Plan(i, "upserting", "insert", NoRow, {"used", "name", "open", "ext", "phone"})
       \/ Return(i) /\ UNCHANGED raced
    /\ UNCHANGED <<required, cust, orphans, sms, booked>>

Targets(i) == IF plan[i].kind = "insert" THEN {r \in Rows : ~cust[r].used} ELSE {plan[i].row}

Written(i, r) ==
    [f \in DOMAIN NoCustomer |-> IF f \in plan[i].columns THEN Mine(i)[f] ELSE cust[r][f]]

\* The unique index on wechat_open_id, the empty id included.
Admitted(i, r) == \A s \in Rows \ {r} : cust[s].used => cust[s].open # Written(i, r).open

BindWrite(i) ==
    /\ pc[i] = "binding"
    /\ \/ \E r \in Targets(i) :
            /\ Admitted(i, r)
            /\ cust' = [cust EXCEPT ![r] = Written(i, r)]
            /\ plan' = [plan EXCEPT ![i] = NoPlan]
            /\ Goto(i, "ready")
            /\ UNCHANGED <<ask, held>>
       \/ (\A r \in Targets(i) : ~Admitted(i, r)) /\ Return(i) /\ UNCHANGED cust
    /\ UNCHANGED <<required, orphans, sms, booked, raced>>

\* An update that the index refuses is not noticed, an insert is.
UpsertWrite(i) ==
    /\ pc[i] = "upserting"
    /\ \/ \E r \in Targets(i) :
            /\ Admitted(i, r) \/ plan[i].kind = "update"
            /\ cust' = IF Admitted(i, r) THEN [cust EXCEPT ![r] = Written(i, r)] ELSE cust
            /\ booked' = [booked EXCEPT ![i] = IF required /\ ask[i].phone \notin raced THEN r ELSE NoRow]
       \/ /\ plan[i].kind = "insert" /\ \A r \in Targets(i) : ~Admitted(i, r)
          /\ UNCHANGED <<cust, booked>>
    /\ Return(i)
    /\ UNCHANGED <<required, orphans, sms, raced>>

------------------------------------------------------------------------------
Verifying(i) ==
    \/ TakeCooldown(i) \/ StoreCode(i) \/ Deliver(i) \/ ResetTries(i)
    \/ \E code \in 0..MaxSends : ReadCode(i, code)
    \/ CountTry(i) \/ SpendCode(i)

Next ==
    \/ Backfill
    \/ Configure
    \/ \E i \in Idents :
         \/ \E ph \in Phones, n \in Names : Start(i, ph, n)
         \/ Verifying(i)
         \/ BindRead(i) \/ BindWrite(i) \/ UpsertRead(i) \/ UpsertWrite(i)
    \/ \E ph \in Phones : Forget(ph)

Spec == Init /\ [][Next]_vars

------------------------------------------------------------------------------
(* Properties *)

\* An employee's id, which the external-contact path gives for all his customers
\* (server.go:2129).
Shared(id) == \E i, j \in Idents : PersonOf[i] # PersonOf[j] /\ OpenOf[i] = id /\ OpenOf[j] = id

\* Two customers have one phone only when two transactions about it overlapped: the
\* lookups before every insert and every update keep phones apart, no index does.
OnePhoneOneCustomer ==
    \A r, s \in Rows :
        r # s /\ cust[r].phone # Blank /\ cust[r].phone = cust[s].phone
            => cust[r].phone \in raced

\* A verified phone on a customer with a messaging identity is the phone of the
\* person behind it, whatever was typed, merged or filled in before.
VerifiedIsOwners ==
    \A r \in Rows, i \in Idents :
        cust[r].verified /\ cust[r].ext = ExtOf[i] /\ ~Shared(cust[r].open)
            => PhoneOwner[cust[r].phone] = PersonOf[i]

\* With the verification on, an appointment is booked on a customer that carries an identity of
\* whoever asked for it, when the phone is on one customer and none of his identities has a shared
\* id; and on the very identity he asked with, when no other has one of its ids.
BookedForSelf ==
    \A i \in Idents :
        LET his   == {j \in Idents : PersonOf[j] = PersonOf[i]}
            alike == {j \in Idents : OpenOf[j] = OpenOf[i] \/ ExtOf[j] = ExtOf[i]}
        IN  booked[i] # NoRow =>
              /\ (\A j \in his : ~Shared(OpenOf[j])) => \E j \in his : cust[booked[i]].ext = ExtOf[j]
              /\ alike = {i} => cust[booked[i]].ext = ExtOf[i]

\* So the system knows who is who: one customer for a phone, a verified phone with its owner,
\* and an appointment with whoever asked for it.
WhoIsWho == OnePhoneOneCustomer /\ VerifiedIsOwners /\ BookedForSelf

\* The comment on upsertCustomerInTx: the second insert of a phone fails.
PhonesAreUnique ==
    \A r, s \in Rows : r # s /\ cust[r].phone # Blank => cust[r].phone # cust[s].phone

\* The comment on customer_backfill.go: afterwards every appointment has a customer.
BackfillCompletes == orphans # {} ~> orphans = {}
=============================================================================
