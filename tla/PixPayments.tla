----------------------------- MODULE PixPayments -----------------------------
(***************************************************************************)
(* The PIX charges of one church (financial/pix.service.ts): a request     *)
(* makes a charge at the payment provider and then its row, in the         *)
(* transaction of the request; the provider's webhook confirms the row and *)
(* books the money in the ledger.                                          *)
(*                                                                         *)
(* The provider is external: it finds the customers it was given, makes    *)
(* charges, sends the events of a charge, and sends an event again until   *)
(* the answer is 200.  A charge can be paid once its QR code was returned. *)
(* Amounts, categories and the church's settings are left out: a request   *)
(* they refuse is one that was not made.                                   *)
(***************************************************************************)
EXTENDS Naturals, FiniteSets

CONSTANTS
  Charges,    \* payments, at the provider or not: each id is used once
  Sessions,   \* connections of the treasurers
  Hooks,      \* webhook requests the server handles at a time
  MaxFaults   \* bound on failures, crashes and deliveries that are repeated

ASSUME MaxFaultsAssumption == MaxFaults \in Nat
ASSUME ConnectionsAreFinite == IsFiniteSet(Sessions) /\ IsFiniteSet(Hooks)

VARIABLES
  customers,  \* customers at the provider that carry the church's reference
  charge,     \* [Charges -> how far the charge is at the provider, or the public
              \* form it was announced with instead]
  pix,        \* [Charges -> status of the committed pix_payments row, or "none"]
  ledger,     \* [Charges -> number of rows the ledger has of it]
  request,    \* [Sessions -> createDynamic in progress]
  inbox,      \* events the provider was not yet answered with 200
  hook,       \* [Hooks -> handleWebhook in progress]
  faults,     \* faults so far
  sent,       \* history: the events the provider made
  repeats     \* history: [Charges -> deliveries that were repeated although
              \* the one before was not refused]

pixVars == <<customers, charge, pix, ledger, request, inbox, hook, faults, sent, repeats>>

Paying == {"PAYMENT_CONFIRMED", "PAYMENT_RECEIVED"}
Events == Paying \cup {"PAYMENT_CREATED"}
Idle   == [step |-> "idle"]

\* The steps of createDynamic once it knows its charge.
Charged == {"qr", "row", "answer"}

\* Requests, events and rows are well formed; the faults stay in their bound.
TypeOK ==
  /\ customers \in Nat
  /\ charge \in [Charges -> {"none", "manual", "donated", "made", "shown", "paid"}]
  /\ pix \in [Charges -> {"none", "pending", "confirmed"}]
  /\ ledger \in [Charges -> Nat]
  /\ request \in [Sessions -> {Idle} \cup [step : {"customer", "newCustomer", "charge"}]
                                \cup [step : Charged, charge : Charges]]
  /\ inbox \subseteq sent
  /\ hook \in [Hooks -> {Idle} \cup [step : {"found", "ack"}, charge : Charges, event : Events]]
  /\ faults \in 0..MaxFaults
  /\ sent \subseteq [charge : Charges, event : Events]
  /\ repeats \in [Charges -> Nat]

Init ==
  /\ customers = 0
  /\ charge = [c \in Charges |-> "none"]
  /\ pix = [c \in Charges |-> "none"]
  /\ ledger = [c \in Charges |-> 0]
  /\ request = [s \in Sessions |-> Idle]
  /\ inbox = {}
  /\ hook = [h \in Hooks |-> Idle]
  /\ faults = 0
  /\ sent = {}
  /\ repeats = [c \in Charges |-> 0]

-----------------------------------------------------------------------------
(* createDynamic: four calls of the provider, then the row.                 *)

Goto(s, next) ==
  /\ request' = [request EXCEPT ![s] = next]
  /\ UNCHANGED <<ledger, hook, faults, repeats>>

\* The provider makes the events es and holds them until they are answered.
Send(es) ==
  /\ sent' = sent \cup es
  /\ inbox' = inbox \cup es

OpenDynamic(s) ==
  /\ request[s] = Idle
  /\ Goto(s, [step |-> "customer"])
  /\ UNCHANGED <<customers, charge, pix, inbox, sent>>

FindCustomer(s) ==
  /\ request[s].step = "customer"
  /\ Goto(s, [step |-> IF customers > 0 THEN "charge" ELSE "newCustomer"])
  /\ UNCHANGED <<customers, charge, pix, inbox, sent>>

CreateCustomer(s) ==
  /\ request[s].step = "newCustomer"
  /\ customers' = customers + 1
  /\ Goto(s, [step |-> "charge"])
  /\ UNCHANGED <<charge, pix, inbox, sent>>

CreateCharge(s, c) ==
  /\ request[s].step = "charge" /\ charge[c] = "none"
  /\ charge' = [charge EXCEPT ![c] = "made"]
  /\ Send({[charge |-> c, event |-> "PAYMENT_CREATED"]})
  /\ Goto(s, [step |-> "qr", charge |-> c])
  /\ UNCHANGED <<customers, pix>>

FetchQr(s) ==
  /\ request[s].step = "qr"
  /\ Goto(s, [request[s] EXCEPT !.step = "row"])
  /\ UNCHANGED <<customers, charge, pix, inbox, sent>>

\* The row is inserted, the interceptor commits the transaction, and only
\* then is the request answered.
InsertRow(s) ==
  /\ request[s].step = "row"
  /\ pix' = [pix EXCEPT ![request[s].charge] = "pending"]
  /\ Goto(s, [request[s] EXCEPT !.step = "answer"])
  /\ UNCHANGED <<customers, charge, inbox, sent>>

Answer(s) ==
  /\ request[s].step = "answer"
  /\ charge' = [charge EXCEPT ![request[s].charge] = "shown"]
  /\ Goto(s, Idle)
  /\ UNCHANGED <<customers, pix, inbox, sent>>

\* A call of the provider or a statement fails, the transaction takes longer
\* than 30 s, the process dies, or the answer is lost.
RequestFails(s) ==
  /\ request[s] # Idle /\ faults < MaxFaults
  /\ faults' = faults + 1
  /\ request' = [request EXCEPT ![s] = Idle]
  /\ UNCHANGED <<customers, charge, pix, ledger, inbox, hook, sent, repeats>>

-----------------------------------------------------------------------------
(* The public forms.  Their rows name no payment of the provider, so no     *)
(* webhook will find them.                                                  *)

Public(c, form, status, rows) ==
  /\ charge[c] = "none"
  /\ charge' = [charge EXCEPT ![c] = form]
  /\ pix' = [pix EXCEPT ![c] = status]
  /\ ledger' = [ledger EXCEPT ![c] = rows]
  /\ UNCHANGED <<customers, request, inbox, hook, faults, sent, repeats>>

CreateManual(c) == Public(c, "manual", "pending", 0)

CreatePublicDonation(c) == Public(c, "donated", "pending", 1)

-----------------------------------------------------------------------------
(* The provider: a payment makes one event or both.                         *)

Pay(c) ==
  /\ charge[c] = "shown"
  /\ charge' = [charge EXCEPT ![c] = "paid"]
  /\ \E es \in SUBSET Paying \ {{}} : Send({[charge |-> c, event |-> e] : e \in es})
  /\ UNCHANGED <<customers, pix, ledger, request, hook, faults, repeats>>

-----------------------------------------------------------------------------
(* handleWebhook.                                                           *)

Unanswered(m) == \E h \in Hooks : hook[h] # Idle /\ hook[h].charge = m.charge /\ hook[h].event = m.event

\* Mutant: every event of a payment confirms it.
ReceiveAnyEvent(h, m) ==
  /\ hook[h] = Idle /\ m \in inbox /\ ~Unanswered(m)
  /\ pix[m.charge] # "none"
  /\ hook' = [hook EXCEPT ![h] = [step |-> "found", charge |-> m.charge, event |-> m.event]]
  /\ UNCHANGED <<customers, charge, pix, ledger, request, inbox, faults, sent, repeats>>

\* A first delivery, or one after a refusal.  An event that is not about
\* money, and one of a payment without a row, is answered and forgotten.
Receive(h, m) ==
  /\ hook[h] = Idle /\ m \in inbox /\ ~Unanswered(m)
  /\ IF m.event \in Paying /\ pix[m.charge] # "none"
     THEN /\ hook' = [hook EXCEPT ![h] = [step |-> "found", charge |-> m.charge, event |-> m.event]]
          /\ UNCHANGED inbox
     ELSE /\ inbox' = inbox \ {m}
          /\ UNCHANGED hook
  /\ UNCHANGED <<customers, charge, pix, ledger, request, faults, sent, repeats>>

\* The provider did not wait for the answer and delivers again.
ReceiveAgain(h, m) ==
  /\ hook[h] = Idle /\ m \in inbox /\ Unanswered(m) /\ faults < MaxFaults
  /\ faults' = faults + 1
  /\ repeats' = [repeats EXCEPT ![m.charge] = @ + 1]
  /\ hook' = [hook EXCEPT ![h] = [step |-> "found", charge |-> m.charge, event |-> m.event]]
  /\ UNCHANGED <<customers, charge, pix, ledger, request, inbox, sent>>

Handled(h) == UNCHANGED <<customers, charge, request, faults, sent, repeats>>

\* Mutant: the ledger row is written before the transaction, which fails.
BookFirst(h) ==
  /\ hook[h].step = "found"
  /\ ledger' = [ledger EXCEPT ![hook[h].charge] = @ + 1]
  /\ \/ /\ pix' = [pix EXCEPT ![hook[h].charge] = "confirmed"]
        /\ hook' = [hook EXCEPT ![h].step = "ack"]
        /\ UNCHANGED faults
     \/ /\ faults < MaxFaults
        /\ faults' = faults + 1
        /\ hook' = [hook EXCEPT ![h] = Idle]
        /\ UNCHANGED pix
  /\ UNCHANGED <<customers, charge, request, inbox, sent, repeats>>

\* Row and ledger in one transaction.  The status of the row is not looked at.
Book(h) ==
  /\ hook[h].step = "found"
  /\ pix' = [pix EXCEPT ![hook[h].charge] = "confirmed"]
  /\ ledger' = [ledger EXCEPT ![hook[h].charge] = @ + 1]
  /\ hook' = [hook EXCEPT ![h].step = "ack"]
  /\ UNCHANGED inbox
  /\ Handled(h)

Ack(h) ==
  /\ hook[h].step = "ack"
  /\ inbox' = inbox \ {[charge |-> hook[h].charge, event |-> hook[h].event]}
  /\ hook' = [hook EXCEPT ![h] = Idle]
  /\ UNCHANGED <<pix, ledger>>
  /\ Handled(h)

Fault(h) ==
  /\ faults < MaxFaults
  /\ faults' = faults + 1
  /\ hook' = [hook EXCEPT ![h] = Idle]
  /\ UNCHANGED <<customers, charge, pix, ledger, request, sent>>

\* There is no administrator, a statement fails, or the process dies.
HookFails(h) ==
  /\ hook[h].step = "found"
  /\ Fault(h)
  /\ UNCHANGED <<inbox, repeats>>

\* The answer is lost, or the process dies before it: the event comes again.
AckLost(h) ==
  /\ hook[h].step = "ack"
  /\ repeats' = [repeats EXCEPT ![hook[h].charge] = @ + 1]
  /\ Fault(h)
  /\ UNCHANGED inbox

-----------------------------------------------------------------------------
Handle == \E h \in Hooks : Book(h) \/ Ack(h) \/ \E m \in inbox : Receive(h, m)

Next ==
  \/ \E s \in Sessions :
       \/ OpenDynamic(s)
       \/ FindCustomer(s)
       \/ CreateCustomer(s)
       \/ \E c \in Charges : CreateCharge(s, c)
       \/ FetchQr(s)
       \/ InsertRow(s)
       \/ Answer(s)
       \/ RequestFails(s)
  \/ \E c \in Charges : CreateManual(c) \/ CreatePublicDonation(c) \/ Pay(c)
  \/ Handle
  \/ \E h \in Hooks : HookFails(h) \/ AckLost(h) \/ \E m \in inbox : ReceiveAgain(h, m)

Spec == Init /\ [][Next]_pixVars

\* The server runs, and the provider delivers until it is answered.
FairSpec == Spec /\ WF_pixVars(Handle)

-----------------------------------------------------------------------------
\* Whatever fails between the charge and its row, nobody can pay a charge
\* that has no row: the QR code is returned after the commit only, so a
\* charge left over at the provider never takes money the webhook would drop.
PaidIsKnown == \A c \in Charges : charge[c] \in {"shown", "paid"} => pix[c] # "none"

\* A charge is confirmed if and only if it is in the ledger, and a public
\* donation is in both tables or in none, whichever statement failed.
ConfirmedIsBooked ==
  \A c \in Charges :
    /\ (ledger[c] > 0) <=> (pix[c] = "confirmed" \/ charge[c] = "donated")
    /\ charge[c] = "donated" => pix[c] = "pending"

EventsOf(c) == {m \in sent : m.charge = c /\ m.event \in Paying}

\* A charge is booked more than once only for events that are more than one,
\* or were delivered again without a refusal: a refused delivery books nothing.
BookedPerDelivery ==
  \A c \in Charges : charge[c] = "donated" \/ ledger[c] <= Cardinality(EventsOf(c)) + repeats[c]

\* Requests that overlap may each make a customer of the church, as the look
\* and the creation are two calls; but no more of them than connections.
OneCustomerPerConnection == customers <= Cardinality(Sessions)

\* PIX charges are a Payment: asked for when offered, booked when paid, and
\* booked in the end.
Stage(c) ==
  IF pix[c] = "confirmed" THEN "booked"
  ELSE CASE charge[c] = "paid"  -> "paid"
         [] charge[c] = "shown" -> "offered"
         [] OTHER               -> "none"

Abstract == INSTANCE Payment WITH payment <- [c \in Charges |-> Stage(c)]

Implements == Abstract!Spec

\* What PixPayments checks of its states.
PaymentsCohere ==
  TypeOK /\ PaidIsKnown /\ ConfirmedIsBooked /\ BookedPerDelivery /\ OneCustomerPerConnection
=============================================================================
