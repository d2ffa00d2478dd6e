--------------------------- MODULE PixPaymentsProofs ---------------------------
(***************************************************************************)
(* PaymentsCohere holds of PixPayments for any charges, finitely many      *)
(* connections and webhook handlers, and any number of faults.             *)
(***************************************************************************)
EXTENDS PixPayments, FiniteSetTheorems, TLAPS

\* A request holds a charge of its own that nobody can pay yet, and whose row
\* is there exactly after the insert.
RequestsHold ==
  /\ \A s \in Sessions : request[s].step \in Charged =>
       /\ charge[request[s].charge] = "made"
       /\ (pix[request[s].charge] = "none") <=> (request[s].step \in {"qr", "row"})
  /\ \A s, t \in Sessions :
       request[s].step \in Charged /\ request[t].step \in Charged /\ s # t
         => request[s].charge # request[t].charge

\* A charge that was not made has no row, and one with an event about money is
\* paid; a handler works on such an event, of a charge with a row.
EventsTell ==
  /\ \A c \in Charges : charge[c] = "none" => pix[c] = "none"
  /\ \A m \in sent : m.event \in Paying => charge[m.charge] = "paid"
  /\ \A h \in Hooks : hook[h] # Idle =>
       /\ hook[h].event \in Paying
       /\ [charge |-> hook[h].charge, event |-> hook[h].event] \in sent

Flow == TypeOK /\ RequestsHold /\ EventsTell /\ PaidIsKnown /\ ConfirmedIsBooked

\* A booking that will be made of charge c is one of a handler, or one of an
\* event that waits for its first handler or for one after a refusal.
Working(c) == {h \in Hooks : hook[h].step = "found" /\ hook[h].charge = c}
Waiting(c) == {m \in inbox : m \in EventsOf(c) /\ ~Unanswered(m)}

Due(c) == ledger[c] + Cardinality(Working(c)) + Cardinality(Waiting(c))

BookingsCounted ==
  \A c \in Charges : charge[c] = "donated" \/ Due(c) <= Cardinality(EventsOf(c)) + repeats[c]

\* A connection that is about to make a customer saw none.
Asking == {s \in Sessions : request[s].step = "newCustomer"}

CustomersCounted == customers + Cardinality(Asking) <= Cardinality(Sessions)

PaymentsInv == Flow /\ BookingsCounted /\ CustomersCounted

-----------------------------------------------------------------------------
LEMMA InitFlows == Init => Flow
  BY MaxFaultsAssumption DEF Init, Flow, TypeOK, RequestsHold, EventsTell, PaidIsKnown, ConfirmedIsBooked,
     Idle, Charged

(* createDynamic.                                                           *)

LEMMA FirstStepsFlow ==
  ASSUME Flow, NEW s \in Sessions, OpenDynamic(s) \/ FindCustomer(s) \/ CreateCustomer(s) \/ FetchQr(s)
  PROVE  Flow'
  <1> USE DEF OpenDynamic, FindCustomer, CreateCustomer, FetchQr, Goto, Idle, Charged
  <1>1. TypeOK'
    BY DEF Flow, TypeOK
  <1>2. RequestsHold'
    BY DEF Flow, TypeOK, RequestsHold
  <1>3. EventsTell' /\ PaidIsKnown' /\ ConfirmedIsBooked'
    BY DEF Flow, EventsTell, PaidIsKnown, ConfirmedIsBooked
  <1>4. QED
    BY <1>1, <1>2, <1>3 DEF Flow

LEMMA CreateChargeFlows ==
  ASSUME Flow, NEW s \in Sessions, NEW c \in Charges, CreateCharge(s, c)
  PROVE  Flow'
  <1> USE DEF CreateCharge, Goto, Send
  <1>1. TypeOK'
    BY DEF Flow, TypeOK, Charged, Events
  <1>2. RequestsHold'
    BY DEF Flow, TypeOK, RequestsHold, EventsTell, Charged
  <1>3. EventsTell'
    BY DEF Flow, TypeOK, EventsTell, Paying
  <1>4. PaidIsKnown' /\ ConfirmedIsBooked'
    BY DEF Flow, TypeOK, PaidIsKnown, ConfirmedIsBooked
  <1>5. QED
    BY <1>1, <1>2, <1>3, <1>4 DEF Flow

LEMMA InsertRowFlows ==
  ASSUME Flow, NEW s \in Sessions, InsertRow(s)
  PROVE  Flow'
  <1> USE DEF InsertRow, Goto, Charged
  <1>1. request[s] \in [step : Charged, charge : Charges]
    BY DEF Flow, TypeOK, Idle
  <1>2. charge[request[s].charge] = "made" /\ pix[request[s].charge] = "none"
    BY DEF Flow, RequestsHold
  <1>3. TypeOK'
    BY <1>1 DEF Flow, TypeOK
  <1>4. RequestsHold'
    BY <1>1, <1>2 DEF Flow, TypeOK, RequestsHold
  <1>5. EventsTell' /\ PaidIsKnown' /\ ConfirmedIsBooked'
    BY <1>1, <1>2 DEF Flow, TypeOK, EventsTell, PaidIsKnown, ConfirmedIsBooked
  <1>6. QED
    BY <1>3, <1>4, <1>5 DEF Flow

LEMMA AnswerFlows ==
  ASSUME Flow, NEW s \in Sessions, Answer(s)
  PROVE  Flow'
  <1> USE DEF Answer, Goto, Charged
  <1>1. request[s] \in [step : Charged, charge : Charges]
    BY DEF Flow, TypeOK, Idle
  <1>2. charge[request[s].charge] = "made" /\ pix[request[s].charge] # "none"
    BY DEF Flow, RequestsHold
  <1>3. TypeOK'
    BY <1>1 DEF Flow, TypeOK
  <1>4. RequestsHold'
    BY <1>1, <1>2 DEF Flow, TypeOK, RequestsHold, Idle
  <1>5. EventsTell' /\ PaidIsKnown' /\ ConfirmedIsBooked'
    BY <1>1, <1>2 DEF Flow, TypeOK, EventsTell, PaidIsKnown, ConfirmedIsBooked
  <1>6. QED
    BY <1>3, <1>4, <1>5 DEF Flow

LEMMA RequestFailsFlows ==
  ASSUME Flow, NEW s \in Sessions, RequestFails(s)
  PROVE  Flow'
  <1> USE DEF RequestFails
  <1>1. TypeOK'
    BY MaxFaultsAssumption DEF Flow, TypeOK
  <1>2. RequestsHold'
    BY DEF Flow, TypeOK, RequestsHold, Idle, Charged
  <1>3. EventsTell' /\ PaidIsKnown' /\ ConfirmedIsBooked'
    BY DEF Flow, EventsTell, PaidIsKnown, ConfirmedIsBooked
  <1>4. QED
    BY <1>1, <1>2, <1>3 DEF Flow

(* The public forms, the provider and the webhook.                          *)

LEMMA PublicFlows ==
  ASSUME Flow, NEW c \in Charges, CreateManual(c) \/ CreatePublicDonation(c)
  PROVE  Flow'
  <1> USE DEF CreateManual, CreatePublicDonation, Public
  <1>1. pix[c] = "none" /\ charge[c] = "none"
    BY DEF Flow, EventsTell
  <1>2. TypeOK'
    BY DEF Flow, TypeOK
  <1>a. ASSUME NEW s \in Sessions, request[s].step \in Charged
        PROVE  request[s].charge \in Charges \ {c}
    BY <1>a, <1>1 DEF Flow, TypeOK, RequestsHold, Charged, Idle
  <1>3. RequestsHold'
    BY <1>a DEF Flow, TypeOK, RequestsHold
  <1>4. EventsTell' /\ PaidIsKnown'
    BY <1>1 DEF Flow, TypeOK, EventsTell, PaidIsKnown
  <1>5. ConfirmedIsBooked'
    BY <1>1 DEF Flow, TypeOK, ConfirmedIsBooked
  <1>6. QED
    BY <1>2, <1>3, <1>4, <1>5 DEF Flow

LEMMA PayFlows ==
  ASSUME Flow, NEW c \in Charges, Pay(c)
  PROVE  Flow'
  <1>1. PICK es \in SUBSET Paying \ {{}} : Send({[charge |-> c, event |-> e] : e \in es})
    BY DEF Pay
  <1> USE DEF Pay
  <1>2. TypeOK'
    BY <1>1 DEF Flow, TypeOK, Send, Events
  <1>3. RequestsHold'
    BY DEF Flow, TypeOK, RequestsHold, Charged
  <1>4. EventsTell'
    BY <1>1 DEF Flow, TypeOK, EventsTell, Send
  <1>5. PaidIsKnown' /\ ConfirmedIsBooked'
    BY DEF Flow, TypeOK, PaidIsKnown, ConfirmedIsBooked
  <1>6. QED
    BY <1>2, <1>3, <1>4, <1>5 DEF Flow

LEMMA ReceiveFlows ==
  ASSUME Flow, NEW h \in Hooks, NEW m \in inbox, Receive(h, m) \/ ReceiveAgain(h, m)
  PROVE  Flow'
  <1>1. m \in sent /\ m \in [charge : Charges, event : Events]
    BY DEF Flow, TypeOK
  <1>2. m = [charge |-> m.charge, event |-> m.event]
    BY <1>1
  <1>3. ReceiveAgain(h, m) => m.event \in Paying
    BY DEF Flow, EventsTell, ReceiveAgain, Unanswered
  <1> USE DEF Receive, ReceiveAgain
  <1>4. TypeOK'
    BY <1>1, MaxFaultsAssumption DEF Flow, TypeOK
  <1>5. EventsTell'
    BY <1>1, <1>2, <1>3 DEF Flow, TypeOK, EventsTell, Idle
  <1>6. RequestsHold' /\ PaidIsKnown' /\ ConfirmedIsBooked'
    BY DEF Flow, RequestsHold, PaidIsKnown, ConfirmedIsBooked
  <1>7. QED
    BY <1>4, <1>5, <1>6 DEF Flow

\* The charge of a handler that is at work was paid, and so has its row.
LEMMA HandlersKnow ==
  ASSUME Flow, NEW h \in Hooks, hook[h] # Idle
  PROVE  /\ hook[h] \in [step : {"found", "ack"}, charge : Charges, event : Events]
         /\ charge[hook[h].charge] = "paid"
         /\ pix[hook[h].charge] # "none"
  <1>1. hook[h] \in [step : {"found", "ack"}, charge : Charges, event : Events]
    BY DEF Flow, TypeOK
  <1>2. charge[hook[h].charge] = "paid"
    BY DEF Flow, EventsTell
  <1>3. QED
    BY <1>1, <1>2 DEF Flow, PaidIsKnown

LEMMA BookFlows ==
  ASSUME Flow, NEW h \in Hooks, Book(h)
  PROVE  Flow'
  <1>1. /\ hook[h] \in [step : {"found", "ack"}, charge : Charges, event : Events]
        /\ charge[hook[h].charge] = "paid"
        /\ pix[hook[h].charge] # "none"
    BY HandlersKnow DEF Book, Idle
  <1> USE DEF Book, Handled
  <1>2. TypeOK'
    BY <1>1 DEF Flow, TypeOK
  <1>3. RequestsHold'
    BY <1>1 DEF Flow, TypeOK, RequestsHold, Charged
  <1>4. EventsTell'
    BY <1>1 DEF Flow, TypeOK, EventsTell, Idle
  <1>5. PaidIsKnown' /\ ConfirmedIsBooked'
    BY <1>1 DEF Flow, TypeOK, PaidIsKnown, ConfirmedIsBooked
  <1>6. QED
    BY <1>2, <1>3, <1>4, <1>5 DEF Flow

LEMMA HandlerEndsFlow ==
  ASSUME Flow, NEW h \in Hooks, Ack(h) \/ HookFails(h) \/ AckLost(h)
  PROVE  Flow'
  <1>1. /\ hook[h] \in [step : {"found", "ack"}, charge : Charges, event : Events]
        /\ charge[hook[h].charge] = "paid"
        /\ pix[hook[h].charge] # "none"
    BY HandlersKnow DEF Ack, HookFails, AckLost, Idle
  <1> USE DEF Ack, HookFails, AckLost, Fault, Handled
  <1>2. TypeOK'
    BY <1>1, MaxFaultsAssumption DEF Flow, TypeOK
  <1>3. EventsTell'
    BY DEF Flow, TypeOK, EventsTell, Idle
  <1>4. RequestsHold' /\ PaidIsKnown' /\ ConfirmedIsBooked'
    BY DEF Flow, RequestsHold, PaidIsKnown, ConfirmedIsBooked
  <1>5. QED
    BY <1>2, <1>3, <1>4 DEF Flow

-----------------------------------------------------------------------------
(* Counting.                                                                *)

LEMMA NoMore ==
  ASSUME NEW S, IsFiniteSet(S), NEW T \in SUBSET S
  PROVE  Cardinality(S) \in Nat /\ Cardinality(T) \in Nat /\ Cardinality(T) <= Cardinality(S)
  BY FS_Subset, FS_CardinalityType

LEMMA AtMostOneMore ==
  ASSUME NEW S, IsFiniteSet(S), NEW x, NEW T \in SUBSET (S \cup {x})
  PROVE  Cardinality(T) \in Nat /\ Cardinality(T) <= Cardinality(S) + 1
  <1>1. IsFiniteSet(S \cup {x})
    BY FS_AddElement
  <1>2. Cardinality(S \cup {x}) = IF x \in S THEN Cardinality(S) ELSE Cardinality(S) + 1
    BY FS_AddElement
  <1>3. Cardinality(S) \in Nat
    BY FS_CardinalityType
  <1>4. Cardinality(T) \in Nat /\ Cardinality(T) <= Cardinality(S \cup {x})
    BY <1>1, NoMore
  <1>5. QED
    BY <1>2, <1>3, <1>4

LEMMA AtLeastOneLess ==
  ASSUME NEW S, IsFiniteSet(S), NEW x \in S, NEW T \in SUBSET (S \ {x})
  PROVE  Cardinality(T) \in Nat /\ Cardinality(T) + 1 <= Cardinality(S)
  <1>1. IsFiniteSet(S \ {x}) /\ Cardinality(S \ {x}) = Cardinality(S) - 1
    BY FS_RemoveElement
  <1>2. Cardinality(S) \in Nat
    BY FS_CardinalityType
  <1>3. QED
    BY <1>1, <1>2, NoMore

\* A payment makes at most two events about money.
LEMMA FewEvents ==
  ASSUME NEW c, NEW Told,
         \A m \in Told : m \in [charge : Charges, event : Events] /\ m.charge = c /\ m.event \in Paying
  PROVE  IsFiniteSet(Told)
  <1> DEFINE Two == {[charge |-> c, event |-> "PAYMENT_CONFIRMED"]}
                      \cup {[charge |-> c, event |-> "PAYMENT_RECEIVED"]}
  <1>1. Told \in SUBSET Two
    BY DEF Paying
  <1>2. IsFiniteSet({[charge |-> c, event |-> "PAYMENT_CONFIRMED"]})
    BY FS_Singleton
  <1>3. IsFiniteSet(Two)
    BY <1>2, FS_AddElement
  <1> HIDE DEF Two
  <1>4. QED
    BY <1>1, <1>3, FS_Subset

LEMMA Countable ==
  ASSUME Flow, NEW c \in Charges
  PROVE  /\ IsFiniteSet(Working(c)) /\ IsFiniteSet(Waiting(c)) /\ IsFiniteSet(EventsOf(c))
         /\ Cardinality(Working(c)) \in Nat /\ Cardinality(Waiting(c)) \in Nat
         /\ Cardinality(EventsOf(c)) \in Nat
         /\ ledger[c] \in Nat /\ repeats[c] \in Nat
  <1>1. IsFiniteSet(Working(c))
    BY ConnectionsAreFinite, FS_Subset DEF Working
  <1>2. IsFiniteSet(EventsOf(c))
    <2>1. \A m \in EventsOf(c) : m \in [charge : Charges, event : Events] /\ m.charge = c /\ m.event \in Paying
      BY DEF EventsOf, Flow, TypeOK
    <2>2. QED
      BY <2>1, FewEvents
  <1>3. IsFiniteSet(Waiting(c))
    BY <1>2, FS_Subset DEF Waiting
  <1>4. QED
    BY <1>1, <1>2, <1>3, FS_CardinalityType DEF Flow, TypeOK

LEMMA InitCounts == Init => PaymentsInv
  <1> SUFFICES ASSUME Init PROVE BookingsCounted /\ CustomersCounted
    BY InitFlows DEF PaymentsInv
  <1>1. BookingsCounted
    <2> SUFFICES ASSUME NEW c \in Charges PROVE Due(c) <= Cardinality(EventsOf(c)) + repeats[c]
      BY DEF BookingsCounted
    <2>1. Working(c) = {} /\ Waiting(c) = {} /\ EventsOf(c) = {}
      BY DEF Init, Working, Waiting, EventsOf, Idle
    <2>2. QED
      BY <2>1, FS_EmptySet DEF Init, Due
  <1>2. CustomersCounted
    <2>1. Asking = {}
      BY DEF Init, Asking, Idle
    <2>2. Cardinality(Sessions) \in Nat
      BY ConnectionsAreFinite, FS_CardinalityType
    <2>3. QED
      BY <2>1, <2>2, FS_EmptySet DEF Init, CustomersCounted
  <1>3. QED
    BY <1>1, <1>2

\* A step that books nothing, tells of no money and leaves the handlers alone.
LEMMA QuietStepCounts ==
  ASSUME Flow, BookingsCounted, UNCHANGED <<ledger, hook, repeats>>,
         \A c \in Charges : EventsOf(c)' = EventsOf(c) /\ Waiting(c)' = Waiting(c),
         \A c \in Charges : charge[c] = "donated" => charge'[c] = "donated"
  PROVE  BookingsCounted'
  <1> SUFFICES ASSUME NEW c \in Charges, charge'[c] # "donated"
               PROVE  Due(c)' <= Cardinality(EventsOf(c)') + repeats'[c]
    BY DEF BookingsCounted
  <1>1. Working(c)' = Working(c)
    BY DEF Working
  <1>2. QED
    BY <1>1 DEF BookingsCounted, Due

LEMMA RequestCounts ==
  ASSUME Flow, BookingsCounted, NEW s \in Sessions,
         \/ OpenDynamic(s) \/ FindCustomer(s) \/ CreateCustomer(s)
         \/ \E c \in Charges : CreateCharge(s, c)
         \/ FetchQr(s) \/ InsertRow(s) \/ Answer(s) \/ RequestFails(s)
  PROVE  BookingsCounted'
  <1> USE DEF OpenDynamic, FindCustomer, CreateCustomer, CreateCharge, FetchQr, InsertRow, Answer,
          RequestFails, Goto, Send
  <1>1. UNCHANGED <<ledger, hook, repeats>>
    OBVIOUS
  <1>2. ASSUME NEW c \in Charges
        PROVE  EventsOf(c)' = EventsOf(c) /\ Waiting(c)' = Waiting(c)
    BY DEF EventsOf, Waiting, Unanswered, Paying
  <1>3. ASSUME NEW c \in Charges, charge[c] = "donated"
        PROVE  charge'[c] = "donated"
    BY <1>3 DEF Flow, TypeOK, RequestsHold, Charged
  <1>4. QED
    BY <1>1, <1>2, <1>3, QuietStepCounts

LEMMA PublicCounts ==
  ASSUME Flow, BookingsCounted, NEW d \in Charges, CreateManual(d) \/ CreatePublicDonation(d)
  PROVE  BookingsCounted'
  <1> USE DEF CreateManual, CreatePublicDonation, Public
  <1> SUFFICES ASSUME NEW c \in Charges, charge'[c] # "donated"
               PROVE  Due(c)' <= Cardinality(EventsOf(c)') + repeats'[c]
    BY DEF BookingsCounted
  <1>1. Working(c)' = Working(c) /\ EventsOf(c)' = EventsOf(c) /\ Waiting(c)' = Waiting(c)
    BY DEF Working, EventsOf, Waiting, Unanswered
  <1>2. ledger'[c] <= ledger[c] /\ ledger'[c] \in Nat
    BY DEF Flow, TypeOK
  <1>3. Due(c) <= Cardinality(EventsOf(c)) + repeats[c]
    BY DEF BookingsCounted, Flow, TypeOK
  <1>4. QED
    BY <1>1, <1>2, <1>3, Countable DEF Due

\* The events of a charge that is paid now are its first about money.
LEMMA PayCounts ==
  ASSUME Flow, BookingsCounted, NEW d \in Charges, Pay(d)
  PROVE  BookingsCounted'
  <1> SUFFICES ASSUME NEW c \in Charges, charge'[c] # "donated"
               PROVE  Due(c)' <= Cardinality(EventsOf(c)') + repeats'[c]
    BY DEF BookingsCounted
  <1>1. Working(c)' = Working(c) /\ ledger'[c] = ledger[c] /\ repeats'[c] = repeats[c]
    BY DEF Pay, Working
  <1>2. Due(c) <= Cardinality(EventsOf(c)) + repeats[c]
    BY DEF BookingsCounted, Pay, Flow, TypeOK
  <1>3. CASE c # d
    <2>1. EventsOf(c)' = EventsOf(c) /\ Waiting(c)' = Waiting(c)
      BY <1>3 DEF Pay, Send, EventsOf, Waiting, Unanswered
    <2>2. QED
      BY <2>1, <1>1, <1>2 DEF Due
  <1>4. CASE c = d
    <2>1. EventsOf(c) = {}
      BY <1>4 DEF EventsOf, Pay, Flow, EventsTell
    <2>2. Cardinality(EventsOf(c)) = 0
      BY <2>1, FS_EmptySet
    <2>3. IsFiniteSet(EventsOf(c)')
      <3>1. \A m \in EventsOf(c)' : m \in [charge : Charges, event : Events] /\ m.charge = c /\ m.event \in Paying
        BY PayFlows DEF EventsOf, Flow, TypeOK
      <3>2. QED
        BY <3>1, FewEvents
    <2>4. Cardinality(EventsOf(c)') \in Nat /\ Cardinality(Waiting(c)') \in Nat
          /\ Cardinality(Waiting(c)') <= Cardinality(EventsOf(c)')
      <3>1. Waiting(c)' \in SUBSET EventsOf(c)'
        BY DEF Waiting
      <3>2. QED
        BY <3>1, <2>3, NoMore
    <2>5. QED
      BY <1>1, <1>2, <2>2, <2>4, Countable DEF Due
  <1>5. QED
    BY <1>3, <1>4

LEMMA ReceiveCounts ==
  ASSUME Flow, BookingsCounted, NEW h \in Hooks, NEW m \in inbox, Receive(h, m)
  PROVE  BookingsCounted'
  <1> USE DEF Receive
  <1> SUFFICES ASSUME NEW c \in Charges, charge'[c] # "donated"
               PROVE  Due(c)' <= Cardinality(EventsOf(c)') + repeats'[c]
    BY DEF BookingsCounted
  <1>1. EventsOf(c)' = EventsOf(c) /\ UNCHANGED <<ledger, repeats>>
    BY DEF EventsOf
  <1>2. Due(c) <= Cardinality(EventsOf(c)) + repeats[c]
    BY DEF BookingsCounted
  <1>3. m \in sent /\ m = [charge |-> m.charge, event |-> m.event]
    BY DEF Flow, TypeOK
  <1>4. CASE hook' = hook
    <2>1. Working(c)' = Working(c) /\ Waiting(c)' \in SUBSET Waiting(c)
      BY <1>1, <1>4 DEF Working, Waiting, Unanswered
    <2>2. Cardinality(Waiting(c)') \in Nat /\ Cardinality(Waiting(c)') <= Cardinality(Waiting(c))
      BY <2>1, Countable, NoMore
    <2>3. QED
      BY <1>1, <1>2, <2>1, <2>2, Countable DEF Due
  <1>5. CASE hook' = [hook EXCEPT ![h] = [step |-> "found", charge |-> m.charge, event |-> m.event]]
             /\ m.event \in Paying /\ UNCHANGED inbox
    <2>1. Waiting(c)' \in SUBSET Waiting(c)
      BY <1>1, <1>5 DEF Waiting, Unanswered, Idle, Flow, TypeOK
    <2>2. CASE m.charge = c
      <3>1. Working(c)' \in SUBSET (Working(c) \cup {h})
        BY <1>5 DEF Working, Flow, TypeOK
      <3>2. m \in Waiting(c)
        BY <1>3, <1>5, <2>2 DEF Waiting, EventsOf
      <3>3. Unanswered(m)'
        BY <1>5 DEF Unanswered, Idle, Flow, TypeOK
      <3>4. Waiting(c)' \in SUBSET (Waiting(c) \ {m})
        BY <2>1, <3>3 DEF Waiting
      <3>5. Cardinality(Working(c)') \in Nat /\ Cardinality(Working(c)') <= Cardinality(Working(c)) + 1
        BY <3>1, Countable, AtMostOneMore
      <3>6. Cardinality(Waiting(c)') \in Nat /\ Cardinality(Waiting(c)') + 1 <= Cardinality(Waiting(c))
        BY <3>2, <3>4, Countable, AtLeastOneLess
      <3>7. QED
        BY <1>1, <1>2, <3>5, <3>6, Countable DEF Due
    <2>3. CASE m.charge # c
      <3>1. Working(c)' = Working(c)
        BY <1>5, <2>3 DEF Working, Idle, Flow, TypeOK
      <3>2. Cardinality(Waiting(c)') \in Nat /\ Cardinality(Waiting(c)') <= Cardinality(Waiting(c))
        BY <2>1, Countable, NoMore
      <3>3. QED
        BY <1>1, <1>2, <3>1, <3>2, Countable DEF Due
    <2>4. QED
      BY <2>2, <2>3
  <1>6. QED
    BY <1>4, <1>5

LEMMA ReceiveAgainCounts ==
  ASSUME Flow, BookingsCounted, NEW h \in Hooks, NEW m \in inbox, ReceiveAgain(h, m)
  PROVE  BookingsCounted'
  <1> USE DEF ReceiveAgain
  <1> SUFFICES ASSUME NEW c \in Charges, charge'[c] # "donated"
               PROVE  Due(c)' <= Cardinality(EventsOf(c)') + repeats'[c]
    BY DEF BookingsCounted
  <1>1. EventsOf(c)' = EventsOf(c) /\ UNCHANGED ledger
    BY DEF EventsOf
  <1>2. Due(c) <= Cardinality(EventsOf(c)) + repeats[c]
    BY DEF BookingsCounted
  <1>3. Waiting(c)' \in SUBSET Waiting(c)
    BY <1>1 DEF Waiting, Unanswered, Idle, Flow, TypeOK
  <1>4. Cardinality(Waiting(c)') \in Nat /\ Cardinality(Waiting(c)') <= Cardinality(Waiting(c))
    BY <1>3, Countable, NoMore
  <1>5. CASE m.charge = c
    <2>1. Working(c)' \in SUBSET (Working(c) \cup {h})
      BY DEF Working, Flow, TypeOK
    <2>2. Cardinality(Working(c)') \in Nat /\ Cardinality(Working(c)') <= Cardinality(Working(c)) + 1
      BY <2>1, Countable, AtMostOneMore
    <2>3. repeats'[c] = repeats[c] + 1
      BY <1>5 DEF Flow, TypeOK
    <2>4. QED
      BY <1>1, <1>2, <1>4, <2>2, <2>3, Countable DEF Due
  <1>6. CASE m.charge # c
    <2>1. Working(c)' = Working(c) /\ repeats'[c] = repeats[c]
      BY <1>6 DEF Working, Idle, Flow, TypeOK
    <2>2. QED
      BY <1>1, <1>2, <1>4, <2>1, Countable DEF Due
  <1>7. QED
    BY <1>5, <1>6

LEMMA BookCounts ==
  ASSUME Flow, BookingsCounted, NEW h \in Hooks, Book(h)
  PROVE  BookingsCounted'
  <1> USE DEF Book, Handled
  <1> SUFFICES ASSUME NEW c \in Charges, charge'[c] # "donated"
               PROVE  Due(c)' <= Cardinality(EventsOf(c)') + repeats'[c]
    BY DEF BookingsCounted
  <1>1. EventsOf(c)' = EventsOf(c) /\ UNCHANGED repeats
    BY DEF EventsOf
  <1>2. Due(c) <= Cardinality(EventsOf(c)) + repeats[c]
    BY DEF BookingsCounted
  <1>3. Waiting(c)' \in SUBSET Waiting(c)
    BY <1>1 DEF Waiting, Unanswered, Idle, Flow, TypeOK
  <1>4. Cardinality(Waiting(c)') \in Nat /\ Cardinality(Waiting(c)') <= Cardinality(Waiting(c))
    BY <1>3, Countable, NoMore
  <1>5. CASE hook[h].charge = c
    <2>1. h \in Working(c) /\ Working(c)' \in SUBSET (Working(c) \ {h})
      BY <1>5 DEF Working, Flow, TypeOK
    <2>2. Cardinality(Working(c)') \in Nat /\ Cardinality(Working(c)') + 1 <= Cardinality(Working(c))
      BY <2>1, Countable, AtLeastOneLess
    <2>3. ledger'[c] = ledger[c] + 1
      BY <1>5 DEF Flow, TypeOK
    <2>4. QED
      BY <1>1, <1>2, <1>4, <2>2, <2>3, Countable DEF Due
  <1>6. CASE hook[h].charge # c
    <2>1. Working(c)' = Working(c) /\ ledger'[c] = ledger[c]
      BY <1>6 DEF Working, Flow, TypeOK
    <2>2. QED
      BY <1>1, <1>2, <1>4, <2>1, Countable DEF Due
  <1>7. QED
    BY <1>5, <1>6

\* A handler that ends without booking: what it worked on is waiting again,
\* is answered, or was repeated.
LEMMA HandlerEndsCount ==
  ASSUME Flow, BookingsCounted, NEW h \in Hooks, Ack(h) \/ HookFails(h) \/ AckLost(h)
  PROVE  BookingsCounted'
  <1> DEFINE e == [charge |-> hook[h].charge, event |-> hook[h].event]
  <1> SUFFICES ASSUME NEW c \in Charges, charge'[c] # "donated"
               PROVE  Due(c)' <= Cardinality(EventsOf(c)') + repeats'[c]
    BY DEF BookingsCounted
  <1>1. EventsOf(c)' = EventsOf(c) /\ UNCHANGED ledger
    BY DEF EventsOf, Ack, HookFails, AckLost, Fault, Handled
  <1>2. Due(c) <= Cardinality(EventsOf(c)) + repeats[c]
    BY DEF BookingsCounted, Ack, HookFails, AckLost, Fault, Handled
  <1>3. hook[h] \in [step : {"found", "ack"}, charge : Charges, event : Events]
    BY HandlersKnow DEF Ack, HookFails, AckLost, Idle
  <1>4. hook' = [hook EXCEPT ![h] = Idle]
    BY DEF Ack, HookFails, AckLost, Fault
  <1>5. Working(c)' \in SUBSET Working(c)
    BY <1>4 DEF Working, Idle, Flow, TypeOK
  <1>6. Cardinality(Working(c)') \in Nat /\ Cardinality(Working(c)') <= Cardinality(Working(c))
    BY <1>5, Countable, NoMore
  <1>7. ASSUME NEW m \in Waiting(c)', m \notin Waiting(c)
        PROVE  m = e /\ m.charge = c /\ m \in inbox'
    <2>1. m \in sent /\ m.charge = c /\ m \in inbox' /\ m \in inbox
      BY <1>1 DEF Waiting, EventsOf, Ack, HookFails, AckLost, Fault, Handled
    <2>2. Unanswered(m) /\ ~Unanswered(m)'
      BY <1>7, <1>1, <2>1 DEF Waiting
    <2>3. m.charge = hook[h].charge /\ m.event = hook[h].event
      BY <2>2, <1>4 DEF Unanswered, Flow, TypeOK
    <2>4. m = [charge |-> m.charge, event |-> m.event]
      BY <2>1 DEF Flow, TypeOK
    <2>5. QED
      BY <2>1, <2>3, <2>4
  <1>8. CASE Ack(h) \/ hook[h].charge # c
    <2>1. e \in inbox' => hook[h].charge # c
      BY <1>8 DEF Ack, HookFails, AckLost
    <2>2. Waiting(c)' \in SUBSET Waiting(c)
      BY <1>7, <2>1
    <2>3. Cardinality(Waiting(c)') \in Nat /\ Cardinality(Waiting(c)') <= Cardinality(Waiting(c))
      BY <2>2, Countable, NoMore
    <2>4. repeats'[c] = repeats[c]
      BY <1>8 DEF Ack, HookFails, AckLost, Handled, Flow, TypeOK
    <2>5. QED
      BY <1>1, <1>2, <1>6, <2>3, <2>4, Countable DEF Due
  <1>9. CASE ~Ack(h) /\ hook[h].charge = c
    <2>1. Waiting(c)' \in SUBSET (Waiting(c) \cup {e})
      BY <1>7
    <2>2. Cardinality(Waiting(c)') \in Nat /\ Cardinality(Waiting(c)') <= Cardinality(Waiting(c)) + 1
      BY <2>1, Countable, AtMostOneMore
    <2>3. CASE HookFails(h)
      <3>1. h \in Working(c) /\ Working(c)' \in SUBSET (Working(c) \ {h})
        BY <1>4, <1>9, <2>3 DEF HookFails, Working, Idle, Flow, TypeOK
      <3>2. Cardinality(Working(c)') + 1 <= Cardinality(Working(c))
        BY <3>1, Countable, AtLeastOneLess
      <3>3. repeats'[c] = repeats[c]
        BY <2>3 DEF HookFails
      <3>4. QED
        BY <1>1, <1>2, <1>6, <2>2, <3>2, <3>3, Countable DEF Due
    <2>4. CASE AckLost(h)
      <3>1. repeats'[c] = repeats[c] + 1
        BY <1>9, <2>4 DEF AckLost, Flow, TypeOK
      <3>2. QED
        BY <1>1, <1>2, <1>6, <2>2, <3>1, Countable DEF Due
    <2>5. QED
      BY <1>9, <2>3, <2>4
  <1>10. QED
    BY <1>8, <1>9

\* Customers: one who is about to make one leaves, or finds none.
LEMMA AsksCount ==
  ASSUME Flow, CustomersCounted, [Next]_pixVars
  PROVE  CustomersCounted'
  <1>1. IsFiniteSet(Asking) /\ customers \in Nat
    BY ConnectionsAreFinite, FS_Subset DEF Asking, Flow, TypeOK
  <1>2. CASE customers' = customers /\ Asking' \in SUBSET Asking
    <2>1. Cardinality(Asking') <= Cardinality(Asking) /\ Cardinality(Asking') \in Nat
          /\ Cardinality(Asking) \in Nat
      BY <1>1, <1>2, NoMore
    <2>2. Cardinality(Sessions) \in Nat
      BY ConnectionsAreFinite, FS_CardinalityType
    <2>3. QED
      BY <1>1, <1>2, <2>1, <2>2 DEF CustomersCounted
  <1>3. CASE customers = 0 /\ customers' = 0
    <2>1. Asking' \in SUBSET Sessions
      BY DEF Asking
    <2>2. Cardinality(Asking') <= Cardinality(Sessions) /\ Cardinality(Asking') \in Nat
      BY <2>1, ConnectionsAreFinite, NoMore
    <2>3. QED
      BY <1>3, <2>2 DEF CustomersCounted
  <1>4. ASSUME NEW s \in Sessions, CreateCustomer(s)
        PROVE  CustomersCounted'
    <2>1. s \in Asking /\ Asking' \in SUBSET (Asking \ {s}) /\ customers' = customers + 1
      BY <1>4 DEF CreateCustomer, Goto, Asking, Flow, TypeOK
    <2>2. Cardinality(Asking') + 1 <= Cardinality(Asking) /\ Cardinality(Asking') \in Nat
          /\ Cardinality(Asking) \in Nat
      BY <1>1, <2>1, AtLeastOneLess, FS_CardinalityType
    <2>3. Cardinality(Sessions) \in Nat
      BY ConnectionsAreFinite, FS_CardinalityType
    <2>4. QED
      BY <1>1, <2>1, <2>2, <2>3 DEF CustomersCounted
  <1>5. ASSUME NEW s \in Sessions, FindCustomer(s)
        PROVE  CustomersCounted'
    BY <1>1, <1>2, <1>3, <1>5 DEF FindCustomer, Goto, Asking, Flow, TypeOK
  <1>6. ASSUME NEW s \in Sessions,
               \/ OpenDynamic(s) \/ \E c \in Charges : CreateCharge(s, c)
               \/ FetchQr(s) \/ InsertRow(s) \/ Answer(s) \/ RequestFails(s)
        PROVE  CustomersCounted'
    <2>1. customers' = customers /\ Asking' \in SUBSET Asking
      <3>1. customers' = customers
        BY <1>6 DEF OpenDynamic, CreateCharge, FetchQr, InsertRow, Answer, RequestFails, Goto
      <3>2. request \in [Sessions -> {Idle} \cup [step : {"customer", "newCustomer", "charge"}]
                                          \cup [step : Charged, charge : Charges]]
        BY DEF Flow, TypeOK
      <3>3. request'[s].step # "newCustomer" /\ \A t \in Sessions \ {s} : request'[t] = request[t]
        <4>1. CASE OpenDynamic(s) \/ Answer(s) \/ RequestFails(s)
          BY <3>2, <4>1 DEF OpenDynamic, Answer, RequestFails, Goto, Idle
        <4>2. CASE \E c \in Charges : CreateCharge(s, c)
          BY <3>2, <4>2 DEF CreateCharge, Goto
        <4>3. CASE FetchQr(s) \/ InsertRow(s)
          <5>1. request[s] \in [step : Charged, charge : Charges]
            BY <3>2, <4>3 DEF FetchQr, InsertRow, Idle
          <5>2. QED
            BY <3>2, <4>3, <5>1 DEF FetchQr, InsertRow, Goto
        <4>4. QED
          BY <1>6, <4>1, <4>2, <4>3
      <3>4. QED
        BY <3>1, <3>3 DEF Asking
    <2>2. QED
      BY <2>1, <1>2
  <1>7. CASE UNCHANGED <<customers, request>>
    BY <1>2, <1>7 DEF Asking
  <1>8. QED
    BY <1>4, <1>5, <1>6, <1>7
    DEF Next, pixVars, Handle, CreateManual, CreatePublicDonation, Public, Pay, Receive, ReceiveAgain,
        Book, Ack, HookFails, AckLost, Fault, Handled

-----------------------------------------------------------------------------
LEMMA NextCounts ==
  ASSUME PaymentsInv, [Next]_pixVars
  PROVE  PaymentsInv'
  <1> USE DEF PaymentsInv
  <1>1. ASSUME NEW s \in Sessions,
               \/ OpenDynamic(s) \/ FindCustomer(s) \/ CreateCustomer(s)
               \/ \E c \in Charges : CreateCharge(s, c)
               \/ FetchQr(s) \/ InsertRow(s) \/ Answer(s) \/ RequestFails(s)
        PROVE  Flow' /\ BookingsCounted'
    BY <1>1, FirstStepsFlow, CreateChargeFlows, InsertRowFlows, AnswerFlows, RequestFailsFlows,
       RequestCounts
  <1>2. ASSUME NEW c \in Charges, CreateManual(c) \/ CreatePublicDonation(c) \/ Pay(c)
        PROVE  Flow' /\ BookingsCounted'
    BY <1>2, PublicFlows, PayFlows, PublicCounts, PayCounts
  <1>3. ASSUME NEW h \in Hooks, NEW m \in inbox, Receive(h, m) \/ ReceiveAgain(h, m)
        PROVE  Flow' /\ BookingsCounted'
    BY <1>3, ReceiveFlows, ReceiveCounts, ReceiveAgainCounts
  <1>4. ASSUME NEW h \in Hooks, Book(h) \/ Ack(h) \/ HookFails(h) \/ AckLost(h)
        PROVE  Flow' /\ BookingsCounted'
    BY <1>4, BookFlows, HandlerEndsFlow, BookCounts, HandlerEndsCount
  <1>5. ASSUME UNCHANGED pixVars PROVE Flow' /\ BookingsCounted'
    <2> USE <1>5 DEF pixVars
    <2>1. Flow'
      BY DEF Flow, TypeOK, RequestsHold, EventsTell, PaidIsKnown, ConfirmedIsBooked
    <2>2. BookingsCounted'
      <3>1. ASSUME NEW c \in Charges
            PROVE  EventsOf(c)' = EventsOf(c) /\ Waiting(c)' = Waiting(c)
        BY DEF EventsOf, Waiting, Unanswered
      <3>2. QED
        BY <3>1, QuietStepCounts
    <2>3. QED
      BY <2>1, <2>2
  <1>6. Flow' /\ BookingsCounted'
    BY <1>1, <1>2, <1>3, <1>4, <1>5 DEF Next, Handle
  <1>7. QED
    BY <1>6, AsksCount

LEMMA CountsSuffice == PaymentsInv => PaymentsCohere
  <1> SUFFICES ASSUME PaymentsInv PROVE BookedPerDelivery /\ OneCustomerPerConnection
    BY DEF PaymentsInv, Flow, PaymentsCohere
  <1>1. BookedPerDelivery
    BY Countable DEF PaymentsInv, BookingsCounted, BookedPerDelivery, Due
  <1>2. OneCustomerPerConnection
    <2>1. IsFiniteSet(Asking)
      BY ConnectionsAreFinite, FS_Subset DEF Asking
    <2>2. Cardinality(Asking) \in Nat /\ Cardinality(Sessions) \in Nat /\ customers \in Nat
      BY <2>1, ConnectionsAreFinite, FS_CardinalityType DEF PaymentsInv, Flow, TypeOK
    <2>3. QED
      BY <2>2 DEF PaymentsInv, CustomersCounted, OneCustomerPerConnection
  <1>3. QED
    BY <1>1, <1>2

\* Whatever is lost, repeated or interrupted: nobody can pay a charge without
\* a row, a charge is confirmed exactly when it is booked, it is booked at most
\* once per event and per delivery that was repeated without a refusal, and no
\* more customers are made than there are connections.
THEOREM PaymentsStayCoherent == Spec => []PaymentsCohere
  <1>1. Init => PaymentsInv
    BY InitCounts
  <1>2. PaymentsInv /\ [Next]_pixVars => PaymentsInv'
    BY NextCounts
  <1>3. PaymentsInv => PaymentsCohere
    BY CountsSuffice
  <1>4. QED
    BY <1>1, <1>2, <1>3, PTL DEF Spec

-----------------------------------------------------------------------------
(* A step of PixPayments is one of Payment, or none.                        *)

\* What Payment is shown: the stages of all charges.
Shown == [c \in Charges |-> Stage(c)]

LEMMA Stands ==
  ASSUME \A c \in Charges : Stage(c)' = Stage(c)
  PROVE  UNCHANGED Shown
  BY DEF Shown

LEMMA Advances ==
  ASSUME NEW c \in Charges, \A d \in Charges \ {c} : Stage(d)' = Stage(d),
         \/ Stage(c)' = Stage(c)
         \/ Stage(c) = "none" /\ Stage(c)' = "offered"
         \/ Stage(c) = "offered" /\ Stage(c)' = "paid"
         \/ Stage(c) = "paid" /\ Stage(c)' = "booked"
  PROVE  Abstract!Next \/ UNCHANGED Shown
  <1>1. CASE Stage(c)' = Stage(c)
    BY <1>1, Stands
  <1>2. ASSUME Stage(c)' # Stage(c)
        PROVE  Shown' = [Shown EXCEPT ![c] = Stage(c)'] /\ Shown[c] = Stage(c)
    BY DEF Shown
  <1>3. CASE Stage(c)' # Stage(c)
    <2>1. Abstract!Offer(c) \/ Abstract!Pay(c) \/ Abstract!Book(c)
      BY <1>2, <1>3 DEF Shown, Abstract!Offer, Abstract!Pay, Abstract!Book, Abstract!Advance
    <2>2. QED
      BY <2>1 DEF Abstract!Next
  <1>4. QED
    BY <1>1, <1>3

\* How far a charge was, and is after a step of its own.
LEMMA OneCharge ==
  ASSUME Flow, NEW c \in Charges,
         \/ charge[c] = "made" /\ charge' = [charge EXCEPT ![c] = "shown"] /\ UNCHANGED pix
         \/ charge[c] = "shown" /\ charge' = [charge EXCEPT ![c] = "paid"] /\ UNCHANGED pix
         \/ charge[c] = "paid" /\ pix' = [pix EXCEPT ![c] = "confirmed"] /\ UNCHANGED charge
  PROVE  Abstract!Next \/ UNCHANGED Shown
  <1>1. charge \in [Charges -> {"none", "manual", "donated", "made", "shown", "paid"}]
        /\ pix \in [Charges -> {"none", "pending", "confirmed"}]
    BY DEF Flow, TypeOK
  <1>2. ASSUME NEW d \in Charges \ {c} PROVE Stage(d)' = Stage(d)
    <2>1. charge'[d] = charge[d] /\ pix'[d] = pix[d]
      BY <1>1
    <2>2. QED
      BY <2>1 DEF Stage
  <1>3. \/ charge[c] = "made" /\ charge'[c] = "shown" /\ pix'[c] = pix[c]
        \/ charge[c] = "shown" /\ charge'[c] = "paid" /\ pix'[c] = pix[c]
        \/ charge[c] = "paid" /\ pix'[c] = "confirmed" /\ charge'[c] = charge[c]
    BY <1>1
  <1>4. \/ Stage(c)' = Stage(c)
        \/ Stage(c) = "none" /\ Stage(c)' = "offered"
        \/ Stage(c) = "offered" /\ Stage(c)' = "paid"
        \/ Stage(c) = "paid" /\ Stage(c)' = "booked"
    <2>1. CASE pix[c] = "confirmed"
      BY <1>3, <2>1 DEF Stage
    <2>2. CASE pix[c] # "confirmed"
      BY <1>3, <2>2 DEF Stage
    <2>3. QED
      BY <2>1, <2>2
  <1>5. QED
    BY <1>2, <1>4, Advances

LEMMA StepAdvances ==
  ASSUME Flow, [Next]_pixVars
  PROVE  Abstract!Next \/ UNCHANGED Shown
  <1>1. CASE UNCHANGED <<charge, pix>>
    BY <1>1, Stands DEF Stage
  <1>2. ASSUME NEW s \in Sessions, NEW c \in Charges, CreateCharge(s, c) PROVE UNCHANGED Shown
    <2>1. charge[c] = "none" /\ pix[c] = "none" /\ charge' = [charge EXCEPT ![c] = "made"] /\ UNCHANGED pix
      BY <1>2 DEF CreateCharge, Flow, EventsTell
    <2>2. QED
      BY <2>1, Stands DEF Stage, Flow, TypeOK
  <1>3. ASSUME NEW s \in Sessions, InsertRow(s) PROVE UNCHANGED Shown
    <2>1. PICK c \in Charges : c = request[s].charge /\ charge[c] = "made" /\ pix[c] = "none"
      BY <1>3 DEF InsertRow, Flow, TypeOK, RequestsHold, Charged, Idle
    <2>2. pix' = [pix EXCEPT ![c] = "pending"] /\ UNCHANGED charge
      BY <1>3, <2>1 DEF InsertRow
    <2>3. QED
      BY <2>1, <2>2, Stands DEF Stage, Flow, TypeOK
  <1>4. ASSUME NEW s \in Sessions, Answer(s) PROVE Abstract!Next \/ UNCHANGED Shown
    <2>1. PICK c \in Charges : c = request[s].charge /\ charge[c] = "made"
      BY <1>4 DEF Answer, Flow, TypeOK, RequestsHold, Charged, Idle
    <2>2. charge' = [charge EXCEPT ![c] = "shown"] /\ UNCHANGED pix
      BY <1>4, <2>1 DEF Answer
    <2>3. QED
      BY <2>1, <2>2, OneCharge
  <1>5. ASSUME NEW c \in Charges, CreateManual(c) \/ CreatePublicDonation(c) PROVE UNCHANGED Shown
    <2>1. charge[c] = "none" /\ pix[c] = "none"
      BY <1>5 DEF CreateManual, CreatePublicDonation, Public, Flow, EventsTell
    <2>2. PICK form \in {"manual", "donated"} :
            charge' = [charge EXCEPT ![c] = form] /\ pix' = [pix EXCEPT ![c] = "pending"]
      BY <1>5 DEF CreateManual, CreatePublicDonation, Public
    <2>3. QED
      BY <2>1, <2>2, Stands DEF Stage, Flow, TypeOK
  <1>6. ASSUME NEW c \in Charges, Pay(c) PROVE Abstract!Next \/ UNCHANGED Shown
    <2>1. charge[c] = "shown" /\ charge' = [charge EXCEPT ![c] = "paid"] /\ UNCHANGED pix
      BY <1>6 DEF Pay
    <2>2. QED
      BY <2>1, OneCharge
  <1>7. ASSUME NEW h \in Hooks, Book(h) PROVE Abstract!Next \/ UNCHANGED Shown
    <2>0. hook[h] # Idle /\ hook[h] \in {Idle} \cup [step : {"found", "ack"}, charge : Charges, event : Events]
      BY <1>7 DEF Book, Flow, TypeOK, Idle
    <2>1. PICK c \in Charges : c = hook[h].charge /\ charge[c] = "paid"
      <3>1. hook[h].charge \in Charges /\ hook[h].event \in Paying
            /\ [charge |-> hook[h].charge, event |-> hook[h].event] \in sent
        BY <2>0 DEF Flow, EventsTell
      <3>2. charge[hook[h].charge] = "paid"
        BY <3>1 DEF Flow, EventsTell
      <3>3. QED
        BY <3>1, <3>2
    <2>2. pix' = [pix EXCEPT ![c] = "confirmed"] /\ UNCHANGED charge
      BY <1>7, <2>1 DEF Book, Handled
    <2>3. QED
      BY <2>1, <2>2, OneCharge
  <1>8. ASSUME NEW s \in Sessions,
               OpenDynamic(s) \/ FindCustomer(s) \/ CreateCustomer(s) \/ FetchQr(s) \/ RequestFails(s)
        PROVE  UNCHANGED <<charge, pix>>
    BY <1>8 DEF OpenDynamic, FindCustomer, CreateCustomer, FetchQr, RequestFails
  <1>9. ASSUME NEW h \in Hooks,
               Ack(h) \/ HookFails(h) \/ AckLost(h) \/ \E m \in inbox : Receive(h, m) \/ ReceiveAgain(h, m)
        PROVE  UNCHANGED <<charge, pix>>
    BY <1>9 DEF Ack, Handled, HookFails, AckLost, Fault, Receive, ReceiveAgain
  <1>10. CASE UNCHANGED pixVars
    BY <1>1, <1>10 DEF pixVars
  <1>11. QED
    BY <1>1, <1>2, <1>3, <1>4, <1>5, <1>6, <1>7, <1>8, <1>9, <1>10 DEF Next, Handle

\* PIX charges go the way Payment says: money is asked for only with a charge
\* that was offered, and is booked only when it was paid.  (That it is booked
\* in the end is checked with TLC only.)
THEOREM PaymentsAdvance == Spec => Abstract!Init /\ [][Abstract!Next]_Shown
  <1>1. Init => Abstract!Init
    BY DEF Init, Abstract!Init, Stage
  <1>2. PaymentsInv => Flow
    BY DEF PaymentsInv
  <1>3. Flow /\ [Next]_pixVars => [Abstract!Next]_Shown
    BY StepAdvances
  <1>4. Init => PaymentsInv
    BY InitCounts
  <1>5. PaymentsInv /\ [Next]_pixVars => PaymentsInv'
    BY NextCounts
  <1>6. QED
    BY <1>1, <1>2, <1>3, <1>4, <1>5, PTL DEF Spec
===============================================================================
