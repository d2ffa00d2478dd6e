------------------------- MODULE VisitorRegistration -------------------------
(***************************************************************************)
(* A visitor scans the QR code of a church and registers                   *)
(* (visitor/visitor.service.ts).  The route is public and has no           *)
(* transaction of its own: the code is read, the scan is counted at once,  *)
(* and then one transaction finds the visitor by phone or makes a person,  *)
(* and adds the consent and the visit.  What a visit does to the           *)
(* classification is in Persons.                                           *)
(***************************************************************************)
EXTENDS Naturals, FiniteSets

CONSTANTS
  PersonIds,  \* person ids: each is used once
  Phones,     \* phone numbers visitors give
  Devices,    \* devices that register at the same time
  MaxScans    \* bound on the scans of the code

VARIABLES
  active,    \* qr_tokens.is_active
  scans,     \* qr_tokens.scan_count
  phone,     \* [PersonIds -> phone of the committed row, NoPhone, or Unmade]
  consents,  \* [PersonIds -> committed consent records]
  visits,    \* [PersonIds -> committed visit records]
  device,    \* [Devices -> registration in progress]
  toggling,  \* {the value the open request of the secretary writes}, or {}
  blind      \* history: persons made while another registration had looked
             \* for the same phone and found nobody

visitorVars == <<active, scans, phone, consents, visits, device, toggling, blind>>

NoPhone == "no phone"
Unmade  == "unmade"
Idle    == [step |-> "idle"]

Known(number) == {p \in PersonIds : phone[p] = number}

\* Rows and registrations are well formed.
TypeOK ==
  /\ active \in BOOLEAN
  /\ scans \in 0..MaxScans
  /\ phone \in [PersonIds -> Phones \cup {NoPhone, Unmade}]
  /\ consents \in [PersonIds -> Nat]
  /\ visits \in [PersonIds -> Nat]
  /\ device \in [Devices -> {Idle} \cup [step : {"read", "counted"}, phone : Phones \cup {NoPhone}]
                    \cup [step : {"make"}, phone : Phones \cup {NoPhone}]
                    \cup [step : {"visit"}, person : PersonIds]]
  /\ toggling \subseteq BOOLEAN
  /\ blind \subseteq PersonIds

Init ==
  /\ active = TRUE
  /\ scans = 0
  /\ phone = [p \in PersonIds |-> Unmade]
  /\ consents = [p \in PersonIds |-> 0]
  /\ visits = [p \in PersonIds |-> 0]
  /\ device = [d \in Devices |-> Idle]
  /\ toggling = {}
  /\ blind = {}

Goto(d, next) ==
  /\ device' = [device EXCEPT ![d] = next]
  /\ UNCHANGED <<active, toggling>>

-----------------------------------------------------------------------------
(* toggleQrToken turns over the value it read.                              *)

OpenToggle ==
  /\ toggling = {}
  /\ toggling' = {~active}
  /\ UNCHANGED <<active, scans, phone, consents, visits, device, blind>>

CommitToggle ==
  /\ active' \in toggling
  /\ toggling' = {}
  /\ UNCHANGED <<scans, phone, consents, visits, device, blind>>

-----------------------------------------------------------------------------
(* registerViaQr                                                            *)

ReadCode(d, number) ==
  /\ device[d] = Idle /\ active
  /\ Goto(d, [step |-> "read", phone |-> number])
  /\ UNCHANGED <<scans, phone, consents, visits, blind>>

CountScan(d) ==
  /\ device[d].step = "read" /\ scans < MaxScans
  /\ scans' = scans + 1
  /\ Goto(d, [device[d] EXCEPT !.step = "counted"])
  /\ UNCHANGED <<phone, consents, visits, blind>>

\* Mutant: the phone is not looked for.
FindNobody(d) ==
  /\ device[d].step = "counted"
  /\ Goto(d, [step |-> "make", phone |-> device[d].phone])
  /\ UNCHANGED <<scans, phone, consents, visits, blind>>

\* Somebody without a phone is always somebody new.
Find(d) ==
  /\ device[d].step = "counted"
  /\ LET number == device[d].phone
     IN  IF number = NoPhone \/ Known(number) = {}
         THEN Goto(d, [step |-> "make", phone |-> number])
         ELSE \E p \in Known(number) : Goto(d, [step |-> "visit", person |-> p])
  /\ UNCHANGED <<scans, phone, consents, visits, blind>>

\* What the transaction adds to the person.
Attend(d, p) ==
  /\ consents' = [consents EXCEPT ![p] = @ + 1]
  /\ visits' = [visits EXCEPT ![p] = @ + 1]
  /\ Goto(d, Idle)
  /\ UNCHANGED scans

CommitNew(d, p) ==
  /\ device[d].step = "make" /\ phone[p] = Unmade
  /\ phone' = [phone EXCEPT ![p] = device[d].phone]
  /\ blind' = IF \E e \in Devices \ {d} : device[e] = device[d] THEN blind \cup {p} ELSE blind
  /\ Attend(d, p)

CommitKnown(d) ==
  /\ device[d].step = "visit" /\ phone[device[d].person] # Unmade
  /\ Attend(d, device[d].person)
  /\ UNCHANGED <<phone, blind>>

\* The transaction fails or the process dies: only the scan remains.
Fail(d) ==
  /\ device[d] # Idle
  /\ Goto(d, Idle)
  /\ UNCHANGED <<scans, phone, consents, visits, blind>>

-----------------------------------------------------------------------------
Next ==
  \/ OpenToggle
  \/ CommitToggle
  \/ \E d \in Devices :
       \/ \E number \in Phones \cup {NoPhone} : ReadCode(d, number)
       \/ CountScan(d)
       \/ Find(d)
       \/ \E p \in PersonIds : CommitNew(d, p)
       \/ CommitKnown(d)
       \/ Fail(d)

Spec == Init /\ [][Next]_visitorVars

-----------------------------------------------------------------------------
(* Properties.                                                              *)

\* Two persons have one phone only when the first was made while another
\* registration had already looked for that phone in vain.
OnePersonPerPhone ==
  \A p, q \in PersonIds \ blind : phone[p] \in Phones /\ phone[p] = phone[q] => p = q

\* The visit records, numbered for each person.
VisitRecords == UNION {{p} \X (1..visits[p]) : p \in PersonIds}

\* Nobody is recorded without a consent for each visit, and the visits that
\* came by the code are no more than its scans, whatever fails on the way.
VisitsAreCounted ==
  /\ \A p \in PersonIds : visits[p] = consents[p]
  /\ Cardinality(VisitRecords) <= scans

\* What VisitorRegistration checks of its states.
RegistrationsCohere == TypeOK /\ OnePersonPerPhone /\ VisitsAreCounted
==============================================================================
