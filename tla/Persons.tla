------------------------------- MODULE Persons -------------------------------
(***************************************************************************)
(* The persons of a congregation, their visits and their classification    *)
(* (persons/persons.service.ts, visits.service.ts and                      *)
(* classification.service.ts; visitors who scan a code are in              *)
(* VisitorRegistration).                                                   *)
(*                                                                         *)
(* A visitor with three visits in 60 days becomes an attendee, a member    *)
(* needs a date of membership, and a reclassification writes a row of      *)
(* history.  A request reads and decides when it opens, and writes when it *)
(* commits.  Texts and households are left out.                            *)
(***************************************************************************)
EXTENDS Naturals

CONSTANTS
  PersonIds,   \* person ids: each is used once
  Sessions,    \* connections of secretaries and visitors
  MaxVisits    \* bound on the visits of a person

VARIABLES
  person,   \* [PersonIds -> committed row, NoRow or Gone]
  visits,   \* [PersonIds -> committed visits of the last 60 days]
  history,  \* [PersonIds -> to_classification of the last committed row of
            \* classification_histories, or Keep]
  request,  \* [Sessions -> open request]
  crossed,  \* history: persons on which a request committed what it had
            \* decided before another one committed
  edited,   \* history: persons the form of the person gave a classification
  demoted,  \* history: persons made a visitor by hand
  cleared,  \* history: persons whose date of membership a form removed
  broken    \* history: persons with a row that does not begin where the row
            \* before it ended

personVars == <<person, visits, history, request, crossed, edited, demoted, cleared, broken>>

NoRow == [row |-> "none"]
Gone  == [row |-> "deleted"]
Idle  == [op |-> "idle"]
Keep  == "keep"   \* a field the form leaves out

Classes == {"visitor", "attendee", "member"}
Live == {p \in PersonIds : person[p].row = "live"}

\* Rows and requests are well formed.
TypeOK ==
  /\ person \in [PersonIds -> {NoRow, Gone} \cup
                   [row : {"live"}, class : Classes, dated : BOOLEAN]]
  /\ visits \in [PersonIds -> 0..MaxVisits]
  /\ history \in [PersonIds -> Classes \cup {Keep}]
  /\ request \in [Sessions -> {Idle}
       \cup [op : {"visit"}, on : PersonIds, counted : BOOLEAN, from : Classes \cup {Keep}]
       \cup [op : {"reclassify"}, on : PersonIds, from : Classes, to : Classes]
       \cup [op : {"edit"}, on : PersonIds, to : Classes \cup {Keep}, date : {Keep, "given", "null"}]]
  /\ {crossed, edited, demoted, cleared, broken} \subseteq SUBSET PersonIds

Init ==
  /\ person = [p \in PersonIds |-> NoRow]
  /\ visits = [p \in PersonIds |-> 0]
  /\ history = [p \in PersonIds |-> Keep]
  /\ request = [c \in Sessions |-> Idle]
  /\ crossed = {} /\ edited = {} /\ demoted = {} /\ cleared = {} /\ broken = {}

Goto(c, next) ==
  /\ request' = [request EXCEPT ![c] = next]
  /\ UNCHANGED <<person, visits, history, crossed, edited, demoted, cleared, broken>>

Open(c, next) == request[c] = Idle /\ Goto(c, next)

\* Another request decided on person p and has not committed.
Contended(c, p) ==
  \E d \in Sessions \ {c} : request[d].op \in {"visit", "reclassify", "edit"} /\ request[d].on = p

\* The end of request c, which wrote person p.
Wrote(c, p) ==
  /\ request' = [request EXCEPT ![c] = Idle]
  /\ crossed' = IF Contended(c, p) THEN crossed \cup {p} ELSE crossed

-----------------------------------------------------------------------------
(* persons.service.ts.  The validation of the form asks a date of a member. *)

Create(p, class, dated) ==
  /\ person[p] = NoRow
  /\ class = "member" => dated
  /\ person' = [person EXCEPT ![p] = [row |-> "live", class |-> class, dated |-> dated]]
  /\ UNCHANGED <<visits, history, request, crossed, edited, demoted, cleared, broken>>

OpenEdit(c, p, to, date) ==
  /\ p \in Live
  /\ to = "member" => date = "given" \/ person[p].dated
  /\ Open(c, [op |-> "edit", on |-> p, to |-> to, date |-> date])

\* The form changes the classification and writes no history.
CommitEdit(c) ==
  LET r == request[c]
  IN  /\ r.op = "edit" /\ r.on \in Live
      /\ person' = [person EXCEPT ![r.on] =
           [row   |-> "live",
            class |-> IF r.to = Keep THEN person[r.on].class ELSE r.to,
            dated |-> IF r.date = Keep THEN person[r.on].dated ELSE r.date = "given"]]
      /\ edited' = IF r.to \in {Keep, person[r.on].class} THEN edited ELSE edited \cup {r.on}
      /\ demoted' = IF r.to = "visitor" THEN demoted \cup {r.on} ELSE demoted
      /\ cleared' = IF r.date = "null" THEN cleared \cup {r.on} ELSE cleared
      /\ Wrote(c, r.on)
      /\ UNCHANGED <<visits, history, broken>>

\* What refers to the person goes with it.
Remove(p) ==
  /\ p \in Live
  /\ person' = [person EXCEPT ![p] = Gone]
  /\ visits' = [visits EXCEPT ![p] = 0]
  /\ history' = [history EXCEPT ![p] = Keep]
  /\ UNCHANGED <<request, crossed, edited, demoted, cleared, broken>>

-----------------------------------------------------------------------------
(* Visits: the row is inserted, then the person read and the visits counted *)
(* with it, then the classification written, all in one transaction.        *)

OpenVisit(c, p) ==
  /\ p \in Live /\ visits[p] < MaxVisits
  /\ Open(c, [op |-> "visit", on |-> p, counted |-> FALSE, from |-> Keep])

\* Mutant: the visit itself is not counted.
CountWithoutOwn(c) ==
  /\ request[c].op = "visit" /\ ~request[c].counted /\ request[c].on \in Live
  /\ LET p == request[c].on
     IN  Goto(c, [request[c] EXCEPT !.counted = TRUE,
           !.from = IF person[p].class = "visitor" /\ visits[p] >= 3 THEN "visitor" ELSE Keep])

\* checkAutoReclassification, and the first read of reclassify.
Count(c) ==
  /\ request[c].op = "visit" /\ ~request[c].counted /\ request[c].on \in Live
  /\ LET p == request[c].on
     IN  Goto(c, [request[c] EXCEPT !.counted = TRUE,
           !.from = IF person[p].class = "visitor" /\ visits[p] + 1 >= 3 THEN "visitor" ELSE Keep])

\* What reclassify writes.
Reclassified(p, from, to) ==
  /\ person' = [person EXCEPT ![p].class = to]
  /\ history' = [history EXCEPT ![p] = to]
  /\ broken' = IF history[p] \in {Keep, from} THEN broken ELSE broken \cup {p}

CommitVisit(c) ==
  LET p == request[c].on
  IN  /\ request[c].op = "visit" /\ request[c].counted /\ p \in Live
      /\ visits[p] < MaxVisits
      /\ visits' = [visits EXCEPT ![p] = @ + 1]
      /\ IF request[c].from = Keep THEN UNCHANGED <<person, history, broken>>
                                   ELSE Reclassified(p, "visitor", "attendee")
      /\ Wrote(c, p)
      /\ UNCHANGED <<edited, demoted, cleared>>

\* Sixty days pass.
Age(p) ==
  /\ visits[p] > 0
  /\ visits' = [visits EXCEPT ![p] = 0]
  /\ UNCHANGED <<person, history, request, crossed, edited, demoted, cleared, broken>>

-----------------------------------------------------------------------------
(* manualReclassify: nothing to do when the person is there already.        *)

OpenReclassify(c, p, to) ==
  /\ p \in Live /\ person[p].class # to
  /\ to = "member" => person[p].dated
  /\ Open(c, [op |-> "reclassify", on |-> p, from |-> person[p].class, to |-> to])

CommitReclassify(c) ==
  LET r == request[c]
  IN  /\ r.op = "reclassify" /\ r.on \in Live
      /\ Reclassified(r.on, r.from, r.to)
      /\ demoted' = IF r.to = "visitor" THEN demoted \cup {r.on} ELSE demoted
      /\ Wrote(c, r.on)
      /\ UNCHANGED <<visits, edited, cleared>>

\* A statement fails, or the person is gone.
Rollback(c) == request[c] # Idle /\ Goto(c, Idle)

-----------------------------------------------------------------------------
Next ==
  \/ \E p \in PersonIds :
       \/ \E class \in Classes, dated \in BOOLEAN : Create(p, class, dated)
       \/ Remove(p)
       \/ Age(p)
  \/ \E c \in Sessions, p \in PersonIds :
       \/ \E to \in Classes \cup {Keep}, date \in {Keep, "given", "null"} : OpenEdit(c, p, to, date)
       \/ OpenVisit(c, p)
       \/ \E to \in Classes : OpenReclassify(c, p, to)
  \/ \E c \in Sessions :
       \/ CommitEdit(c)
       \/ Count(c)
       \/ CommitVisit(c)
       \/ CommitReclassify(c)
       \/ Rollback(c)

Spec == Init /\ [][Next]_personVars

-----------------------------------------------------------------------------
(* Properties.                                                              *)

\* Somebody with three recent visits is no visitor any more.  Only two
\* requests about a person at once can miss it, or somebody who was made a
\* visitor by hand, until the next visit.
VisitorsAreNoticed ==
  \A p \in Live \ (crossed \cup demoted) : person[p].class = "visitor" => visits[p] < 3

\* The rows of history are a chain that ends with the classification of the
\* person, but for requests at once and the form of the person, which
\* changes it without a row.
HistoryIsChain ==
  \A p \in Live \ (crossed \cup edited) : p \notin broken /\ history[p] \in {Keep, person[p].class}

\* A member has a date of membership, but for requests at once and a form
\* that removes the date of a member, which nothing refuses.
MembersAreDated ==
  \A p \in Live \ (crossed \cup cleared) : person[p].class = "member" => person[p].dated

\* What Persons checks of its states.
PersonsCohere == TypeOK /\ VisitorsAreNoticed /\ HistoryIsChain /\ MembersAreDated
==============================================================================
