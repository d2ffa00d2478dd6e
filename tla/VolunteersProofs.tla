---------------------------- MODULE VolunteersProofs ----------------------------
(***************************************************************************)
(* VolunteerRoster for any volunteers, slots, assignments and swap         *)
(* requests: SeatsCohere, HandoverIsRecorded and ResolvedStaysResolved     *)
(* however many sessions interleave; RosterCoheres and the three action    *)
(* properties of the sequential run when requests do not overlap.  And     *)
(* MinistryTree for any ministries and sessions: what loses a ministry in  *)
(* a cycle, and what makes a second root.                                  *)
(***************************************************************************)
EXTENDS MCVolunteers, FiniteSetTheorems, TLAPS

AsgRow == [slot : Slots, holder : Volunteers, status : {"pending", "confirmed", "declined", "removed"}]

SwapRow == [asg : Assignments, requester : Volunteers, substitute : SUBSET Volunteers,
            status : {"pending", "accepted", "rejected", "cancelled"}]

RowsTyped ==
  /\ schedule \in {"draft", "published", "deleted"}
  /\ slot \in [Slots -> {"absent", "live", "removed"}]
  /\ asg \in [Assignments -> {NoRow} \cup AsgRow]
  /\ swap \in [Swaps -> {NoRow} \cup SwapRow]
  /\ checkedIn \subseteq Assignments /\ notified \subseteq Assignments

\* What a handler holds of what it has read.
RequestTyped(r) ==
  /\ r.op \in Handlers \cup {"idle"}
  /\ r.op \in {"createSlot", "removeSlot", "createAssignment"} => r.slot \in Slots
  /\ r.op = "createAssignment" => r.holder \in Volunteers
  /\ r.op \in {"removeAssignment", "checkIn", "respond", "swapCreate"} => r.asg \in Assignments
  /\ r.op = "suggest" => r.picks \subseteq Slots \X Volunteers
  /\ r.op = "publish" => r.told \subseteq Assignments
  /\ r.op = "respond" => r.to \in {"confirmed", "declined"}
  /\ r.op \in {"swapCreate", "swapAccept"} => r.actor \in Volunteers
  /\ r.op \in {"swapAccept", "swapReject", "swapCancel"} => r.swap \in Swaps
  /\ r.op \in {"swapReject", "swapCancel"} => r.to \in {"rejected", "cancelled"}

SessionsTyped ==
  /\ session = [c \in Sessions |-> session[c]]
  /\ \A c \in Sessions : RequestTyped(session[c])

\* The volunteer who is about to accept a swap request did not make it.
AccepterIsSomebodyElse ==
  \A c \in Sessions : session[c].op = "swapAccept" =>
    /\ swap[session[c].swap] # NoRow
    /\ swap[session[c].swap].requester # session[c].actor

\* OneSeatPerSlot of every row that was not removed, whether its slot and its
\* schedule are there or not.
OneRowPerSeat ==
  \A a, b \in Assignments :
    /\ a # b /\ asg[a].slot = asg[b].slot
    /\ asg[a].status \notin {"none", "removed"} /\ asg[b].status \notin {"none", "removed"}
    => asg[a].holder # asg[b].holder

RosterInv ==
  RowsTyped /\ SessionsTyped /\ AccepterIsSomebodyElse /\ OneRowPerSeat /\ SubstituteIsSomebodyElse

-----------------------------------------------------------------------------
LEMMA InitHolds == Init => RosterInv
  <1> SUFFICES ASSUME Init PROVE RosterInv
    OBVIOUS
  <1>1. RowsTyped
    BY DEF Init, RowsTyped, AsgRow
  <1>2. SessionsTyped /\ AccepterIsSomebodyElse /\ SubstituteIsSomebodyElse
    BY DEF Init, SessionsTyped, RequestTyped, AccepterIsSomebodyElse, SubstituteIsSomebodyElse, Idle
  <1>3. OneRowPerSeat
    BY DEF Init, OneRowPerSeat, NoRow
  <1>4. QED
    BY <1>1, <1>2, <1>3 DEF RosterInv

LEMMA InvSuffices == RosterInv => SeatsCohere
  <1> SUFFICES ASSUME RosterInv PROVE TypeOK /\ OneSeatPerSlot
    BY DEF RosterInv, SeatsCohere
  <1>1. TypeOK
    BY DEF RosterInv, RowsTyped, SessionsTyped, RequestTyped, TypeOK, AsgRow, SwapRow
  <1>2. OneSeatPerSlot
    BY DEF RosterInv, OneRowPerSeat, OneSeatPerSlot, LiveAsg
  <1>3. QED
    BY <1>1, <1>2

\* A handler that opens writes no row.
LEMMA OpenHolds ==
  ASSUME RosterInv, NEW c \in Sessions, NEW r, Open(c, r), RequestTyped(r),
         r.op = "swapAccept" => swap[r.swap] # NoRow /\ swap[r.swap].requester # r.actor
  PROVE  RosterInv'
  <1> USE DEF Open, tables
  <1>1. RowsTyped' /\ OneRowPerSeat' /\ SubstituteIsSomebodyElse'
    BY DEF RosterInv, RowsTyped, OneRowPerSeat, SubstituteIsSomebodyElse
  <1>2. SessionsTyped' /\ AccepterIsSomebodyElse'
    BY DEF RosterInv, SessionsTyped, AccepterIsSomebodyElse
  <1>3. QED
    BY <1>1, <1>2 DEF RosterInv

LEMMA OpensHold ==
  ASSUME RosterInv, NEW c \in Sessions, Opens(c)
  PROVE  RosterInv'
  <1> USE DEF RequestTyped
  <1>1. ASSUME NEW sl \in Slots, OpenCreateSlot(c, sl) \/ OpenRemoveSlot(c, sl)
        PROVE  RosterInv'
    <2>1. CASE OpenCreateSlot(c, sl)
      BY <2>1, OpenHolds DEF OpenCreateSlot, Open
    <2>2. CASE OpenRemoveSlot(c, sl)
      BY <2>2, OpenHolds DEF OpenRemoveSlot, Open
    <2>3. QED
      BY <1>1, <2>1, <2>2
  <1>2. ASSUME NEW sl \in Slots, NEW v \in Volunteers, OpenCreateAssignment(c, sl, v)
        PROVE  RosterInv'
    BY <1>2, OpenHolds DEF OpenCreateAssignment, Open
  <1>3. ASSUME NEW a \in Assignments, OpenRemoveAssignment(c, a) \/ OpenCheckIn(c, a)
        PROVE  RosterInv'
    <2>1. CASE OpenRemoveAssignment(c, a)
      BY <2>1, OpenHolds DEF OpenRemoveAssignment, Open
    <2>2. CASE OpenCheckIn(c, a)
      BY <2>2, OpenHolds DEF OpenCheckIn, Open
    <2>3. QED
      BY <1>3, <2>1, <2>2
  <1>4. CASE OpenSuggest(c)
    <2>1. PICK picks \in SUBSET (Slots \X (Candidates \ Assigned)) : Open(c, [op |-> "suggest", picks |-> picks])
      BY <1>4 DEF OpenSuggest
    <2>2. picks \subseteq Slots \X Volunteers
      BY CandidatesAssumption
    <2>3. QED
      BY <2>1, <2>2, OpenHolds DEF Open
  <1>5. CASE OpenPublish(c)
    BY <1>5, OpenHolds DEF OpenPublish, Open
  <1>6. CASE OpenRemoveSchedule(c)
    BY <1>6, OpenHolds DEF OpenRemoveSchedule, Open
  <1>7. ASSUME NEW a \in Assignments, NEW v \in Volunteers, NEW to \in {"confirmed", "declined"},
               OpenRespond(c, a, v, to)
        PROVE  RosterInv'
    BY <1>7, OpenHolds DEF OpenRespond, Open
  <1>8. ASSUME NEW a \in Assignments, NEW v \in Volunteers, OpenSwapCreate(c, a, v)
        PROVE  RosterInv'
    BY <1>8, OpenHolds DEF OpenSwapCreate, Open
  <1>9. ASSUME NEW s \in Swaps, NEW v \in Volunteers, OpenSwapAccept(c, s, v)
        PROVE  RosterInv'
    <2>1. swap[s] # NoRow /\ swap[s].requester # v
      BY <1>9 DEF OpenSwapAccept, LiveSwap, NoRow
    <2>2. QED
      BY <1>9, <2>1, OpenHolds DEF OpenSwapAccept, Open
  <1>10. ASSUME NEW s \in Swaps, OpenSwapReject(c, s) \/ OpenSwapCancel(c, s)
         PROVE  RosterInv'
    <2>1. CASE OpenSwapReject(c, s)
      BY <2>1, OpenHolds DEF OpenSwapReject, Open
    <2>2. CASE OpenSwapCancel(c, s)
      BY <2>2, OpenHolds DEF OpenSwapCancel, Open
    <2>3. QED
      BY <1>10, <2>1, <2>2
  <1>11. QED
    BY <1>1, <1>2, <1>3, <1>4, <1>5, <1>6, <1>7, <1>8, <1>9, <1>10 DEF Opens

\* A handler that ends leaves the other sessions as they were.
LEMMA EndHolds ==
  ASSUME RosterInv, NEW c \in Sessions, session' = [session EXCEPT ![c] = Idle],
         \A s \in Swaps : swap[s] # NoRow => swap'[s] # NoRow /\ swap'[s].requester = swap[s].requester
  PROVE  SessionsTyped' /\ AccepterIsSomebodyElse'
  <1>1. SessionsTyped'
    BY DEF RosterInv, SessionsTyped, RequestTyped, Idle
  <1>2. AccepterIsSomebodyElse'
    BY DEF RosterInv, SessionsTyped, RequestTyped, AccepterIsSomebodyElse, Idle
  <1>3. QED
    BY <1>1, <1>2

\* Steps that touch neither assignments nor swap requests.
LEMMA OtherRowsHold ==
  ASSUME RosterInv, NEW c \in Sessions,
         \/ CommitCreateSlot(c) \/ CommitRemoveSlot(c) \/ CommitPublish(c)
         \/ CommitRemoveSchedule(c) \/ CommitCheckIn(c) \/ Rollback(c)
  PROVE  RosterInv'
  <1> USE DEF CommitCreateSlot, CommitRemoveSlot, CommitPublish, CommitRemoveSchedule, CommitCheckIn,
              Rollback, Commit
  <1>1. RequestTyped(session[c])
    BY DEF RosterInv, SessionsTyped
  <1>2. UNCHANGED <<asg, swap>> /\ session' = [session EXCEPT ![c] = Idle]
    OBVIOUS
  <1>3. RowsTyped'
    BY <1>1 DEF RosterInv, RowsTyped, RequestTyped
  <1> HIDE DEF CommitCreateSlot, CommitRemoveSlot, CommitPublish, CommitRemoveSchedule, CommitCheckIn,
              Rollback, Commit
  <1>4. SessionsTyped' /\ AccepterIsSomebodyElse'
    BY <1>2, EndHolds
  <1>5. OneRowPerSeat' /\ SubstituteIsSomebodyElse'
    BY <1>2 DEF RosterInv, OneRowPerSeat, SubstituteIsSomebodyElse
  <1>6. QED
    BY <1>3, <1>4, <1>5 DEF RosterInv

-----------------------------------------------------------------------------
(* Assignments.                                                             *)

LEMMA CreateAssignmentHolds ==
  ASSUME RosterInv, NEW c \in Sessions, CommitCreateAssignment(c)
  PROVE  RosterInv'
  <1> DEFINE sl == session[c].slot
             v  == session[c].holder
  <1>1. sl \in Slots /\ v \in Volunteers
    BY DEF RosterInv, SessionsTyped, RequestTyped, CommitCreateAssignment, Commit
  <1>2. PICK a \in Assignments : asg[a] = NoRow /\ asg' = [asg EXCEPT ![a] = NewAsg(sl, v)]
    BY DEF CommitCreateAssignment
  <1>3. /\ LiveSlot(sl) /\ \A b \in InSlot(sl) : asg[b].holder # v
        /\ UNCHANGED <<schedule, slot, checkedIn, notified, swap>>
        /\ session' = [session EXCEPT ![c] = Idle]
    BY DEF CommitCreateAssignment, Commit
  <1> HIDE DEF sl, v
  <1>4. NewAsg(sl, v) \in AsgRow
    BY <1>1 DEF NewAsg, AsgRow
  <1>5. RowsTyped'
    BY <1>2, <1>3, <1>4 DEF RosterInv, RowsTyped
  <1>6. OneRowPerSeat'
    <2>1. \A b \in Assignments : asg'[b] = IF b = a THEN NewAsg(sl, v) ELSE asg[b]
      BY <1>2 DEF RosterInv, RowsTyped
    <2>2. \A b \in Assignments : asg[b].status \notin {"none", "removed"} /\ asg[b].slot = sl
                                   => asg[b].holder # v
      BY <1>3 DEF InSlot, LiveAsg
    <2>3. QED
      BY <2>1, <2>2 DEF RosterInv, OneRowPerSeat, NewAsg
  <1>7. SubstituteIsSomebodyElse'
    BY <1>3 DEF RosterInv, SubstituteIsSomebodyElse
  <1>8. QED
    BY <1>3, <1>5, <1>6, <1>7, EndHolds DEF RosterInv

LEMMA SuggestHolds ==
  ASSUME RosterInv, NEW c \in Sessions, CommitSuggest(c)
  PROVE  RosterInv'
  <1> DEFINE picks == session[c].picks
             fresh == {p \in picks : \A a \in InSlot(p[1]) : asg[a].holder # p[2]}
  <1>1. picks \subseteq Slots \X Volunteers
    BY DEF RosterInv, SessionsTyped, RequestTyped, CommitSuggest, Commit
  <1>2. PICK ids \in SUBSET {a \in Assignments : asg[a] = NoRow} :
          \E row \in [ids -> fresh] :
            /\ \A a, b \in ids : row[a] = row[b] => a = b
            /\ asg' = [a \in Assignments |-> IF a \in ids THEN NewAsg(row[a][1], row[a][2]) ELSE asg[a]]
    BY DEF CommitSuggest
  <1>3. PICK row \in [ids -> fresh] :
          /\ \A a, b \in ids : row[a] = row[b] => a = b
          /\ asg' = [a \in Assignments |-> IF a \in ids THEN NewAsg(row[a][1], row[a][2]) ELSE asg[a]]
    BY <1>2
  <1>4. /\ \A p \in picks : LiveSlot(p[1])
        /\ UNCHANGED <<schedule, slot, checkedIn, notified, swap>>
        /\ session' = [session EXCEPT ![c] = Idle]
    BY DEF CommitSuggest, Commit
  <1>5. \A a \in ids : row[a] \in picks /\ \A b \in InSlot(row[a][1]) : asg[b].holder # row[a][2]
    BY <1>3
  <1> HIDE DEF picks, fresh
  <1>6. \A a \in ids : row[a][1] \in Slots /\ row[a][2] \in Volunteers /\ row[a] = <<row[a][1], row[a][2]>>
    BY <1>1, <1>5
  <1>7. \A a \in Assignments : asg'[a] = IF a \in ids THEN NewAsg(row[a][1], row[a][2]) ELSE asg[a]
    BY <1>3
  <1>8. RowsTyped'
    BY <1>3, <1>4, <1>6 DEF RosterInv, RowsTyped, NewAsg, AsgRow
  <1>9. OneRowPerSeat'
    <2>1. ASSUME NEW a \in ids, NEW b \in ids, a # b
          PROVE  row[a][1] # row[b][1] \/ row[a][2] # row[b][2]
      BY <1>3, <1>6, <2>1
    <2>2. ASSUME NEW a \in ids, NEW b \in Assignments, asg[b].status \notin {"none", "removed"},
                 asg[b].slot = row[a][1]
          PROVE  asg[b].holder # row[a][2]
      BY <1>4, <1>5, <2>2 DEF InSlot, LiveAsg
    <2>3. SUFFICES ASSUME NEW a \in Assignments, NEW b \in Assignments, a # b, asg'[a].slot = asg'[b].slot,
                          asg'[a].status \notin {"none", "removed"}, asg'[b].status \notin {"none", "removed"}
                   PROVE  asg'[a].holder # asg'[b].holder
      BY DEF OneRowPerSeat
    <2>4. ASSUME NEW d \in ids PROVE asg'[d].slot = row[d][1] /\ asg'[d].holder = row[d][2]
      <3>1. asg'[d] = NewAsg(row[d][1], row[d][2])
        BY <1>7
      <3>2. QED
        BY <3>1 DEF NewAsg
    <2>5. CASE a \in ids /\ b \in ids
      BY <2>1, <2>3, <2>4, <2>5
    <2>6. CASE a \in ids /\ b \notin ids
      BY <1>7, <2>2, <2>3, <2>4, <2>6
    <2>7. CASE a \notin ids /\ b \in ids
      BY <1>7, <2>2, <2>3, <2>4, <2>7
    <2>8. CASE a \notin ids /\ b \notin ids
      BY <1>7, <2>3, <2>8 DEF RosterInv, OneRowPerSeat
    <2>9. QED
      BY <2>5, <2>6, <2>7, <2>8
  <1>10. SubstituteIsSomebodyElse'
    BY <1>4 DEF RosterInv, SubstituteIsSomebodyElse
  <1>11. QED
    BY <1>4, <1>8, <1>9, <1>10, EndHolds DEF RosterInv

\* An answer or a removal changes the status of a row only.
LEMMA StatusHolds ==
  ASSUME RosterInv, NEW c \in Sessions, CommitRemoveAssignment(c) \/ CommitRespond(c)
  PROVE  RosterInv'
  <1> DEFINE a == session[c].asg
  <1>1. PICK to \in {"confirmed", "declined", "removed"} : asg' = [asg EXCEPT ![a].status = to]
    BY DEF RosterInv, SessionsTyped, RequestTyped, CommitRemoveAssignment, CommitRespond, Commit
  <1>2. /\ a \in Assignments /\ asg[a].status \notin {"none", "removed"}
        /\ UNCHANGED <<schedule, slot, checkedIn, notified, swap>>
        /\ session' = [session EXCEPT ![c] = Idle]
    BY DEF RosterInv, SessionsTyped, RequestTyped, CommitRemoveAssignment, CommitRespond, Commit, LiveAsg
  <1> HIDE DEF a
  <1>3. asg[a] \in AsgRow
    BY <1>2 DEF RosterInv, RowsTyped, NoRow
  <1>4. \A b \in Assignments : asg'[b] = IF b = a THEN [asg[a] EXCEPT !.status = to] ELSE asg[b]
    BY <1>1, <1>2 DEF RosterInv, RowsTyped
  <1>5. RowsTyped'
    BY <1>1, <1>2, <1>3 DEF RosterInv, RowsTyped, AsgRow
  <1>6. OneRowPerSeat'
    BY <1>2, <1>3, <1>4 DEF RosterInv, OneRowPerSeat, AsgRow
  <1>7. SubstituteIsSomebodyElse'
    BY <1>2 DEF RosterInv, SubstituteIsSomebodyElse
  <1>8. QED
    BY <1>2, <1>5, <1>6, <1>7, EndHolds DEF RosterInv

-----------------------------------------------------------------------------
(* Swap requests.                                                           *)

LEMMA RowsAreThere ==
  /\ \A row \in SwapRow : row # NoRow
  /\ \A row \in AsgRow : row # NoRow
  <1>1. NoRow.status = "none"
    BY DEF NoRow
  <1>2. \A row \in SwapRow : row.status # "none"
    BY DEF SwapRow
  <1>3. \A row \in AsgRow : row.status # "none"
    BY DEF AsgRow
  <1>4. QED
    BY <1>1, <1>2, <1>3

LEMMA SwapCreateHolds ==
  ASSUME RosterInv, NEW c \in Sessions, CommitSwapCreate(c)
  PROVE  RosterInv'
  <1> DEFINE row == [asg |-> session[c].asg, requester |-> session[c].actor,
                     substitute |-> {}, status |-> "pending"]
  <1>1. row \in SwapRow
    BY DEF RosterInv, SessionsTyped, RequestTyped, CommitSwapCreate, Commit, SwapRow
  <1>2. PICK s \in Swaps : swap[s] = NoRow /\ swap' = [swap EXCEPT ![s] = row]
    BY DEF CommitSwapCreate
  <1>3. /\ UNCHANGED <<schedule, slot, asg, checkedIn, notified>>
        /\ session' = [session EXCEPT ![c] = Idle]
    BY DEF CommitSwapCreate, Commit
  <1>4. row.substitute = {} /\ row.status = "pending"
    OBVIOUS
  <1> HIDE DEF row
  <1>5. \A t \in Swaps : swap'[t] = IF t = s THEN row ELSE swap[t]
    BY <1>2 DEF RosterInv, RowsTyped
  <1>6. RowsTyped'
    BY <1>1, <1>2, <1>3 DEF RosterInv, RowsTyped
  <1>7. OneRowPerSeat'
    BY <1>3 DEF RosterInv, OneRowPerSeat
  <1>8. SubstituteIsSomebodyElse'
    BY <1>4, <1>5 DEF RosterInv, SubstituteIsSomebodyElse
  <1>9. SessionsTyped' /\ AccepterIsSomebodyElse'
    BY <1>2, <1>3, <1>5, EndHolds
  <1>10. QED
    BY <1>6, <1>7, <1>8, <1>9 DEF RosterInv

LEMMA SwapStatusHolds ==
  ASSUME RosterInv, NEW c \in Sessions, NEW op \in {"swapReject", "swapCancel"}, CommitSwapStatus(c, op)
  PROVE  RosterInv'
  <1> DEFINE s  == session[c].swap
             to == session[c].to
  <1>1. /\ s \in Swaps /\ to \in {"rejected", "cancelled"} /\ swap[s].status # "none"
        /\ swap' = [swap EXCEPT ![s].status = to]
        /\ UNCHANGED <<schedule, slot, asg, checkedIn, notified>>
        /\ session' = [session EXCEPT ![c] = Idle]
    BY DEF RosterInv, SessionsTyped, RequestTyped, CommitSwapStatus, Commit, LiveSwap
  <1> HIDE DEF s, to
  <1>2. swap[s] \in SwapRow
    BY <1>1 DEF RosterInv, RowsTyped, NoRow
  <1>3. \A t \in Swaps : swap'[t] = IF t = s THEN [swap[s] EXCEPT !.status = to] ELSE swap[t]
    BY <1>1 DEF RosterInv, RowsTyped
  <1>4. swap'[s] \in SwapRow /\ swap'[s].requester = swap[s].requester
        /\ swap'[s].substitute = swap[s].substitute /\ swap'[s].status = to
    BY <1>1, <1>2, <1>3 DEF SwapRow
  <1>5. RowsTyped'
    BY <1>1, <1>3, <1>4 DEF RosterInv, RowsTyped
  <1>6. OneRowPerSeat'
    BY <1>1 DEF RosterInv, OneRowPerSeat
  <1>7. SubstituteIsSomebodyElse'
    BY <1>1, <1>2, <1>3, <1>4 DEF RosterInv, SubstituteIsSomebodyElse, SwapRow, NoRow
  <1>8. SessionsTyped' /\ AccepterIsSomebodyElse'
    <2>1. \A t \in Swaps : swap[t] # NoRow => swap'[t] # NoRow /\ swap'[t].requester = swap[t].requester
      BY <1>3, <1>4, RowsAreThere
    <2>2. QED
      BY <1>1, <2>1, EndHolds
  <1>9. QED
    BY <1>5, <1>6, <1>7, <1>8 DEF RosterInv

\* What acceptance writes.
LEMMA AcceptWrites ==
  ASSUME RosterInv, NEW c \in Sessions, CommitSwapAccept(c)
  PROVE  LET s == session[c].swap
             v == session[c].actor
             a == swap[s].asg
         IN  /\ s \in Swaps /\ v \in Volunteers /\ a \in Assignments
             /\ swap[s] \in SwapRow /\ asg[a] \in AsgRow /\ v # swap[s].requester
             /\ \A b \in Assignments :
                  asg'[b] = IF b = a THEN [asg[a] EXCEPT !.holder = v] ELSE asg[b]
             /\ \A t \in Swaps :
                  swap'[t] = IF t = s THEN [swap[s] EXCEPT !.status = "accepted", !.substitute = {v}]
                             ELSE swap[t]
             /\ \A b \in Assignments \ {a} :
                  asg[b].status \notin {"none", "removed"} /\ asg[b].slot = asg[a].slot => asg[b].holder # v
             /\ asg[a].status \notin {"none", "removed"}
  <1> DEFINE s == session[c].swap
             v == session[c].actor
             a == swap[s].asg
  <1>1. s \in Swaps /\ v \in Volunteers /\ swap[s] # NoRow /\ v # swap[s].requester
    BY DEF RosterInv, SessionsTyped, RequestTyped, AccepterIsSomebodyElse, CommitSwapAccept, Commit
  <1>2. swap[s] \in SwapRow /\ a \in Assignments
    BY <1>1 DEF RosterInv, RowsTyped, SwapRow
  <1>3. LiveAsg(a) /\ asg[a] \in AsgRow
    <2>1. LiveAsg(a)
      BY DEF CommitSwapAccept, LiveSwap
    <2>2. asg[a] # NoRow
      BY <2>1 DEF LiveAsg, NoRow
    <2>3. QED
      BY <1>2, <2>1, <2>2 DEF RosterInv, RowsTyped
  <1>4. asg' = [asg EXCEPT ![a].holder = v]
        /\ swap' = [swap EXCEPT ![s].status = "accepted", ![s].substitute = {v}]
        /\ \A b \in InSlot(asg[a].slot) \ {a} : asg[b].holder # v
    BY DEF CommitSwapAccept
  <1> HIDE DEF s, v, a
  <1>5. \A b \in Assignments : asg'[b] = IF b = a THEN [asg[a] EXCEPT !.holder = v] ELSE asg[b]
    BY <1>2, <1>4 DEF RosterInv, RowsTyped
  <1>6. \A t \in Swaps : swap'[t] = IF t = s THEN [swap[s] EXCEPT !.status = "accepted", !.substitute = {v}]
                                    ELSE swap[t]
    BY <1>1, <1>4 DEF RosterInv, RowsTyped
  <1>7. \A b \in Assignments \ {a} :
          asg[b].status \notin {"none", "removed"} /\ asg[b].slot = asg[a].slot => asg[b].holder # v
    BY <1>3, <1>4 DEF InSlot, LiveAsg
  <1>8. asg[a].status \notin {"none", "removed"}
    BY <1>3 DEF LiveAsg
  <1> USE DEF s, v, a
  <1>9. QED
    BY <1>1, <1>2, <1>3, <1>5, <1>6, <1>7, <1>8

LEMMA SwapAcceptHolds ==
  ASSUME RosterInv, NEW c \in Sessions, CommitSwapAccept(c)
  PROVE  RosterInv'
  <1> DEFINE s == session[c].swap
             v == session[c].actor
             a == swap[s].asg
  <1>1. /\ s \in Swaps /\ v \in Volunteers /\ a \in Assignments
        /\ swap[s] \in SwapRow /\ asg[a] \in AsgRow /\ v # swap[s].requester
        /\ \A b \in Assignments :
             asg'[b] = IF b = a THEN [asg[a] EXCEPT !.holder = v] ELSE asg[b]
        /\ \A t \in Swaps :
             swap'[t] = IF t = s THEN [swap[s] EXCEPT !.status = "accepted", !.substitute = {v}]
                        ELSE swap[t]
        /\ \A b \in Assignments \ {a} :
             asg[b].status \notin {"none", "removed"} /\ asg[b].slot = asg[a].slot => asg[b].holder # v
        /\ asg[a].status \notin {"none", "removed"}
    BY AcceptWrites
  <1>2. /\ asg' = [asg EXCEPT ![a].holder = v]
        /\ swap' = [swap EXCEPT ![s].status = "accepted", ![s].substitute = {v}]
        /\ UNCHANGED <<schedule, slot, checkedIn, notified>>
        /\ session' = [session EXCEPT ![c] = Idle]
    BY DEF CommitSwapAccept, Commit
  <1> HIDE DEF s, v, a
  <1>3. asg'[a] \in AsgRow /\ asg'[a].slot = asg[a].slot /\ asg'[a].holder = v
        /\ asg'[a].status = asg[a].status
    BY <1>1 DEF AsgRow
  <1>4. swap'[s] \in SwapRow /\ swap'[s].requester = swap[s].requester
        /\ swap'[s].substitute = {v} /\ swap'[s].status = "accepted"
    <2>1. [swap[s] EXCEPT !.status = "accepted"] \in SwapRow
      BY <1>1 DEF SwapRow
    <2>2. ASSUME NEW row \in SwapRow PROVE [row EXCEPT !.substitute = {v}] \in SwapRow
      BY <1>1 DEF SwapRow
    <2>3. swap'[s] = [[swap[s] EXCEPT !.status = "accepted"] EXCEPT !.substitute = {v}]
      BY <1>1
    <2>4. swap'[s] \in SwapRow
      BY <2>1, <2>2, <2>3
    <2>5. QED
      BY <1>1, <2>3, <2>4 DEF SwapRow
  <1>5. RowsTyped'
    <2>1. asg' \in [Assignments -> {NoRow} \cup AsgRow]
      BY <1>1, <1>2, <1>3 DEF RosterInv, RowsTyped
    <2>2. swap' \in [Swaps -> {NoRow} \cup SwapRow]
      BY <1>1, <1>2, <1>4 DEF RosterInv, RowsTyped
    <2>3. QED
      BY <1>2, <2>1, <2>2 DEF RosterInv, RowsTyped
  <1>6. OneRowPerSeat'
    BY <1>1, <1>3 DEF RosterInv, OneRowPerSeat
  <1>7. SubstituteIsSomebodyElse'
    BY <1>1, <1>4 DEF RosterInv, SubstituteIsSomebodyElse
  <1>8. SessionsTyped' /\ AccepterIsSomebodyElse'
    <2>1. \A t \in Swaps : swap[t] # NoRow => swap'[t] # NoRow /\ swap'[t].requester = swap[t].requester
      BY <1>1, <1>4, RowsAreThere
    <2>2. QED
      BY <1>2, <2>1, EndHolds
  <1>9. QED
    BY <1>5, <1>6, <1>7, <1>8 DEF RosterInv

-----------------------------------------------------------------------------
LEMMA NextHolds ==
  ASSUME RosterInv, [Next]_vars
  PROVE  RosterInv'
  <1>1. CASE UNCHANGED vars
    BY <1>1 DEF vars, RosterInv, RowsTyped, SessionsTyped, RequestTyped, AccepterIsSomebodyElse,
                OneRowPerSeat, SubstituteIsSomebodyElse
  <1>2. ASSUME NEW c \in Sessions, Commits(c) PROVE RosterInv'
    BY <1>2, OtherRowsHold, CreateAssignmentHolds, SuggestHolds, StatusHolds, SwapCreateHolds,
       SwapStatusHolds, SwapAcceptHolds DEF Commits
  <1>3. QED
    BY <1>1, <1>2, OpensHold, OtherRowsHold DEF Next

\* A volunteer has one assignment per slot, and a recorded substitute is not
\* the requester, however the requests of any number of sessions interleave.
THEOREM SeatsStayCoherent == Spec => []SeatsCohere
  <1>1. Init => RosterInv
    BY InitHolds
  <1>2. RosterInv /\ [Next]_vars => RosterInv'
    BY NextHolds
  <1>3. RosterInv => SeatsCohere
    BY InvSuffices
  <1>4. QED
    BY <1>1, <1>2, <1>3, PTL DEF Spec

-----------------------------------------------------------------------------
(* Action properties.                                                       *)

\* An assignment keeps its holder in every step but an acceptance.
LEMMA HoldersStay ==
  ASSUME RosterInv, [Next]_vars, \A c \in Sessions : ~CommitSwapAccept(c),
         NEW a \in Assignments, asg[a] # NoRow
  PROVE  asg'[a].holder = asg[a].holder
  <1>1. CASE UNCHANGED asg
    BY <1>1
  <1>2. ASSUME NEW c \in Sessions, CommitCreateAssignment(c) PROVE asg'[a].holder = asg[a].holder
    <2>1. PICK b \in Assignments :
            asg[b] = NoRow /\ asg' = [asg EXCEPT ![b] = NewAsg(session[c].slot, session[c].holder)]
      BY <1>2 DEF CommitCreateAssignment
    <2>2. QED
      BY <2>1 DEF RosterInv, RowsTyped
  <1>3. ASSUME NEW c \in Sessions, CommitSuggest(c) PROVE asg'[a].holder = asg[a].holder
    BY <1>3 DEF CommitSuggest
  <1>4. ASSUME NEW c \in Sessions, CommitRemoveAssignment(c) \/ CommitRespond(c)
        PROVE  asg'[a].holder = asg[a].holder
    <2>1. PICK b, to : asg' = [asg EXCEPT ![b].status = to]
      BY <1>4 DEF CommitRemoveAssignment, CommitRespond
    <2>2. asg[a] \in AsgRow
      BY DEF RosterInv, RowsTyped
    <2>3. asg'[a] = asg[a] \/ asg'[a] = [asg[a] EXCEPT !.status = to]
      BY <2>1 DEF RosterInv, RowsTyped
    <2>4. QED
      BY <2>2, <2>3 DEF AsgRow
  <1>5. ASSUME NEW c \in Sessions, Opens(c) PROVE UNCHANGED asg
    BY <1>5 DEF Opens, Open, tables, OpenCreateSlot, OpenRemoveSlot, OpenCreateAssignment, OpenRemoveAssignment,
         OpenCheckIn, OpenSuggest, OpenPublish, OpenRemoveSchedule, OpenRespond, OpenSwapCreate, OpenSwapAccept,
         OpenSwapReject, OpenSwapCancel
  <1>6. QED
    BY <1>1, <1>2, <1>3, <1>4, <1>5
    DEF Next, vars, Commits, Rollback, CommitCreateSlot, CommitRemoveSlot, CommitPublish, CommitRemoveSchedule,
        CommitCheckIn, CommitSwapCreate, CommitSwapStatus

\* An assignment changes hands only to the volunteer whom a swap request of it
\* names as its substitute, whatever accepts, cancels and removals race.
THEOREM HandoversAreRecorded == Spec => HandoverIsRecorded
  <1>1. Init => RosterInv
    BY InitHolds
  <1>2. RosterInv /\ [Next]_vars => RosterInv'
    BY NextHolds
  <1>3. ASSUME RosterInv, [Next]_vars, NEW a \in Assignments, LiveAsg(a), asg'[a].holder # asg[a].holder
        PROVE  \E s \in Swaps : swap'[s] # NoRow /\ swap'[s].asg = a
                                /\ swap'[s].substitute = {asg'[a].holder}
    <2>1. asg[a] # NoRow
      BY <1>3 DEF LiveAsg, NoRow
    <2>2. PICK c \in Sessions : CommitSwapAccept(c)
      BY <1>3, <2>1, HoldersStay
    <2> DEFINE s == session[c].swap
               v == session[c].actor
    <2>3. /\ s \in Swaps /\ swap[s] \in SwapRow /\ swap[s].asg \in Assignments /\ asg[swap[s].asg] \in AsgRow
          /\ \A b \in Assignments :
               asg'[b] = IF b = swap[s].asg THEN [asg[swap[s].asg] EXCEPT !.holder = v] ELSE asg[b]
          /\ swap'[s] = [swap[s] EXCEPT !.status = "accepted", !.substitute = {v}]
      BY <1>3, <2>2, AcceptWrites
    <2> HIDE DEF s, v
    <2>4. a = swap[s].asg /\ asg'[a].holder = v
      BY <1>3, <2>3 DEF AsgRow
    <2>5. swap'[s].asg = a /\ swap'[s].substitute = {v} /\ swap'[s].status = "accepted"
      BY <2>3, <2>4 DEF SwapRow
    <2>6. swap'[s] # NoRow
      BY <2>5 DEF NoRow
    <2>7. QED
      BY <2>3, <2>4, <2>5, <2>6
  <1>4. RosterInv /\ [Next]_vars =>
          [\A a \in Assignments :
             (LiveAsg(a) /\ LiveAsg(a)' /\ asg'[a].holder # asg[a].holder) =>
               \E s \in Swaps : swap'[s] # NoRow /\ swap'[s].asg = a
                                /\ swap'[s].substitute = {asg'[a].holder}]_vars
    BY <1>3
  <1>5. QED
    BY <1>1, <1>2, <1>4, PTL DEF Spec, HandoverIsRecorded

\* A swap request that is resolved and was last seen pending by requests that
\* are over keeps its row, and nobody sees it pending again.
THEOREM ResolvedRequestsStay == Spec => ResolvedStaysResolved
  <1>1. Init => RosterInv
    BY InitHolds
  <1>2. RosterInv /\ [Next]_vars => RosterInv'
    BY NextHolds
  <1>3. ASSUME RosterInv, [Next]_vars, NEW s \in Swaps, Resolved(s)
        PROVE  swap'[s] = swap[s] /\ (LiveSwap(s)' => Resolved(s)')
    <2>1. swap[s] # NoRow
      BY <1>3 DEF Resolved, LiveSwap, NoRow
    <2>2. swap'[s] = swap[s]
      <3>1. CASE UNCHANGED swap
        BY <3>1
      <3>2. ASSUME NEW c \in Sessions, CommitSwapCreate(c) PROVE swap'[s] = swap[s]
        BY <2>1, <3>2 DEF CommitSwapCreate, RosterInv, RowsTyped
      <3>3. ASSUME NEW c \in Sessions, CommitSwapAccept(c) PROVE swap'[s] = swap[s]
        BY <1>3, <3>3 DEF CommitSwapAccept, Commit, Resolved, RosterInv, RowsTyped
      <3>4. ASSUME NEW c \in Sessions, NEW op \in {"swapReject", "swapCancel"}, CommitSwapStatus(c, op)
            PROVE  swap'[s] = swap[s]
        BY <1>3, <3>4 DEF CommitSwapStatus, Commit, Resolved, RosterInv, RowsTyped
      <3>5. ASSUME NEW c \in Sessions, Opens(c) PROVE UNCHANGED swap
        BY <3>5 DEF Opens, Open, tables, OpenCreateSlot, OpenRemoveSlot, OpenCreateAssignment,
             OpenRemoveAssignment, OpenCheckIn, OpenSuggest, OpenPublish, OpenRemoveSchedule, OpenRespond,
             OpenSwapCreate, OpenSwapAccept, OpenSwapReject, OpenSwapCancel
      <3>6. QED
        BY <1>3, <3>1, <3>2, <3>3, <3>4, <3>5
        DEF Next, vars, Commits, Rollback, CommitCreateSlot, CommitRemoveSlot, CommitCreateAssignment,
            CommitRemoveAssignment, CommitSuggest, CommitPublish, CommitRemoveSchedule, CommitRespond, CommitCheckIn
    <2>3. ASSUME NEW d \in Sessions, session'[d].op \in {"swapAccept", "swapReject", "swapCancel"}
          PROVE  session'[d].swap # s
      <3>1. CASE session'[d] = session[d]
        BY <1>3, <2>3, <3>1 DEF Resolved
      <3>2. ASSUME NEW c \in Sessions, session' = [session EXCEPT ![c] = Idle] PROVE session'[d].swap # s
        BY <1>3, <2>3, <3>1, <3>2 DEF Idle, RosterInv, SessionsTyped
      <3>3. ASSUME NEW c \in Sessions, NEW r, Open(c, r),
                   r.op \in {"swapAccept", "swapReject", "swapCancel"} => swap[r.swap].status = "pending"
            PROVE  session'[d].swap # s
        <4>1. session'[d] = session[d] \/ session'[d] = r
          BY <3>3 DEF Open, RosterInv, SessionsTyped
        <4>2. swap[s].status # "pending"
          BY <1>3 DEF Resolved
        <4>3. QED
          BY <2>3, <3>1, <3>3, <4>1, <4>2
      <3>4. ASSUME NEW c \in Sessions, Opens(c) PROVE session'[d].swap # s
        <4>1. CASE \/ \E t \in Swaps, v \in Volunteers : OpenSwapAccept(c, t, v)
                   \/ \E t \in Swaps : OpenSwapReject(c, t) \/ OpenSwapCancel(c, t)
          BY <3>3, <4>1 DEF OpenSwapAccept, OpenSwapReject, OpenSwapCancel
        <4>2. CASE \/ \E sl \in Slots : OpenCreateSlot(c, sl) \/ OpenRemoveSlot(c, sl)
                   \/ \E sl \in Slots, v \in Volunteers : OpenCreateAssignment(c, sl, v)
                   \/ \E a \in Assignments : OpenRemoveAssignment(c, a) \/ OpenCheckIn(c, a)
          BY <3>3, <4>2 DEF OpenCreateSlot, OpenRemoveSlot, OpenCreateAssignment, OpenRemoveAssignment, OpenCheckIn
        <4>3. CASE OpenSuggest(c) \/ OpenPublish(c) \/ OpenRemoveSchedule(c)
          BY <3>3, <4>3 DEF OpenSuggest, OpenPublish, OpenRemoveSchedule
        <4>4. CASE \/ \E a \in Assignments, v \in Volunteers, to \in {"confirmed", "declined"} :
                        OpenRespond(c, a, v, to)
                   \/ \E a \in Assignments, v \in Volunteers : OpenSwapCreate(c, a, v)
          BY <3>3, <4>4 DEF OpenRespond, OpenSwapCreate
        <4>5. QED
          BY <3>4, <4>1, <4>2, <4>3, <4>4 DEF Opens
      <3>5. ASSUME NEW c \in Sessions, Commits(c) \/ Rollback(c)
            PROVE  session' = [session EXCEPT ![c] = Idle]
        BY <3>5 DEF Commits, Commit, Rollback, CommitCreateSlot, CommitRemoveSlot, CommitCreateAssignment,
            CommitRemoveAssignment, CommitSuggest, CommitPublish, CommitRemoveSchedule, CommitRespond,
            CommitCheckIn, CommitSwapCreate, CommitSwapAccept, CommitSwapStatus
      <3>6. QED
        BY <1>3, <3>1, <3>2, <3>3, <3>4, <3>5 DEF Next, vars
    <2>4. QED
      BY <1>3, <2>2, <2>3 DEF Resolved
  <1>4. RosterInv /\ [Next]_vars =>
          [\A s \in Swaps : Resolved(s) => swap'[s] = swap[s] /\ (LiveSwap(s)' => Resolved(s)')]_vars
    BY <1>3
  <1>5. QED
    BY <1>1, <1>2, <1>4, PTL DEF Spec, ResolvedStaysResolved

-----------------------------------------------------------------------------
(* Sequential requests: with one session at most, what a handler has read   *)
(* still holds when it writes, and the rows stay coherent.                  *)

Sequential == \A c, d \in Sessions : c = d

\* What an open request has checked of the rows.
StillHolds(r) ==
  /\ r.op \in {"createSlot", "removeSlot", "createAssignment", "removeAssignment", "suggest", "publish",
               "removeSchedule"} => schedule = "draft"
  /\ r.op = "suggest" =>
       /\ \A p, q \in r.picks : p[2] = q[2] => p = q
       /\ \A p \in r.picks : p[2] \notin Assigned
  /\ r.op = "publish" => r.told = {a \in Assignments : LiveAsg(a) /\ asg[a].status = "pending"}
  /\ r.op = "respond" => asg[r.asg].status = "pending" /\ asg[r.asg].holder = r.actor
  /\ r.op \in {"checkIn", "swapCreate"} => asg[r.asg].status = "confirmed"
  /\ r.op = "swapCreate" => asg[r.asg].holder = r.actor /\ PendingSwaps(r.asg) = {}
  /\ r.op \in {"swapAccept", "swapReject", "swapCancel"} => swap[r.swap].status = "pending"

ChecksStillHold == \A c \in Sessions : StillHolds(session[c])

\* A row that is not live never becomes live: its parents were there before it.
RowsHaveParents ==
  /\ \A a \in Assignments : asg[a] # NoRow => slot[asg[a].slot] # "absent"
  /\ \A s \in Swaps : swap[s] # NoRow => asg[swap[s].asg] # NoRow
  /\ \A a \in checkedIn : asg[a] # NoRow

\* OnePendingSwap without counting.
PendingOnce == \A a \in Assignments : \A s, t \in PendingSwaps(a) : s = t

SwapsCohere == PendingOnce /\ PendingSwapIsHolders /\ AcceptedSwapTells

RowsCohere == RowsHaveParents /\ SwapsCohere /\ PublishedMeansNotified /\ CheckedInIsConfirmed

SequentialInv == RosterInv /\ ChecksStillHold /\ RowsCohere

LEMMA SequentialInit == Init => SequentialInv
  <1> SUFFICES ASSUME Init PROVE SequentialInv
    OBVIOUS
  <1>1. RosterInv
    BY InitHolds
  <1>2. ChecksStillHold
    BY DEF Init, ChecksStillHold, StillHolds, Idle
  <1>3. \A s \in Swaps : swap[s].status = "none" /\ ~LiveSwap(s)
    BY DEF Init, LiveSwap, NoRow
  <1>4. SwapsCohere
    BY <1>3 DEF SwapsCohere, PendingOnce, PendingSwaps, PendingSwapIsHolders, AcceptedSwapTells
  <1>5. RowsHaveParents
    BY DEF Init, RowsHaveParents, NoRow
  <1>6. PublishedMeansNotified /\ CheckedInIsConfirmed
    BY DEF Init, PublishedMeansNotified, CheckedInIsConfirmed
  <1>7. QED
    BY <1>1, <1>2, <1>4, <1>5, <1>6 DEF SequentialInv, RowsCohere

\* A handler that opens is the only one, and has just read what it checks.
LEMMA OpenCoheres ==
  ASSUME Sequential, SequentialInv, NEW c \in Sessions, NEW r, Open(c, r), StillHolds(r)
  PROVE  (ChecksStillHold /\ RowsCohere)'
  <1> USE DEF Open, tables
  <1>1. RowsCohere'
    BY DEF SequentialInv, RowsCohere, RowsHaveParents, SwapsCohere, PendingOnce, PendingSwaps,
           PendingSwapIsHolders, AcceptedSwapTells, PublishedMeansNotified, CheckedInIsConfirmed,
           LiveSwap, LiveAsg, LiveSlot
  <1>2. \A d \in Sessions : session'[d] = r
    BY DEF Sequential, SequentialInv, RosterInv, SessionsTyped
  <1>3. StillHolds(r)'
    BY DEF StillHolds, Assigned, PendingSwaps, LiveSwap, LiveAsg, LiveSlot
  <1>4. QED
    BY <1>1, <1>2, <1>3 DEF ChecksStillHold

\* When a handler ends no request is open.
LEMMA EndCoheres ==
  ASSUME Sequential, SequentialInv, NEW c \in Sessions, session' = [session EXCEPT ![c] = Idle]
  PROVE  ChecksStillHold'
  <1>1. \A d \in Sessions : session'[d] = Idle
    BY DEF Sequential, SequentialInv, RosterInv, SessionsTyped
  <1>2. StillHolds(Idle)'
    BY DEF StillHolds, Idle
  <1>3. QED
    BY <1>1, <1>2 DEF ChecksStillHold

LEMMA OpensCohere ==
  ASSUME Sequential, SequentialInv, NEW c \in Sessions, Opens(c)
  PROVE  (ChecksStillHold /\ RowsCohere)'
  <1> USE DEF StillHolds, RequireDraft
  <1>1. ASSUME NEW sl \in Slots, OpenCreateSlot(c, sl) \/ OpenRemoveSlot(c, sl)
        PROVE  (ChecksStillHold /\ RowsCohere)'
    <2>1. CASE OpenCreateSlot(c, sl)
      BY <2>1, OpenCoheres DEF OpenCreateSlot
    <2>2. CASE OpenRemoveSlot(c, sl)
      BY <2>2, OpenCoheres DEF OpenRemoveSlot
    <2>3. QED
      BY <1>1, <2>1, <2>2
  <1>2. ASSUME NEW sl \in Slots, NEW v \in Volunteers, OpenCreateAssignment(c, sl, v)
        PROVE  (ChecksStillHold /\ RowsCohere)'
    BY <1>2, OpenCoheres DEF OpenCreateAssignment
  <1>3. ASSUME NEW a \in Assignments, OpenRemoveAssignment(c, a) \/ OpenCheckIn(c, a)
        PROVE  (ChecksStillHold /\ RowsCohere)'
    <2>1. CASE OpenRemoveAssignment(c, a)
      BY <2>1, OpenCoheres DEF OpenRemoveAssignment
    <2>2. CASE OpenCheckIn(c, a)
      BY <2>2, OpenCoheres DEF OpenCheckIn
    <2>3. QED
      BY <1>3, <2>1, <2>2
  <1>4. CASE OpenSuggest(c)
    <2>1. PICK picks \in SUBSET (Slots \X (Candidates \ Assigned)) :
            IsGreedy(picks, Candidates \ Assigned) /\ Open(c, [op |-> "suggest", picks |-> picks])
      BY <1>4 DEF OpenSuggest
    <2>2. \A p, q \in picks : p[2] = q[2] => p = q
      BY <2>1 DEF IsGreedy
    <2>3. \A p \in picks : p[2] \notin Assigned
      BY <2>1
    <2>4. schedule = "draft"
      BY <1>4 DEF OpenSuggest
    <2>5. QED
      BY <2>1, <2>2, <2>3, <2>4, OpenCoheres
  <1>5. CASE OpenPublish(c)
    BY <1>5, OpenCoheres DEF OpenPublish
  <1>6. CASE OpenRemoveSchedule(c)
    BY <1>6, OpenCoheres DEF OpenRemoveSchedule
  <1>7. ASSUME NEW a \in Assignments, NEW v \in Volunteers, NEW to \in {"confirmed", "declined"},
               OpenRespond(c, a, v, to)
        PROVE  (ChecksStillHold /\ RowsCohere)'
    BY <1>7, OpenCoheres DEF OpenRespond
  <1>8. ASSUME NEW a \in Assignments, NEW v \in Volunteers, OpenSwapCreate(c, a, v)
        PROVE  (ChecksStillHold /\ RowsCohere)'
    BY <1>8, OpenCoheres DEF OpenSwapCreate
  <1>9. ASSUME NEW s \in Swaps, NEW v \in Volunteers, OpenSwapAccept(c, s, v)
        PROVE  (ChecksStillHold /\ RowsCohere)'
    BY <1>9, OpenCoheres DEF OpenSwapAccept
  <1>10. ASSUME NEW s \in Swaps, OpenSwapReject(c, s) \/ OpenSwapCancel(c, s)
         PROVE  (ChecksStillHold /\ RowsCohere)'
    <2>1. CASE OpenSwapReject(c, s)
      BY <2>1, OpenCoheres DEF OpenSwapReject
    <2>2. CASE OpenSwapCancel(c, s)
      BY <2>2, OpenCoheres DEF OpenSwapCancel
    <2>3. QED
      BY <1>10, <2>1, <2>2
  <1>11. QED
    BY <1>1, <1>2, <1>3, <1>4, <1>5, <1>6, <1>7, <1>8, <1>9, <1>10 DEF Opens

\* Swap requests cohere through a step that writes none of them, keeps the
\* holders, brings no row back and leaves confirmed assignments confirmed.
LEMMA SwapsStayCoherent ==
  ASSUME RosterInv, RowsHaveParents, SwapsCohere, UNCHANGED swap,
         \A a \in Assignments : asg[a] # NoRow =>
           /\ asg'[a].holder = asg[a].holder
           /\ LiveAsg(a)' => LiveAsg(a)
           /\ LiveAsg(a)' /\ asg[a].status = "confirmed" => asg'[a].status = "confirmed"
  PROVE  SwapsCohere'
  <1>1. \A s \in Swaps : swap[s].status # "none" =>
          swap[s].asg \in Assignments /\ asg[swap[s].asg] # NoRow
    BY DEF RosterInv, RowsTyped, RowsHaveParents, SwapRow, NoRow
  <1>2. \A s \in Swaps : LiveSwap(s)' => LiveSwap(s)
    BY <1>1 DEF LiveSwap
  <1>3. PendingOnce'
    BY <1>2 DEF SwapsCohere, PendingOnce, PendingSwaps
  <1>4. PendingSwapIsHolders'
    BY <1>1, <1>2 DEF SwapsCohere, PendingSwapIsHolders, LiveSwap
  <1>5. AcceptedSwapTells'
    BY <1>1, <1>2 DEF SwapsCohere, AcceptedSwapTells, LiveSwap
  <1>6. QED
    BY <1>3, <1>4, <1>5 DEF SwapsCohere

LEMMA OtherRowsCohere ==
  ASSUME SequentialInv, NEW c \in Sessions,
         \/ CommitCreateSlot(c) \/ CommitRemoveSlot(c) \/ CommitPublish(c)
         \/ CommitRemoveSchedule(c) \/ CommitCheckIn(c) \/ Rollback(c)
  PROVE  RowsCohere'
  <1> USE DEF CommitCreateSlot, CommitRemoveSlot, CommitPublish, CommitRemoveSchedule, CommitCheckIn,
              Rollback, Commit
  <1>1. RequestTyped(session[c]) /\ StillHolds(session[c])
    BY DEF SequentialInv, RosterInv, SessionsTyped, ChecksStillHold
  <1>2. UNCHANGED <<asg, swap>> /\ notified \subseteq notified'
    OBVIOUS
  <1>3. schedule' = schedule \/ schedule' = "deleted" \/ (schedule # "deleted" /\ schedule' = "published")
    OBVIOUS
  <1>4. \A sl \in Slots : slot'[sl] = slot[sl] \/ slot'[sl] = "removed"
                          \/ (slot[sl] = "absent" /\ slot'[sl] = "live")
    BY <1>1 DEF SequentialInv, RosterInv, RowsTyped, RequestTyped
  <1>5. schedule' = "published" =>
          schedule = "published" \/ (session[c].op = "publish" /\ session[c].told \subseteq notified')
    OBVIOUS
  <1>6. \A a \in checkedIn' : a \in checkedIn
                            \/ (session[c].op = "checkIn" /\ a = session[c].asg /\ LiveAsg(a))
    OBVIOUS
  <1> HIDE DEF CommitCreateSlot, CommitRemoveSlot, CommitPublish, CommitRemoveSchedule, CommitCheckIn,
              Rollback, Commit
  <1>7. \A a \in Assignments : asg[a] # NoRow => asg[a].slot \in Slots
    BY DEF SequentialInv, RosterInv, RowsTyped, AsgRow
  <1>8. \A a \in Assignments : LiveAsg(a)' => LiveAsg(a) /\ asg[a] # NoRow
    BY <1>2, <1>3, <1>4, <1>7
    DEF SequentialInv, RowsCohere, RowsHaveParents, LiveAsg, LiveSlot, NoRow
  <1>9. SwapsCohere'
    BY <1>2, <1>8, SwapsStayCoherent DEF SequentialInv, RowsCohere
  <1>10. RowsHaveParents'
    BY <1>1, <1>2, <1>4, <1>6, <1>7
    DEF SequentialInv, RowsCohere, RowsHaveParents, RequestTyped, LiveAsg, NoRow
  <1>11. PublishedMeansNotified'
    BY <1>1, <1>2, <1>5, <1>8 DEF SequentialInv, RowsCohere, PublishedMeansNotified, StillHolds
  <1>12. CheckedInIsConfirmed'
    <2>1. SUFFICES ASSUME NEW a \in checkedIn', LiveAsg(a)' PROVE asg'[a].status = "confirmed"
      BY DEF CheckedInIsConfirmed
    <2>2. CASE a \in checkedIn
      BY <1>2, <1>8, <2>1, <2>2 DEF SequentialInv, RosterInv, RowsTyped, RowsCohere, CheckedInIsConfirmed
    <2>3. CASE session[c].op = "checkIn" /\ a = session[c].asg
      BY <1>1, <1>2, <2>3 DEF StillHolds
    <2>4. QED
      BY <1>6, <2>2, <2>3
  <1>13. QED
    BY <1>9, <1>10, <1>11, <1>12 DEF RowsCohere

\* New assignments are made in draft.
LEMMA NewRowsCohere ==
  ASSUME SequentialInv, NEW ids \in SUBSET Assignments, schedule = "draft",
         UNCHANGED <<schedule, slot, checkedIn, notified, swap>>,
         \A a \in ids : asg[a] = NoRow /\ asg'[a] # NoRow /\ slot[asg'[a].slot] = "live",
         \A a \in Assignments \ ids : asg'[a] = asg[a]
  PROVE  RowsCohere'
  <1>1. \A a \in Assignments : asg[a] # NoRow => asg'[a] = asg[a]
    OBVIOUS
  <1>2. SwapsCohere'
    BY <1>1, SwapsStayCoherent DEF SequentialInv, RowsCohere, LiveAsg, LiveSlot
  <1>3. \A s \in Swaps : swap[s] # NoRow => swap[s].asg \in Assignments
    BY DEF SequentialInv, RosterInv, RowsTyped, SwapRow
  <1>4. checkedIn \subseteq Assignments
    BY DEF SequentialInv, RosterInv, RowsTyped
  <1>5. RowsHaveParents'
    BY <1>1, <1>3, <1>4 DEF SequentialInv, RowsCohere, RowsHaveParents
  <1>6. CheckedInIsConfirmed'
    BY <1>1, <1>4 DEF SequentialInv, RowsCohere, RowsHaveParents, CheckedInIsConfirmed, LiveAsg, LiveSlot
  <1>7. PublishedMeansNotified'
    BY DEF PublishedMeansNotified
  <1>8. QED
    BY <1>2, <1>5, <1>6, <1>7 DEF RowsCohere

LEMMA CreateAssignmentCoheres ==
  ASSUME SequentialInv, NEW c \in Sessions, CommitCreateAssignment(c)
  PROVE  RowsCohere'
  <1>1. PICK a \in Assignments :
          asg[a] = NoRow /\ asg' = [asg EXCEPT ![a] = NewAsg(session[c].slot, session[c].holder)]
    BY DEF CommitCreateAssignment
  <1>2. LiveSlot(session[c].slot) /\ schedule = "draft"
        /\ UNCHANGED <<schedule, slot, checkedIn, notified, swap>>
    BY DEF CommitCreateAssignment, Commit, SequentialInv, ChecksStillHold, StillHolds
  <1>3. \A b \in Assignments \ {a} : asg'[b] = asg[b]
    BY <1>1 DEF SequentialInv, RosterInv, RowsTyped
  <1>4. asg'[a] = NewAsg(session[c].slot, session[c].holder)
    BY <1>1 DEF SequentialInv, RosterInv, RowsTyped
  <1>5. asg'[a] # NoRow /\ asg'[a].slot = session[c].slot
    <2>1. asg'[a].status = "pending" /\ asg'[a].slot = session[c].slot
      BY <1>4 DEF NewAsg
    <2>2. QED
      BY <2>1 DEF NoRow
  <1>6. {a} \in SUBSET Assignments
        /\ \A b \in {a} : asg[b] = NoRow /\ asg'[b] # NoRow /\ slot[asg'[b].slot] = "live"
    BY <1>1, <1>2, <1>5 DEF LiveSlot
  <1>7. QED
    BY <1>2, <1>3, <1>6, NewRowsCohere

LEMMA SuggestCoheres ==
  ASSUME SequentialInv, NEW c \in Sessions, CommitSuggest(c)
  PROVE  RowsCohere'
  <1> DEFINE fresh == {p \in session[c].picks : \A a \in InSlot(p[1]) : asg[a].holder # p[2]}
  <1>1. PICK ids \in SUBSET {a \in Assignments : asg[a] = NoRow} :
          \E row \in [ids -> fresh] :
            asg' = [a \in Assignments |-> IF a \in ids THEN NewAsg(row[a][1], row[a][2]) ELSE asg[a]]
    BY DEF CommitSuggest
  <1>2. PICK row \in [ids -> fresh] :
          asg' = [a \in Assignments |-> IF a \in ids THEN NewAsg(row[a][1], row[a][2]) ELSE asg[a]]
    BY <1>1
  <1>3. (\A p \in fresh : LiveSlot(p[1])) /\ schedule = "draft"
        /\ UNCHANGED <<schedule, slot, checkedIn, notified, swap>>
    BY DEF CommitSuggest, Commit, SequentialInv, ChecksStillHold, StillHolds
  <1> HIDE DEF fresh
  <1>4. \A b \in Assignments \ ids : asg'[b] = asg[b]
    BY <1>2
  <1>5. ASSUME NEW a \in ids PROVE asg'[a] # NoRow /\ slot[asg'[a].slot] = "live"
    <2>1. asg'[a] = NewAsg(row[a][1], row[a][2]) /\ row[a] \in fresh
      BY <1>2
    <2>2. asg'[a].status = "pending" /\ asg'[a].slot = row[a][1]
      BY <2>1 DEF NewAsg
    <2>3. QED
      BY <1>3, <2>1, <2>2 DEF NoRow, LiveSlot
  <1>6. QED
    BY <1>1, <1>3, <1>4, <1>5, NewRowsCohere

\* An answer is to a pending assignment; a removal is made in draft.
LEMMA StatusCoheres ==
  ASSUME SequentialInv, NEW c \in Sessions, CommitRemoveAssignment(c) \/ CommitRespond(c)
  PROVE  RowsCohere'
  <1> DEFINE a == session[c].asg
  <1>1. PICK to \in {"confirmed", "declined", "removed"} :
          /\ asg' = [asg EXCEPT ![a].status = to]
          /\ to # "removed" => asg[a].status = "pending"
    BY DEF SequentialInv, RosterInv, SessionsTyped, RequestTyped, ChecksStillHold, StillHolds,
           CommitRemoveAssignment, CommitRespond, Commit
  <1>2. /\ a \in Assignments /\ asg[a].status \notin {"none", "removed"}
        /\ UNCHANGED <<schedule, slot, checkedIn, notified, swap>>
    BY DEF SequentialInv, RosterInv, SessionsTyped, RequestTyped, CommitRemoveAssignment, CommitRespond,
           Commit, LiveAsg
  <1> HIDE DEF a
  <1>3. asg[a] \in AsgRow
    BY <1>2 DEF SequentialInv, RosterInv, RowsTyped, NoRow
  <1>4. \A b \in Assignments : asg'[b] = IF b = a THEN [asg[a] EXCEPT !.status = to] ELSE asg[b]
    BY <1>1, <1>2 DEF SequentialInv, RosterInv, RowsTyped
  <1>5. asg'[a].holder = asg[a].holder /\ asg'[a].slot = asg[a].slot /\ asg'[a].status = to
        /\ asg'[a] # NoRow
    BY <1>2, <1>3, <1>4 DEF AsgRow, NoRow
  <1>6. \A b \in Assignments : b # a => asg'[b] = asg[b]
    BY <1>4
  <1>7. \A b \in Assignments : LiveAsg(b)' => LiveAsg(b)
    BY <1>2, <1>5, <1>6 DEF LiveAsg, LiveSlot
  <1>8. \A b \in Assignments : /\ asg'[b].holder = asg[b].holder
                               /\ LiveAsg(b)' /\ asg[b].status = "confirmed" => asg'[b].status = "confirmed"
    BY <1>1, <1>5, <1>6 DEF LiveAsg
  <1>9. SwapsCohere'
    BY <1>2, <1>7, <1>8, SwapsStayCoherent DEF SequentialInv, RowsCohere
  <1>10. RowsHaveParents'
    <2>1. \A s \in Swaps : swap[s] # NoRow => swap[s].asg \in Assignments
      BY DEF SequentialInv, RosterInv, RowsTyped, SwapRow
    <2>2. checkedIn \subseteq Assignments
      BY DEF SequentialInv, RosterInv, RowsTyped
    <2>3. asg[a] # NoRow
      BY <1>2 DEF NoRow
    <2>4. QED
      BY <1>2, <1>5, <1>6, <2>1, <2>2, <2>3 DEF SequentialInv, RowsCohere, RowsHaveParents
  <1>11. CheckedInIsConfirmed'
    BY <1>2, <1>7, <1>8 DEF SequentialInv, RosterInv, RowsTyped, RowsCohere, CheckedInIsConfirmed
  <1>12. PublishedMeansNotified'
    BY <1>1, <1>2, <1>5, <1>6, <1>7 DEF SequentialInv, RowsCohere, PublishedMeansNotified
  <1>13. QED
    BY <1>9, <1>10, <1>11, <1>12 DEF RowsCohere

-----------------------------------------------------------------------------
(* Swap requests of sequential sessions.                                    *)

\* Swap requests cohere when one of them is closed without an exchange.
LEMMA SwapStatusCoheres ==
  ASSUME SequentialInv, NEW c \in Sessions, NEW op \in {"swapReject", "swapCancel"}, CommitSwapStatus(c, op)
  PROVE  RowsCohere'
  <1> DEFINE s  == session[c].swap
             to == session[c].to
  <1>1. /\ s \in Swaps /\ to \in {"rejected", "cancelled"} /\ swap[s].status = "pending"
        /\ swap' = [swap EXCEPT ![s].status = to]
        /\ UNCHANGED <<schedule, slot, asg, checkedIn, notified>>
    BY DEF SequentialInv, RosterInv, SessionsTyped, RequestTyped, ChecksStillHold, StillHolds,
           CommitSwapStatus, Commit
  <1> HIDE DEF s, to
  <1>2. swap[s] \in SwapRow /\ swap[s] # NoRow
    BY <1>1 DEF SequentialInv, RosterInv, RowsTyped, NoRow
  <1>3. \A t \in Swaps \ {s} : swap'[t] = swap[t]
    BY <1>1 DEF SequentialInv, RosterInv, RowsTyped
  <1>4. swap'[s] = [swap[s] EXCEPT !.status = to]
    BY <1>1 DEF SequentialInv, RosterInv, RowsTyped
  <1>5. swap'[s].asg = swap[s].asg /\ swap'[s].status = to
    BY <1>2, <1>4 DEF SwapRow
  <1>6. RowsHaveParents' /\ PublishedMeansNotified' /\ CheckedInIsConfirmed'
    BY <1>1, <1>2, <1>3, <1>5
    DEF SequentialInv, RowsCohere, RowsHaveParents, PublishedMeansNotified, CheckedInIsConfirmed, LiveAsg, LiveSlot
  <1>7. \A a : LiveAsg(a)' = LiveAsg(a)
    BY <1>1 DEF LiveAsg, LiveSlot
  <1>8. PendingOnce' /\ PendingSwapIsHolders'
    BY <1>1, <1>3, <1>5, <1>7
    DEF SequentialInv, RowsCohere, SwapsCohere, PendingOnce, PendingSwaps, PendingSwapIsHolders, LiveSwap
  <1>9. AcceptedSwapTells'
    <2>1. SUFFICES ASSUME NEW t \in Swaps, LiveSwap(t)', swap'[t].status = "accepted",
                          swap'[t].substitute # {asg'[swap'[t].asg].holder}
                   PROVE  \E u \in Swaps \ {t} : /\ swap'[u] # NoRow /\ swap'[u].status = "accepted"
                                                  /\ swap'[u].asg = swap'[t].asg
                                                  /\ swap'[t].substitute = {swap'[u].requester}
      BY DEF AcceptedSwapTells
    <2>2. t # s
      BY <1>1, <1>5, <2>1
    <2>3. PICK u \in Swaps \ {t} : /\ swap[u] # NoRow /\ swap[u].status = "accepted"
                                   /\ swap[u].asg = swap[t].asg
                                   /\ swap[t].substitute = {swap[u].requester}
      BY <1>1, <1>3, <1>7, <2>1, <2>2 DEF SequentialInv, RowsCohere, SwapsCohere, AcceptedSwapTells, LiveSwap
    <2>4. QED
      BY <1>1, <1>3, <2>2, <2>3
  <1>10. QED
    BY <1>6, <1>8, <1>9 DEF RowsCohere, SwapsCohere

LEMMA SwapCreateCoheres ==
  ASSUME SequentialInv, NEW c \in Sessions, CommitSwapCreate(c)
  PROVE  RowsCohere'
  <1> DEFINE a   == session[c].asg
             row == [asg |-> a, requester |-> session[c].actor, substitute |-> {}, status |-> "pending"]
  <1>1. /\ a \in Assignments /\ LiveAsg(a)
        /\ asg[a].holder = session[c].actor /\ asg[a].status = "confirmed" /\ PendingSwaps(a) = {}
        /\ UNCHANGED <<schedule, slot, asg, checkedIn, notified>>
    BY DEF SequentialInv, RosterInv, SessionsTyped, RequestTyped, ChecksStillHold, StillHolds,
           CommitSwapCreate, Commit
  <1>2. PICK s \in Swaps : swap[s] = NoRow /\ swap' = [swap EXCEPT ![s] = row]
    BY DEF CommitSwapCreate
  <1>3. row.asg = a /\ row.requester = asg[a].holder /\ row.status = "pending"
    BY <1>1
  <1> HIDE DEF a, row
  <1>4. \A t \in Swaps : swap'[t] = IF t = s THEN row ELSE swap[t]
    BY <1>2 DEF SequentialInv, RosterInv, RowsTyped
  <1>5. \A b : LiveAsg(b)' = LiveAsg(b)
    BY <1>1 DEF LiveAsg, LiveSlot
  <1>6. RowsHaveParents' /\ PublishedMeansNotified' /\ CheckedInIsConfirmed'
    <2>1. asg[a] # NoRow
      BY <1>1 DEF LiveAsg, NoRow
    <2>2. QED
      BY <1>1, <1>3, <1>4, <1>5, <2>1
      DEF SequentialInv, RowsCohere, RowsHaveParents, PublishedMeansNotified, CheckedInIsConfirmed
  <1>7. PendingOnce'
    BY <1>1, <1>3, <1>4, <1>5
    DEF SequentialInv, RowsCohere, SwapsCohere, PendingOnce, PendingSwaps, LiveSwap
  <1>8. PendingSwapIsHolders'
    BY <1>1, <1>3, <1>4, <1>5
    DEF SequentialInv, RowsCohere, SwapsCohere, PendingSwapIsHolders, LiveSwap
  <1>9. AcceptedSwapTells'
    <2>1. SUFFICES ASSUME NEW t \in Swaps, LiveSwap(t)', swap'[t].status = "accepted",
                          swap'[t].substitute # {asg'[swap'[t].asg].holder}
                   PROVE  \E u \in Swaps \ {t} : /\ swap'[u] # NoRow /\ swap'[u].status = "accepted"
                                                  /\ swap'[u].asg = swap'[t].asg
                                                  /\ swap'[t].substitute = {swap'[u].requester}
      BY DEF AcceptedSwapTells
    <2>2. t # s /\ swap'[t] = swap[t]
      BY <1>3, <1>4, <2>1
    <2>3. PICK u \in Swaps \ {t} : /\ swap[u] # NoRow /\ swap[u].status = "accepted"
                                   /\ swap[u].asg = swap[t].asg
                                   /\ swap[t].substitute = {swap[u].requester}
      BY <1>1, <1>5, <2>1, <2>2 DEF SequentialInv, RowsCohere, SwapsCohere, AcceptedSwapTells, LiveSwap
    <2>4. u # s
      BY <1>2, <2>3
    <2>5. QED
      BY <1>4, <2>2, <2>3, <2>4
  <1>10. QED
    BY <1>6, <1>7, <1>8, <1>9 DEF RowsCohere, SwapsCohere

\* The accepted request was the only pending one of its assignment, and the
\* volunteer who gives the assignment up is the one who asked: whoever an
\* earlier request names as substitute now is the requester of this one.
LEMMA SwapAcceptCoheres ==
  ASSUME SequentialInv, NEW c \in Sessions, CommitSwapAccept(c)
  PROVE  RowsCohere'
  <1> DEFINE s == session[c].swap
             v == session[c].actor
             a == swap[s].asg
  <1>1. /\ s \in Swaps /\ a \in Assignments /\ swap[s] \in SwapRow /\ asg[a] \in AsgRow
        /\ \A b \in Assignments :
             asg'[b] = IF b = a THEN [asg[a] EXCEPT !.holder = v] ELSE asg[b]
        /\ \A t \in Swaps :
             swap'[t] = IF t = s THEN [swap[s] EXCEPT !.status = "accepted", !.substitute = {v}]
                        ELSE swap[t]
    BY AcceptWrites DEF SequentialInv
  <1>2. /\ LiveSwap(s) /\ swap[s].status = "pending"
        /\ UNCHANGED <<schedule, slot, checkedIn, notified>>
    BY DEF SequentialInv, ChecksStillHold, StillHolds, CommitSwapAccept, Commit
  <1> HIDE DEF s, v, a
  <1>3. asg'[a].slot = asg[a].slot /\ asg'[a].holder = v /\ asg'[a].status = asg[a].status
    BY <1>1 DEF AsgRow
  <1>4. swap'[s].requester = swap[s].requester /\ swap'[s].asg = a
        /\ swap'[s].substitute = {v} /\ swap'[s].status = "accepted"
    BY <1>1 DEF SwapRow, a
  <1>5. \A b \in Assignments : /\ asg'[b].slot = asg[b].slot /\ asg'[b].status = asg[b].status
                               /\ asg[b] # NoRow => asg'[b] # NoRow
    <2>1. asg'[a] # NoRow
      BY <1>1, <1>3 DEF AsgRow, NoRow
    <2>2. QED
      BY <1>1, <1>3, <2>1
  <1>6. \A b \in Assignments : LiveAsg(b)' = LiveAsg(b)
    BY <1>2, <1>5 DEF LiveAsg, LiveSlot
  <1>7. \A t \in Swaps : /\ swap'[t].asg = swap[t].asg /\ swap'[t].requester = swap[t].requester
                         /\ swap[t].status # "none" =>
                              swap[t].asg \in Assignments /\ swap[t] # NoRow /\ swap'[t] # NoRow
    <2>1. \A t \in Swaps : swap[t].status # "none" => swap[t].asg \in Assignments /\ swap[t] # NoRow
      BY DEF SequentialInv, RosterInv, RowsTyped, SwapRow, NoRow
    <2>2. swap'[s] # NoRow
      BY <1>4 DEF NoRow
    <2>3. QED
      BY <1>1, <1>4, <2>1, <2>2 DEF a
  <1>8. RowsHaveParents' /\ PublishedMeansNotified' /\ CheckedInIsConfirmed'
    <2>1. checkedIn \subseteq Assignments
      BY DEF SequentialInv, RosterInv, RowsTyped
    <2>2. \A t \in Swaps : swap[t] # NoRow => swap[t].asg \in Assignments
      BY DEF SequentialInv, RosterInv, RowsTyped, SwapRow
    <2>3. \A t \in Swaps : swap'[t] # NoRow => swap[t] # NoRow
      BY <1>1, <1>2 DEF LiveSwap, NoRow
    <2>4. \A b \in Assignments : asg'[b] # NoRow => asg[b] # NoRow
      BY <1>1, RowsAreThere
    <2>5. RowsHaveParents'
      BY <1>2, <1>5, <1>7, <2>1, <2>2, <2>3, <2>4 DEF SequentialInv, RowsCohere, RowsHaveParents
    <2>6. PublishedMeansNotified' /\ CheckedInIsConfirmed'
      BY <1>2, <1>5, <1>6, <2>1 DEF SequentialInv, RowsCohere, PublishedMeansNotified, CheckedInIsConfirmed
    <2>7. QED
      BY <2>5, <2>6
  <1>9. \A t \in Swaps \ {s} : /\ swap'[t] = swap[t]
                               /\ LiveSwap(t)' => LiveSwap(t)
                               /\ LiveSwap(t)' /\ swap[t].status = "pending" => swap[t].asg # a
    <2>1. \A t \in Swaps \ {s} : swap'[t] = swap[t] /\ (LiveSwap(t)' => LiveSwap(t))
      BY <1>1, <1>6, <1>7 DEF LiveSwap
    <2>2. s \in PendingSwaps(a)
      BY <1>1, <1>2 DEF PendingSwaps, a
    <2>3. QED
      BY <1>1, <2>1, <2>2 DEF SequentialInv, RowsCohere, SwapsCohere, PendingOnce, PendingSwaps
  <1>10. PendingOnce'
    BY <1>4, <1>9 DEF SequentialInv, RowsCohere, SwapsCohere, PendingOnce, PendingSwaps
  <1>11. PendingSwapIsHolders'
    <2>1. SUFFICES ASSUME NEW t \in Swaps, LiveSwap(t)', swap'[t].status = "pending"
                   PROVE  asg'[swap'[t].asg].holder = swap'[t].requester
                          /\ asg'[swap'[t].asg].status = "confirmed"
      BY DEF PendingSwapIsHolders
    <2>2. t # s
      BY <1>4, <2>1
    <2>3. swap'[t] = swap[t] /\ LiveSwap(t) /\ swap[t].asg # a /\ swap[t].asg \in Assignments
      BY <1>7, <1>9, <2>1, <2>2 DEF LiveSwap
    <2>4. asg'[swap[t].asg] = asg[swap[t].asg]
      BY <1>1, <2>3
    <2>5. QED
      BY <2>1, <2>3, <2>4 DEF SequentialInv, RowsCohere, SwapsCohere, PendingSwapIsHolders
  <1>12. AcceptedSwapTells'
    <2>1. SUFFICES ASSUME NEW t \in Swaps, LiveSwap(t)', swap'[t].status = "accepted",
                          swap'[t].substitute # {asg'[swap'[t].asg].holder}
                   PROVE  \E u \in Swaps \ {t} : /\ swap'[u] # NoRow /\ swap'[u].status = "accepted"
                                                  /\ swap'[u].asg = swap'[t].asg
                                                  /\ swap'[t].substitute = {swap'[u].requester}
      BY DEF AcceptedSwapTells
    <2>2. t # s
      BY <1>3, <1>4, <2>1
    <2>3. swap'[t] = swap[t] /\ LiveSwap(t) /\ swap[t].asg \in Assignments
      BY <1>7, <1>9, <2>1, <2>2 DEF LiveSwap
    <2>4. CASE swap[t].substitute = {asg[swap[t].asg].holder}
      <3>1. swap[t].asg = a
        BY <1>1, <2>1, <2>3, <2>4
      <3>2. asg[a].holder = swap[s].requester
        BY <1>1, <1>2 DEF SequentialInv, RowsCohere, SwapsCohere, PendingSwapIsHolders, a
      <3>3. swap'[s] # NoRow
        BY <1>4 DEF NoRow
      <3>4. QED
        BY <1>1, <1>4, <2>2, <2>3, <2>4, <3>1, <3>2, <3>3
    <2>5. CASE swap[t].substitute # {asg[swap[t].asg].holder}
      <3>1. PICK u \in Swaps \ {t} : /\ swap[u] # NoRow /\ swap[u].status = "accepted"
                                     /\ swap[u].asg = swap[t].asg
                                     /\ swap[t].substitute = {swap[u].requester}
        BY <2>1, <2>3, <2>5 DEF SequentialInv, RowsCohere, SwapsCohere, AcceptedSwapTells
      <3>2. u # s
        BY <1>2, <3>1
      <3>3. QED
        BY <1>9, <2>3, <3>1, <3>2
    <2>6. QED
      BY <2>4, <2>5
  <1>13. QED
    BY <1>8, <1>10, <1>11, <1>12 DEF RowsCohere, SwapsCohere

-----------------------------------------------------------------------------
LEMMA EndsIdle ==
  ASSUME NEW c \in Sessions, Commits(c) \/ Rollback(c)
  PROVE  session' = [session EXCEPT ![c] = Idle]
  BY DEF Commits, Commit, Rollback, CommitCreateSlot, CommitRemoveSlot, CommitCreateAssignment,
         CommitRemoveAssignment, CommitSuggest, CommitPublish, CommitRemoveSchedule, CommitRespond,
         CommitCheckIn, CommitSwapCreate, CommitSwapAccept, CommitSwapStatus

LEMMA OpensWriteNoRow ==
  ASSUME NEW c \in Sessions, Opens(c)
  PROVE  UNCHANGED tables
  BY DEF Opens, Open, OpenCreateSlot, OpenRemoveSlot, OpenCreateAssignment, OpenRemoveAssignment,
         OpenCheckIn, OpenSuggest, OpenPublish, OpenRemoveSchedule, OpenRespond, OpenSwapCreate,
         OpenSwapAccept, OpenSwapReject, OpenSwapCancel

LEMMA SequentialNext ==
  ASSUME Sequential, SequentialInv, [Next]_vars
  PROVE  SequentialInv'
  <1>1. RosterInv'
    BY NextHolds DEF SequentialInv
  <1>2. CASE UNCHANGED vars
    <2>1. RowsCohere'
      BY <1>2 DEF vars, SequentialInv, RowsCohere, RowsHaveParents, SwapsCohere, PendingOnce, PendingSwaps,
                  PendingSwapIsHolders, AcceptedSwapTells, PublishedMeansNotified, CheckedInIsConfirmed,
                  LiveSwap, LiveAsg, LiveSlot
    <2>2. ChecksStillHold'
      BY <1>2 DEF vars, SequentialInv, ChecksStillHold, StillHolds, Assigned, PendingSwaps, LiveSwap,
                  LiveAsg, LiveSlot
    <2>3. QED
      BY <1>1, <2>1, <2>2 DEF SequentialInv
  <1>3. ASSUME NEW c \in Sessions, Opens(c) PROVE SequentialInv'
    BY <1>1, <1>3, OpensCohere DEF SequentialInv
  <1>4. ASSUME NEW c \in Sessions, Commits(c) \/ Rollback(c) PROVE SequentialInv'
    <2>1. ChecksStillHold'
      BY <1>4, EndsIdle, EndCoheres
    <2>2. RowsCohere'
      BY <1>4, OtherRowsCohere, CreateAssignmentCoheres, SuggestCoheres, StatusCoheres, SwapCreateCoheres,
         SwapStatusCoheres, SwapAcceptCoheres DEF Commits
    <2>3. QED
      BY <1>1, <2>1, <2>2 DEF SequentialInv
  <1>5. QED
    BY <1>2, <1>3, <1>4 DEF Next

\* When requests do not overlap, an assignment has one pending swap request at
\* most, made by its confirmed holder; accepted requests account for every
\* change of hands; who must answer was notified; who checked in has not declined.
THEOREM SequentialRosterCoheres ==
  ASSUME Sequential
  PROVE  Spec => []RosterCoheres
  <1>1. Init => SequentialInv
    BY SequentialInit
  <1>2. SequentialInv /\ [Next]_vars => SequentialInv'
    BY SequentialNext
  <1>3. SequentialInv => RosterCoheres
    <2> SUFFICES ASSUME SequentialInv PROVE RosterCoheres
      OBVIOUS
    <2>1. TypeOK
      BY InvSuffices DEF SequentialInv, SeatsCohere
    <2>2. ASSUME NEW a \in Assignments PROVE Cardinality(PendingSwaps(a)) <= 1
      <3>1. CASE PendingSwaps(a) = {}
        BY <3>1, FS_EmptySet
      <3>2. ASSUME NEW s, s \in PendingSwaps(a) PROVE Cardinality(PendingSwaps(a)) <= 1
        <4>1. PendingSwaps(a) = {s}
          BY <3>2 DEF SequentialInv, RowsCohere, SwapsCohere, PendingOnce
        <4>2. Cardinality({s}) = 1
          BY FS_Singleton
        <4>3. QED
          BY <4>1, <4>2
      <3>3. QED
        BY <3>1, <3>2
    <2>3. QED
      BY <2>1, <2>2 DEF SequentialInv, RowsCohere, SwapsCohere, RosterCoheres, OnePendingSwap
  <1>4. QED
    BY <1>1, <1>2, <1>3, PTL DEF Spec

\* When requests do not overlap, neither the slots nor the assignments of a
\* published schedule change: what removes or adds them was checked in draft.
THEOREM LineUpStays ==
  ASSUME Sequential
  PROVE  Spec => LineUpFixedOncePublished
  <1>1. Init => SequentialInv
    BY SequentialInit
  <1>2. SequentialInv /\ [Next]_vars => SequentialInv'
    BY SequentialNext
  <1>3. ASSUME SequentialInv, [Next]_vars, schedule = "published"
        PROVE  slot' = slot /\ \A a \in Assignments : LiveAsg(a)' = LiveAsg(a)
    <2>1. CASE UNCHANGED <<schedule, slot, asg>>
      BY <2>1 DEF LiveAsg, LiveSlot
    <2>2. ASSUME NEW c \in Sessions, CommitRespond(c)
          PROVE  slot' = slot /\ \A a \in Assignments : LiveAsg(a)' = LiveAsg(a)
      <3> DEFINE a == session[c].asg
      <3>1. /\ a \in Assignments /\ session[c].to \in {"confirmed", "declined"} /\ LiveAsg(a)
            /\ asg' = [asg EXCEPT ![a].status = session[c].to] /\ UNCHANGED <<schedule, slot>>
        BY <1>3, <2>2 DEF SequentialInv, RosterInv, SessionsTyped, RequestTyped, CommitRespond, Commit
      <3> HIDE DEF a
      <3>2. asg[a] \in AsgRow
        BY <1>3, <3>1 DEF SequentialInv, RosterInv, RowsTyped, LiveAsg, NoRow
      <3>3. asg'[a] = [asg[a] EXCEPT !.status = session[c].to]
            /\ \A b \in Assignments \ {a} : asg'[b] = asg[b]
        BY <1>3, <3>1 DEF SequentialInv, RosterInv, RowsTyped
      <3>4. asg'[a].slot = asg[a].slot /\ asg'[a].status = session[c].to
        BY <3>2, <3>3 DEF AsgRow
      <3>5. QED
        BY <3>1, <3>3, <3>4 DEF LiveAsg, LiveSlot
    <2>3. ASSUME NEW c \in Sessions, CommitSwapAccept(c)
          PROVE  slot' = slot /\ \A a \in Assignments : LiveAsg(a)' = LiveAsg(a)
      <3> DEFINE a == swap[session[c].swap].asg
      <3>1. /\ a \in Assignments /\ asg[a] \in AsgRow
            /\ \A b \in Assignments :
                 asg'[b] = IF b = a THEN [asg[a] EXCEPT !.holder = session[c].actor] ELSE asg[b]
        BY <1>3, <2>3, AcceptWrites DEF SequentialInv
      <3>2. UNCHANGED <<schedule, slot>>
        BY <2>3 DEF CommitSwapAccept
      <3> HIDE DEF a
      <3>3. asg'[a].slot = asg[a].slot /\ asg'[a].status = asg[a].status
        BY <3>1 DEF AsgRow
      <3>4. QED
        BY <3>1, <3>2, <3>3 DEF LiveAsg, LiveSlot
    <2>4. ASSUME NEW c \in Sessions,
                 \/ CommitCreateSlot(c) \/ CommitRemoveSlot(c) \/ CommitCreateAssignment(c)
                 \/ CommitRemoveAssignment(c) \/ CommitSuggest(c) \/ CommitPublish(c)
                 \/ CommitRemoveSchedule(c)
          PROVE  FALSE
      BY <1>3, <2>4 DEF SequentialInv, ChecksStillHold, StillHolds, Commit, CommitCreateSlot, CommitRemoveSlot,
         CommitCreateAssignment, CommitRemoveAssignment, CommitSuggest, CommitPublish, CommitRemoveSchedule
    <2>5. ASSUME NEW c \in Sessions, Opens(c) PROVE UNCHANGED <<schedule, slot, asg>>
      BY <2>5, OpensWriteNoRow DEF tables
    <2>6. QED
      BY <1>3, <2>1, <2>2, <2>3, <2>4, <2>5
      DEF Next, vars, Commits, Rollback, CommitCheckIn, CommitSwapCreate, CommitSwapStatus
  <1>4. SequentialInv /\ [Next]_vars =>
          [schedule = "published" =>
             /\ slot' = slot
             /\ \A a \in Assignments : LiveAsg(a)' = LiveAsg(a)]_vars
    BY <1>3
  <1>5. QED
    BY <1>1, <1>2, <1>4, PTL DEF Spec, LineUpFixedOncePublished

\* When requests do not overlap, suggest gives nobody a second assignment in
\* the schedule, whoever is in it already and however many it adds at once.
THEOREM SuggestBooksOnce ==
  ASSUME Sequential
  PROVE  Spec => SuggestNeverDoubleBooks
  <1>1. Init => SequentialInv
    BY SequentialInit
  <1>2. SequentialInv /\ [Next]_vars => SequentialInv'
    BY SequentialNext
  <1>3. ASSUME SequentialInv, [Next]_vars, NEW c \in Sessions, session[c].op = "suggest", asg' # asg,
               NEW a \in Assignments, NEW b \in Assignments,
               asg[a] = NoRow, asg'[a] # NoRow, b # a, LiveAsg(b)'
        PROVE  asg'[b].holder # asg'[a].holder
    <2>1. PICK d \in Sessions : Commits(d)
      BY <1>3, OpensWriteNoRow DEF Next, vars, tables, Rollback
    <2>2. d = c
      BY DEF Sequential
    <2>3. CommitSuggest(c)
      BY <1>3, <2>1, <2>2
      DEF Commits, Commit, CommitCreateSlot, CommitRemoveSlot, CommitCreateAssignment, CommitRemoveAssignment,
          CommitPublish, CommitRemoveSchedule, CommitRespond, CommitCheckIn, CommitSwapCreate, CommitSwapAccept,
          CommitSwapStatus
    <2> DEFINE picks == session[c].picks
               fresh == {p \in picks : \A e \in InSlot(p[1]) : asg[e].holder # p[2]}
    <2>4. PICK ids \in SUBSET {e \in Assignments : asg[e] = NoRow} :
            \E row \in [ids -> fresh] :
              /\ \A e, f \in ids : row[e] = row[f] => e = f
              /\ asg' = [e \in Assignments |-> IF e \in ids THEN NewAsg(row[e][1], row[e][2]) ELSE asg[e]]
      BY <2>3 DEF CommitSuggest
    <2>5. PICK row \in [ids -> fresh] :
            /\ \A e, f \in ids : row[e] = row[f] => e = f
            /\ asg' = [e \in Assignments |-> IF e \in ids THEN NewAsg(row[e][1], row[e][2]) ELSE asg[e]]
      BY <2>4
    <2>6. /\ \A p, q \in picks : p[2] = q[2] => p = q
          /\ \A p \in picks : p[2] \notin Assigned
      BY <1>3 DEF SequentialInv, ChecksStillHold, StillHolds
    <2>7. \A e \in ids : row[e] \in picks
      BY <2>5
    <2>8. UNCHANGED <<schedule, slot>>
      BY <2>3 DEF CommitSuggest
    <2> HIDE DEF picks, fresh
    <2>9. a \in ids
      BY <1>3, <2>5
    <2>10. ASSUME NEW e \in ids PROVE asg'[e].holder = row[e][2]
      <3>1. asg'[e] = NewAsg(row[e][1], row[e][2])
        BY <2>5
      <3>2. QED
        BY <3>1 DEF NewAsg
    <2>11. CASE b \in ids
      BY <1>3, <2>5, <2>6, <2>7, <2>9, <2>10, <2>11
    <2>12. CASE b \notin ids
      <3>1. asg'[b] = asg[b] /\ LiveAsg(b)
        BY <1>3, <2>5, <2>8, <2>12 DEF LiveAsg, LiveSlot
      <3>2. asg[b].holder \in Assigned
        BY <3>1 DEF Assigned
      <3>3. QED
        BY <2>6, <2>7, <2>9, <2>10, <3>1, <3>2
    <2>13. QED
      BY <2>11, <2>12
  <1>4. SequentialInv /\ [Next]_vars =>
          [\A c \in Sessions : (session[c].op = "suggest" /\ asg' # asg) =>
             \A a, b \in Assignments :
               (asg[a] = NoRow /\ asg'[a] # NoRow /\ b # a /\ LiveAsg(b)')
                 => asg'[b].holder # asg'[a].holder]_vars
    BY <1>3
  <1>5. QED
    BY <1>1, <1>2, <1>4, PTL DEF Spec, SuggestNeverDoubleBooks

\* When requests do not overlap, an assignment is answered once, by the
\* volunteer who holds it when the answer is written.
THEOREM HolderAnswersOnce ==
  ASSUME Sequential
  PROVE  Spec => AnsweredOnceByTheHolder
  <1>1. Init => SequentialInv
    BY SequentialInit
  <1>2. SequentialInv /\ [Next]_vars => SequentialInv'
    BY SequentialNext
  <1>3. ASSUME SequentialInv, [Next]_vars, NEW a \in Assignments, LiveAsg(a), LiveAsg(a)',
               asg'[a].status # asg[a].status
        PROVE  /\ asg[a].status = "pending"
               /\ \E c \in Sessions : session[c].op = "respond" /\ session'[c] = Idle
                                      /\ session[c].actor = asg[a].holder
    <2>1. asg[a] # NoRow
      BY <1>3 DEF LiveAsg, NoRow
    <2>2. PICK c \in Sessions : Commits(c)
      BY <1>3, OpensWriteNoRow DEF Next, vars, tables, Rollback
    <2>3. ~CommitCreateAssignment(c)
      BY <1>3, <2>1 DEF CommitCreateAssignment, SequentialInv, RosterInv, RowsTyped
    <2>4. ~CommitSuggest(c)
      BY <1>3, <2>1 DEF CommitSuggest
    <2>5. ~CommitRemoveAssignment(c)
      BY <1>3, <2>1 DEF CommitRemoveAssignment, SequentialInv, RosterInv, RowsTyped, LiveAsg, AsgRow
    <2>6. ~CommitSwapAccept(c)
      <3> SUFFICES ASSUME CommitSwapAccept(c) PROVE FALSE
        OBVIOUS
      <3> DEFINE d == swap[session[c].swap].asg
      <3>1. /\ asg[d] \in AsgRow
            /\ asg'[a] = IF a = d THEN [asg[d] EXCEPT !.holder = session[c].actor] ELSE asg[a]
        BY <1>3, AcceptWrites DEF SequentialInv
      <3> HIDE DEF d
      <3>2. QED
        BY <1>3, <3>1 DEF AsgRow
    <2>7. CommitRespond(c)
      BY <1>3, <2>2, <2>3, <2>4, <2>5, <2>6
      DEF Commits, CommitCreateSlot, CommitRemoveSlot, CommitPublish, CommitRemoveSchedule, CommitCheckIn,
          CommitSwapCreate, CommitSwapStatus
    <2>8. session[c].asg = a
      BY <1>3, <2>7 DEF CommitRespond, SequentialInv, RosterInv, RowsTyped
    <2>9. asg[a].status = "pending" /\ asg[a].holder = session[c].actor
      BY <1>3, <2>7, <2>8 DEF CommitRespond, Commit, SequentialInv, ChecksStillHold, StillHolds
    <2>10. session[c].op = "respond" /\ session'[c] = Idle
      BY <1>3, <2>7 DEF CommitRespond, Commit, SequentialInv, RosterInv, SessionsTyped
    <2>11. QED
      BY <2>9, <2>10
  <1>4. SequentialInv /\ [Next]_vars =>
          [\A a \in Assignments :
             (LiveAsg(a) /\ LiveAsg(a)' /\ asg'[a].status # asg[a].status) =>
               /\ asg[a].status = "pending"
               /\ \E c \in Sessions : session[c].op = "respond" /\ session'[c] = Idle
                                     /\ session[c].actor = asg[a].holder]_vars
    BY <1>3
  <1>5. QED
    BY <1>1, <1>2, <1>4, PTL DEF Spec, AnsweredOnceByTheHolder

-----------------------------------------------------------------------------
(* MinistryTree.                                                            *)

\* A step of the composition is one of the tree or leaves it alone.
LEMMA TreeMovesAlone == [AllNext]_allVars => [Tree!Next]_(Tree!vars)
  BY DEF allVars, AllNext, RosterStep, TreeStep, treePart, Tree!vars

TreeWrites == [step : {"write"}, op : {"create", "move", "remove"}, self : Ministries, to : Ministries \cup {Top}]
TreeWalks  == [step : {"walk"}, op : {"move"}, self : Ministries, to : Ministries, at : Ministries]

\* The rows of the tree keep their foreign key, and requests are well formed.
TreeRows ==
  /\ live \subseteq Ministries
  /\ parent \in [Ministries -> Ministries \cup {Top}]
  /\ \A m \in Ministries : parent[m] \in live \cup {Top} /\ (m \notin live => parent[m] = Top)

TreeTyped == TreeRows /\ treeSession \in [Sessions -> {Tree!Idle} \cup TreeWrites \cup TreeWalks]

\* The ministry the walk of a request asks for next.
TreeEdge(r) == IF r.step = "walk" THEN {r.at} ELSE {}

\* Nobody but the request that creates a ministry knows of it.
TreeIdsAreFresh ==
  \A c \in Sessions : treeSession[c].step = "write" /\ treeSession[c].op = "create" =>
    /\ treeSession[c].self \notin live
    /\ \A d \in Sessions \ {c} : treeSession[d] # Tree!Idle =>
         treeSession[c].self \notin {treeSession[d].self, treeSession[d].to} \cup TreeEdge(treeSession[d])

\* The walk up from the new parent has not met the ministry that moves: from
\* what it has passed one comes only to where it is, or to a root.
TreeClimbed(r, l, p) ==
  \E A \in SUBSET l :
    /\ r.self \notin A /\ r.to \in A \cup TreeEdge(r)
    /\ \A m \in A : p[m] \in A \cup TreeEdge(r) \cup {Top}

TreeClimbing(c) ==
  LET r == treeSession[c]
  IN  /\ r.step \in {"write", "walk"} /\ r.op = "move" /\ r.to # Top
      /\ {r.self, r.to} \subseteq live /\ <<c, "move">> \notin raced

TreeWalksHold == \A c \in Sessions : TreeClimbing(c) => TreeClimbed(treeSession[c], live, parent)

\* A request that makes a root has found no other.
TreeRooting(c) ==
  LET r == treeSession[c]
  IN  /\ r.step = "write" /\ r.op \in {"create", "move"} /\ r.to = Top
      /\ \A op \in Tree!AllHandlers : <<c, op>> \notin raced

TreeRootsHold ==
  \A c \in Sessions : TreeRooting(c) =>
    Tree!Roots \subseteq IF treeSession[c].op = "create" THEN {} ELSE {treeSession[c].self}

TreeInv == TreeTyped /\ TreeIdsAreFresh /\ TreeWalksHold /\ TreeRootsHold

-----------------------------------------------------------------------------
\* With parents p, whatever has the roots of l and the children of what it has
\* has all of l.
TreeHangs(l, p) ==
  \A set \in SUBSET l :
    (\A x \in l : p[x] \notin l \/ p[x] \in set => x \in set) => \A x \in l : x \in set

\* No ministries of l are the parents of one another.
TreeHasNoCycle(l, p) == \A L \in SUBSET l : (\A m \in L : p[m] \in L) => L = {}

LEMMA TreeHangsWithoutCycle ==
  ASSUME NEW l, NEW p
  PROVE  TreeHangs(l, p) <=> TreeHasNoCycle(l, p)
  <1> USE DEF TreeHangs, TreeHasNoCycle
  <1> DEFINE hanging(set) == \A x \in l : p[x] \notin l \/ p[x] \in set => x \in set
  <1>1. ASSUME \A set \in SUBSET l : hanging(set) => \A x \in l : x \in set,
               NEW L \in SUBSET l, \A m \in L : p[m] \in L
        PROVE  L = {}
    <2>1. hanging(l \ L) /\ l \ L \in SUBSET l
      BY <1>1
    <2>2. \A x \in l : x \in l \ L
      BY <1>1, <2>1
    <2>3. QED
      BY <1>1, <2>2
  <1>2. ASSUME \A L \in SUBSET l : (\A m \in L : p[m] \in L) => L = {},
               NEW set \in SUBSET l, hanging(set), NEW x \in l
        PROVE  x \in set
    <2>1. \A m \in l \ set : p[m] \in l \ set
      BY <1>2
    <2>2. l \ set = {}
      BY <1>2, <2>1
    <2>3. QED
      BY <1>2, <2>2
  <1>3. QED
    BY <1>1, <1>2

LEMMA TreeShowsAll ==
  /\ Tree!EveryMinistryIsShown <=> TreeHasNoCycle(live, parent)
  /\ Tree!EveryMinistryIsShown' <=> TreeHasNoCycle(live', parent')
  <1>1. Tree!EveryMinistryIsShown <=> TreeHangs(live, parent)
    BY DEF Tree!EveryMinistryIsShown, Tree!Shown, Tree!Hanging, TreeHangs
  <1>2. Tree!EveryMinistryIsShown' <=> TreeHangs(live', parent')
    BY DEF Tree!EveryMinistryIsShown, Tree!Shown, Tree!Hanging, TreeHangs
  <1>3. QED
    BY <1>1, <1>2, TreeHangsWithoutCycle

\* What an open request is.
LEMMA TreeRequest ==
  ASSUME TreeTyped, NEW c \in Sessions, treeSession[c].step \in {"write", "walk"}
  PROVE  /\ treeSession[c] # Tree!Idle
         /\ treeSession[c].step = "write" => treeSession[c] \in TreeWrites
         /\ treeSession[c].step = "walk" => treeSession[c] \in TreeWalks
         /\ treeSession[c].self \in Ministries
  BY DEF TreeTyped, TreeWrites, TreeWalks, Tree!Idle

-----------------------------------------------------------------------------
(* A request opens, or its walk goes on.                                    *)

LEMMA TreeOpens ==
  ASSUME TreeConstants, TreeInv, NEW c \in Sessions, NEW new \in TreeWrites \cup TreeWalks,
         treeSession' = [treeSession EXCEPT ![c] = new], UNCHANGED <<live, parent, raced>>,
         \* it is a creation of something new, or knows nothing that is being created
         \/ new.step = "write" /\ new.op = "create" /\ new.self \notin live /\ new.to \in live \cup {Top}
              /\ \A d \in Sessions \ {c} : treeSession[d] # Tree!Idle =>
                   new.self \notin {treeSession[d].self, treeSession[d].to} \cup TreeEdge(treeSession[d])
         \/ new.op # "create"
              /\ \A d \in Sessions \ {c} : treeSession[d].step = "write" /\ treeSession[d].op = "create" =>
                   treeSession[d].self \notin {new.self, new.to} \cup TreeEdge(new),
         new.op = "move" /\ new.to # Top /\ {new.self, new.to} \subseteq live /\ <<c, "move">> \notin raced =>
           TreeClimbed(new, live, parent),
         new.step = "write" /\ new.op \in {"create", "move"} /\ new.to = Top
           /\ (\A op \in Tree!AllHandlers : <<c, op>> \notin raced) =>
           Tree!Roots \subseteq IF new.op = "create" THEN {} ELSE {new.self}
  PROVE  TreeInv'
  <1>1. \A d \in Sessions : treeSession'[d] = IF d = c THEN new ELSE treeSession[d]
    BY DEF TreeInv, TreeTyped
  <1>2. TreeTyped'
    BY DEF TreeInv, TreeTyped, TreeRows
  <1>3. TreeIdsAreFresh'
    <2>1. SUFFICES ASSUME NEW d \in Sessions, treeSession'[d].step = "write", treeSession'[d].op = "create"
                   PROVE  /\ treeSession'[d].self \notin live
                          /\ \A e \in Sessions \ {d} : treeSession'[e] # Tree!Idle =>
                               treeSession'[d].self \notin {treeSession'[e].self, treeSession'[e].to}
                                                             \cup TreeEdge(treeSession'[e])
      BY DEF TreeIdsAreFresh, TreeEdge
    <2>2. CASE d = c
      BY <1>1, <2>1, <2>2
    <2>3. CASE d # c
      <3>1. treeSession[d].step = "write" /\ treeSession[d].op = "create" /\ treeSession'[d] = treeSession[d]
        BY <1>1, <2>1, <2>3
      <3>2. treeSession[d].self \notin live
        BY <3>1 DEF TreeInv, TreeIdsAreFresh
      <3>3. \A e \in Sessions \ {c, d} : treeSession'[e] # Tree!Idle =>
               treeSession[d].self \notin {treeSession'[e].self, treeSession'[e].to} \cup TreeEdge(treeSession'[e])
        BY <1>1, <3>1 DEF TreeInv, TreeIdsAreFresh
      <3>4. treeSession[d] # Tree!Idle
        BY <3>1, TreeRequest DEF TreeInv
      <3>5. treeSession[d].self \notin {new.self, new.to} \cup TreeEdge(new)
        <4>1. CASE new.step = "write" /\ new.op = "create"
          <5>1. new.self \notin {treeSession[d].self, treeSession[d].to}
            BY <2>3, <3>4, <4>1
          <5>2. TreeEdge(new) = {}
            BY <4>1 DEF TreeEdge
          <5>3. treeSession[d].self # new.to
            BY <3>1, <3>2, <4>1, TreeRequest DEF TreeInv, TreeConstants
          <5>4. QED
            BY <5>1, <5>2, <5>3
        <4>2. CASE new.op # "create"
          BY <2>3, <3>1, <4>2
        <4>3. QED
          BY <4>1, <4>2
      <3>6. QED
        BY <1>1, <3>1, <3>2, <3>3, <3>5
    <2>4. QED
      BY <2>2, <2>3
  <1>4. TreeWalksHold'
    BY <1>1 DEF TreeInv, TreeWalksHold, TreeClimbing, TreeClimbed
  <1>5. TreeRootsHold'
    BY <1>1 DEF TreeInv, TreeRootsHold, TreeRooting, Tree!Roots
  <1>6. QED
    BY <1>2, <1>3, <1>4, <1>5 DEF TreeInv

-----------------------------------------------------------------------------
(* A request ends.                                                          *)

LEMMA TreeLeaves ==
  ASSUME TreeConstants, TreeInv, NEW c \in Sessions, treeSession[c] # Tree!Idle,
         NEW written \in SUBSET Tree!AllHandlers, Tree!Leave(c, written), TreeRows',
         \/ live' \subseteq live
         \/ /\ treeSession[c].step = "write" /\ treeSession[c].op = "create"
            /\ live' = live \cup {treeSession[c].self},
         \A d \in Sessions \ {c} :
           TreeClimbing(d) /\ {treeSession[d].self, treeSession[d].to} \subseteq live' /\ "move" \notin written =>
             TreeClimbed(treeSession[d], live', parent'),
         written = {} => Tree!Roots' = Tree!Roots
  PROVE  TreeInv'
  <1>1. /\ treeSession' = [treeSession EXCEPT ![c] = Tree!Idle]
        /\ raced' = (raced \ ({c} \X Tree!AllHandlers)) \cup (Tree!Others(c) \X written)
    BY DEF Tree!Leave
  <1>2. \A d \in Sessions : treeSession'[d] = IF d = c THEN Tree!Idle ELSE treeSession[d]
    BY <1>1 DEF TreeInv, TreeTyped
  <1>3. TreeTyped'
    BY <1>1 DEF TreeInv, TreeTyped
  <1>4. Tree!Idle.step = "idle"
    BY DEF Tree!Idle
  <1>5. ASSUME NEW d \in Sessions \ {c}, treeSession[d].step \in {"write", "walk"}
        PROVE  /\ {treeSession[d].self, treeSession[d].to} \cap live' \subseteq live
               /\ \A op \in Tree!AllHandlers : <<d, op>> \notin raced' => <<d, op>> \notin raced /\ op \notin written
    <2>1. treeSession[d] # Tree!Idle /\ d \in Tree!Others(c)
      BY <1>5, TreeRequest DEF TreeInv, Tree!Others
    <2>2. {treeSession[d].self, treeSession[d].to} \cap live' \subseteq live
      BY <2>1 DEF TreeInv, TreeIdsAreFresh
    <2>3. QED
      BY <1>1, <2>1, <2>2
  <1>6. TreeIdsAreFresh'
    <2>1. SUFFICES ASSUME NEW d \in Sessions, treeSession'[d].step = "write", treeSession'[d].op = "create"
                   PROVE  /\ treeSession'[d].self \notin live'
                          /\ \A e \in Sessions \ {d} : treeSession'[e] # Tree!Idle =>
                               treeSession'[d].self \notin {treeSession'[e].self, treeSession'[e].to}
                                                             \cup TreeEdge(treeSession'[e])
      BY DEF TreeIdsAreFresh, TreeEdge
    <2>2. d # c /\ treeSession'[d] = treeSession[d]
      BY <1>2, <1>4, <2>1
    <2>3. treeSession[d].self \notin live /\ treeSession[d] # Tree!Idle
      BY <2>1, <2>2, TreeRequest DEF TreeInv, TreeIdsAreFresh
    <2>4. treeSession'[d].self \notin live'
      BY <1>5, <2>1, <2>2, <2>3
    <2>5. \A e \in Sessions \ {d} : treeSession'[e] # Tree!Idle =>
             treeSession'[d].self \notin {treeSession'[e].self, treeSession'[e].to} \cup TreeEdge(treeSession'[e])
      BY <1>2, <2>1, <2>2 DEF TreeInv, TreeIdsAreFresh
    <2>6. QED
      BY <2>4, <2>5
  <1>7. TreeWalksHold'
    <2>1. SUFFICES ASSUME NEW d \in Sessions, TreeClimbing(d)' PROVE TreeClimbed(treeSession[d], live', parent')
      BY <1>2, <1>4 DEF TreeWalksHold, TreeClimbing, TreeClimbed
    <2>2. /\ d # c /\ treeSession'[d] = treeSession[d]
          /\ treeSession[d].step \in {"write", "walk"} /\ treeSession[d].op = "move" /\ treeSession[d].to # Top
          /\ {treeSession[d].self, treeSession[d].to} \subseteq live' /\ <<d, "move">> \notin raced'
      BY <1>2, <1>4, <2>1 DEF TreeClimbing
    <2>3. TreeClimbing(d) /\ "move" \notin written
      <3>1. "move" \in Tree!AllHandlers
        BY DEF Tree!AllHandlers
      <3>2. QED
        BY <1>5, <2>2, <3>1 DEF TreeClimbing
    <2>4. QED
      BY <2>2, <2>3
  <1>8. TreeRootsHold'
    <2>1. SUFFICES ASSUME NEW d \in Sessions, TreeRooting(d)'
                   PROVE  Tree!Roots' \subseteq IF treeSession'[d].op = "create" THEN {} ELSE {treeSession'[d].self}
      BY DEF TreeRootsHold
    <2>2. /\ d # c /\ treeSession'[d] = treeSession[d] /\ treeSession[d].step = "write"
          /\ treeSession[d].op \in {"create", "move"} /\ treeSession[d].to = Top
          /\ \A op \in Tree!AllHandlers : <<d, op>> \notin raced'
      BY <1>2, <1>4, <2>1 DEF TreeRooting
    <2>3. TreeRooting(d) /\ written = {}
      BY <1>5, <2>2 DEF TreeRooting
    <2>4. QED
      BY <2>2, <2>3 DEF TreeInv, TreeRootsHold
  <1>9. QED
    BY <1>3, <1>6, <1>7, <1>8 DEF TreeInv

LEMMA TreeRollback ==
  ASSUME TreeConstants, TreeInv, NEW c \in Sessions, Tree!Rollback(c)
  PROVE  TreeInv'
  <1>1. treeSession[c] # Tree!Idle /\ Tree!Leave(c, {}) /\ UNCHANGED <<live, parent>>
    BY DEF Tree!Rollback
  <1>2. TreeRows' /\ Tree!Roots' = Tree!Roots
    BY <1>1 DEF TreeInv, TreeTyped, TreeRows, Tree!Roots
  <1>3. \A d \in Sessions : TreeClimbing(d) => TreeClimbed(treeSession[d], live', parent')
    BY <1>1 DEF TreeInv, TreeWalksHold
  <1>4. QED
    BY <1>1, <1>2, <1>3, TreeLeaves

LEMMA TreeCreates ==
  ASSUME TreeConstants, TreeInv, NEW c \in Sessions, Tree!CommitCreate(c)
  PROVE  TreeInv'
  <1> DEFINE r == treeSession[c]
  <1>1. /\ r.step = "write" /\ r.op = "create" /\ r.self \notin live /\ r.to \in live \cup {Top}
        /\ live' = live \cup {r.self} /\ parent' = [parent EXCEPT ![r.self] = r.to]
        /\ Tree!Leave(c, {"create"})
    BY DEF Tree!CommitCreate
  <1>2. r # Tree!Idle /\ r.self \in Ministries
    BY <1>1, TreeRequest DEF TreeInv
  <1>3. \A m \in Ministries : parent'[m] = IF m = r.self THEN r.to ELSE parent[m]
    BY <1>1 DEF TreeInv, TreeTyped, TreeRows
  <1>4. TreeRows'
    BY <1>1, <1>2, <1>3 DEF TreeInv, TreeTyped, TreeRows
  <1>5. ASSUME NEW d \in Sessions \ {c}, TreeClimbing(d) PROVE TreeClimbed(treeSession[d], live', parent')
    <2>1. PICK A \in SUBSET live :
            /\ treeSession[d].self \notin A /\ treeSession[d].to \in A \cup TreeEdge(treeSession[d])
            /\ \A m \in A : parent[m] \in A \cup TreeEdge(treeSession[d]) \cup {Top}
      BY <1>5 DEF TreeInv, TreeWalksHold, TreeClimbed
    <2>2. A \in SUBSET live' /\ \A m \in A : parent'[m] = parent[m]
      BY <1>1, <1>3 DEF TreeInv, TreeTyped, TreeRows
    <2>3. QED
      BY <2>1, <2>2 DEF TreeClimbed
  <1>6. {"create"} \in SUBSET Tree!AllHandlers
    BY DEF Tree!AllHandlers
  <1>7. QED
    BY <1>1, <1>2, <1>4, <1>5, <1>6, TreeLeaves

LEMMA TreeMoves ==
  ASSUME TreeConstants, TreeInv, NEW c \in Sessions, Tree!CommitMove(c)
  PROVE  TreeInv'
  <1> DEFINE r == treeSession[c]
  <1>1. /\ r.step = "write" /\ r.op = "move" /\ r.self \in live /\ r.to \in live \cup {Top}
        /\ live' = live /\ parent' = [parent EXCEPT ![r.self] = r.to]
        /\ Tree!Leave(c, {"move"})
    BY DEF Tree!CommitMove
  <1>2. r # Tree!Idle /\ r.self \in Ministries
    BY <1>1, TreeRequest DEF TreeInv
  <1>3. TreeRows'
    BY <1>1, <1>2 DEF TreeInv, TreeTyped, TreeRows
  <1>4. {"move"} \in SUBSET Tree!AllHandlers
    BY DEF Tree!AllHandlers
  <1>5. QED
    BY <1>1, <1>2, <1>3, <1>4, TreeLeaves

LEMMA TreeRemoves ==
  ASSUME TreeConstants, TreeInv, NEW c \in Sessions, Tree!CommitRemove(c)
  PROVE  TreeInv'
  <1> DEFINE r == treeSession[c]
  <1>1. /\ r.step = "write" /\ r.op = "remove" /\ r.self \in live /\ live' = live \ {r.self}
        /\ parent' = [m \in Ministries |-> IF r.self \in {m, parent[m]} THEN Top ELSE parent[m]]
        /\ Tree!Leave(c, {"remove"})
    BY DEF Tree!CommitRemove
  <1>2. r # Tree!Idle /\ r.self \in Ministries
    BY <1>1, TreeRequest DEF TreeInv
  <1>3. TreeRows'
    BY <1>1, <1>2 DEF TreeInv, TreeTyped, TreeRows
  <1>4. ASSUME NEW d \in Sessions \ {c}, TreeClimbing(d),
               {treeSession[d].self, treeSession[d].to} \subseteq live'
        PROVE  TreeClimbed(treeSession[d], live', parent')
    <2>1. PICK A \in SUBSET live :
            /\ treeSession[d].self \notin A /\ treeSession[d].to \in A \cup TreeEdge(treeSession[d])
            /\ \A m \in A : parent[m] \in A \cup TreeEdge(treeSession[d]) \cup {Top}
      BY <1>4 DEF TreeInv, TreeWalksHold, TreeClimbed
    <2> DEFINE B == A \ {r.self}
    <2>2. B \in SUBSET live' /\ treeSession[d].self \notin B
      BY <1>1, <2>1
    <2>3. treeSession[d].to \in B \cup TreeEdge(treeSession[d])
      BY <1>1, <1>4, <2>1
    <2>4. ASSUME NEW m \in B PROVE parent'[m] \in B \cup TreeEdge(treeSession[d]) \cup {Top}
      <3>1. m \in Ministries /\ m # r.self /\ m \in A
        BY <2>1, <2>4 DEF TreeInv, TreeTyped, TreeRows
      <3>2. parent'[m] = IF parent[m] = r.self THEN Top ELSE parent[m]
        BY <1>1, <3>1
      <3>3. QED
        BY <2>1, <3>1, <3>2
    <2> HIDE DEF B
    <2>5. QED
      BY <2>2, <2>3, <2>4 DEF TreeClimbed
  <1>5. {"remove"} \in SUBSET Tree!AllHandlers
    BY DEF Tree!AllHandlers
  <1>6. QED
    BY <1>1, <1>2, <1>3, <1>4, <1>5, TreeLeaves

-----------------------------------------------------------------------------
LEMMA TreeOpenCreates ==
  ASSUME TreeConstants, TreeInv, NEW c \in Sessions, NEW m \in Ministries, NEW p \in Ministries \cup {Top},
         Tree!OpenCreate(c, m, p)
  PROVE  TreeInv'
  <1> DEFINE new == Tree!Write("create", m, p)
  <1>1. new \in TreeWrites /\ new.step = "write" /\ new.op = "create" /\ new.self = m /\ new.to = p
    BY DEF Tree!Write, TreeWrites
  <1>2. treeSession' = [treeSession EXCEPT ![c] = new] /\ UNCHANGED <<live, parent, raced>>
        /\ treeSession[c] = Tree!Idle /\ Tree!Fresh(m) /\ p \in live \cup {Top}
        /\ (p = Top => Tree!Roots \subseteq {})
    BY DEF Tree!OpenCreate, Tree!Open, Tree!NoRootExists
  <1> HIDE DEF new
  <1>3. \A d \in Sessions \ {c} : treeSession[d] # Tree!Idle =>
          new.self \notin {treeSession[d].self, treeSession[d].to} \cup TreeEdge(treeSession[d])
    BY <1>1, <1>2 DEF Tree!Fresh, TreeEdge
  <1>4. new.self \notin live
    BY <1>1, <1>2 DEF Tree!Fresh
  <1>5. QED
    BY <1>1, <1>2, <1>3, <1>4, TreeOpens

\* A request on a ministry that is there has nothing to do with a new one.
LEMMA TreeOpensOnLive ==
  ASSUME TreeConstants, TreeInv, NEW c \in Sessions, NEW new, {new.self, new.to} \subseteq live \cup {Top},
         TreeEdge(new) \subseteq live
  PROVE  \A d \in Sessions \ {c} : treeSession[d].step = "write" /\ treeSession[d].op = "create" =>
           treeSession[d].self \notin {new.self, new.to} \cup TreeEdge(new)
  BY TreeRequest DEF TreeInv, TreeIdsAreFresh, TreeConstants

LEMMA TreeOpenWrites ==
  ASSUME TreeConstants, TreeInv, NEW c \in Sessions, NEW m \in Ministries,
         Tree!OpenPromote(c, m) \/ Tree!OpenRemove(c, m)
  PROVE  TreeInv'
  <1>1. PICK op \in {"move", "remove"} :
          /\ m \in live /\ Tree!Open(c, Tree!Write(op, m, Top))
          /\ op = "move" => Tree!Roots \subseteq {m}
    BY DEF Tree!OpenPromote, Tree!OpenRemove, Tree!NoRootExists
  <1> DEFINE new == Tree!Write(op, m, Top)
  <1>2. new \in TreeWrites /\ new.step = "write" /\ new.op = op /\ new.self = m /\ new.to = Top
    BY DEF Tree!Write, TreeWrites
  <1>3. treeSession' = [treeSession EXCEPT ![c] = new] /\ UNCHANGED <<live, parent, raced>>
    BY <1>1 DEF Tree!Open
  <1> HIDE DEF new
  <1>4. \A d \in Sessions \ {c} : treeSession[d].step = "write" /\ treeSession[d].op = "create" =>
           treeSession[d].self \notin {new.self, new.to} \cup TreeEdge(new)
    BY <1>1, <1>2, TreeOpensOnLive DEF TreeEdge
  <1>5. QED
    BY <1>1, <1>2, <1>3, <1>4, TreeOpens

LEMMA TreeOpenMoves ==
  ASSUME TreeConstants, TreeInv, NEW c \in Sessions, NEW m \in Ministries, NEW p \in Ministries,
         Tree!OpenMove(c, m, p)
  PROVE  TreeInv'
  <1> DEFINE new == [step |-> "walk", op |-> "move", self |-> m, to |-> p, at |-> p]
  <1>1. /\ new \in TreeWalks /\ new.step = "walk" /\ new.op = "move" /\ new.self = m /\ new.to = p /\ new.at = p
        /\ m \in live /\ p \in live
    BY DEF TreeWalks, Tree!OpenMove
  <1>2. treeSession' = [treeSession EXCEPT ![c] = new] /\ UNCHANGED <<live, parent, raced>>
    BY DEF Tree!OpenMove, Tree!Open
  <1> HIDE DEF new
  <1>3. TreeEdge(new) = {p}
    BY <1>1 DEF TreeEdge
  <1>4. \A d \in Sessions \ {c} : treeSession[d].step = "write" /\ treeSession[d].op = "create" =>
           treeSession[d].self \notin {new.self, new.to} \cup TreeEdge(new)
    BY <1>1, <1>3, TreeOpensOnLive
  <1>5. TreeClimbed(new, live, parent)
    <2>1. {} \in SUBSET live /\ new.self \notin {} /\ new.to \in {} \cup TreeEdge(new)
      BY <1>1, <1>3
    <2>2. QED
      BY <2>1 DEF TreeClimbed
  <1>6. QED
    BY <1>1, <1>2, <1>4, <1>5, TreeOpens

LEMMA TreeClimbs ==
  ASSUME TreeConstants, TreeInv, NEW c \in Sessions, Tree!Walk(c)
  PROVE  TreeInv'
  <1> DEFINE r == treeSession[c]
  <1>1. r \in TreeWalks /\ r # Tree!Idle /\ r.step = "walk" /\ UNCHANGED <<live, parent, raced>>
    BY TreeRequest DEF Tree!Walk, TreeInv
  <1>2. /\ r.op = "move" /\ r.self \in Ministries /\ r.to \in Ministries /\ r.at \in Ministries
        /\ TreeEdge(r) = {r.at}
    BY <1>1 DEF TreeWalks, TreeEdge
  <1>3. \A d \in Sessions \ {c} : treeSession[d].step = "write" /\ treeSession[d].op = "create" =>
           treeSession[d].self \notin live \cup {r.self, r.to, r.at}
    BY <1>1, <1>2 DEF TreeInv, TreeIdsAreFresh
  <1>4. ASSUME r.to # Top, {r.self, r.to} \subseteq live, <<c, "move">> \notin raced
        PROVE  TreeClimbed(r, live, parent)
    BY <1>1, <1>2, <1>4 DEF TreeInv, TreeWalksHold, TreeClimbing
  <1>5. CASE Tree!EndWalk(c) /\ (r.at \notin live \/ (r.at \in live /\ r.at # r.self /\ parent[r.at] = Top))
    <2> DEFINE new == Tree!Write("move", r.self, r.to)
    <2>1. new \in TreeWrites /\ new.step = "write" /\ new.op = "move" /\ new.self = r.self /\ new.to = r.to
      BY <1>2 DEF Tree!Write, TreeWrites
    <2>2. treeSession' = [treeSession EXCEPT ![c] = new]
      BY <1>5 DEF Tree!EndWalk
    <2> HIDE DEF new
    <2>3. TreeEdge(new) = {}
      BY <2>1 DEF TreeEdge
    <2>4. new.to # Top
      BY <1>2, <2>1 DEF TreeConstants
    <2>5. ASSUME {r.self, r.to} \subseteq live, <<c, "move">> \notin raced
          PROVE  TreeClimbed(new, live, parent)
      <3>1. PICK A \in SUBSET live :
              /\ r.self \notin A /\ r.to \in A \cup {r.at} /\ \A m \in A : parent[m] \in A \cup {r.at} \cup {Top}
        BY <1>2, <1>4, <2>1, <2>4, <2>5 DEF TreeClimbed
      <3>2. \A m \in A : parent[m] \in live \cup {Top}
        BY DEF TreeInv, TreeTyped, TreeRows
      <3>3. CASE r.at \notin live
        <4>1. r.to \in A /\ \A m \in A : parent[m] \in A \cup {Top}
          BY <1>2, <2>5, <3>1, <3>2, <3>3 DEF TreeConstants
        <4>2. QED
          BY <2>1, <2>3, <3>1, <4>1 DEF TreeClimbed
      <3>4. CASE r.at \in live /\ r.at # r.self /\ parent[r.at] = Top
        <4> DEFINE B == A \cup {r.at}
        <4>1. B \in SUBSET live /\ r.self \notin B /\ r.to \in B /\ \A m \in B : parent[m] \in B \cup {Top}
          BY <3>1, <3>4
        <4> HIDE DEF B
        <4>2. QED
          BY <2>1, <2>3, <4>1 DEF TreeClimbed
      <3>5. QED
        BY <1>5, <3>3, <3>4
    <2>6. QED
      BY <1>1, <1>3, <2>1, <2>2, <2>3, <2>4, <2>5, TreeOpens
  <1>6. CASE r.at \in live /\ r.at # r.self /\ parent[r.at] # Top /\ Tree!Advance(c, parent[r.at])
    <2> DEFINE new == [r EXCEPT !.at = parent[r.at]]
    <2>1. parent[r.at] \in live /\ parent[r.at] \in Ministries
      BY <1>2, <1>6 DEF TreeInv, TreeTyped, TreeRows
    <2>2. /\ new \in TreeWalks /\ new.step = "walk" /\ new.op = "move" /\ new.self = r.self /\ new.to = r.to
          /\ new.at = parent[r.at]
      BY <1>1, <2>1 DEF TreeWalks
    <2>3. treeSession' = [treeSession EXCEPT ![c] = new]
      BY <1>6 DEF Tree!Advance
    <2> HIDE DEF new
    <2>4. TreeEdge(new) = {parent[r.at]}
      BY <2>2 DEF TreeEdge
    <2>5. ASSUME new.to # Top, {r.self, r.to} \subseteq live, <<c, "move">> \notin raced
          PROVE  TreeClimbed(new, live, parent)
      <3>1. PICK A \in SUBSET live :
              /\ r.self \notin A /\ r.to \in A \cup {r.at} /\ \A m \in A : parent[m] \in A \cup {r.at} \cup {Top}
        BY <1>2, <1>4, <2>2, <2>5 DEF TreeClimbed
      <3> DEFINE B == A \cup {r.at}
      <3>2. /\ B \in SUBSET live /\ r.self \notin B /\ r.to \in B \cup {parent[r.at]}
            /\ \A m \in B : parent[m] \in B \cup {parent[r.at]} \cup {Top}
        BY <1>6, <3>1
      <3> HIDE DEF B
      <3>3. QED
        BY <2>2, <2>4, <3>2 DEF TreeClimbed
    <2>6. \A d \in Sessions \ {c} : treeSession[d].step = "write" /\ treeSession[d].op = "create" =>
             treeSession[d].self \notin {new.self, new.to} \cup TreeEdge(new)
      BY <1>3, <2>1, <2>2, <2>4
    <2>7. QED
      BY <1>1, <2>2, <2>3, <2>5, <2>6, TreeOpens
  <1>7. QED
    BY <1>5, <1>6 DEF Tree!Walk

LEMMA TreeNextKeeps ==
  ASSUME TreeConstants, TreeInv, [Tree!Next]_(Tree!vars)
  PROVE  TreeInv'
  <1>1. CASE UNCHANGED Tree!vars
    BY <1>1 DEF Tree!vars, TreeInv, TreeTyped, TreeRows, TreeIdsAreFresh, TreeEdge, TreeWalksHold, TreeClimbing,
                TreeClimbed, TreeRootsHold, TreeRooting, Tree!Roots
  <1>2. CASE Tree!Next
    BY <1>2, TreeOpenCreates, TreeOpenWrites, TreeOpenMoves, TreeClimbs, TreeCreates, TreeMoves, TreeRemoves,
       TreeRollback DEF Tree!Next
  <1>3. QED
    BY <1>1, <1>2

LEMMA TreeInitHolds ==
  ASSUME Tree!Init
  PROVE  TreeInv
  <1> USE DEF Tree!Init
  <1>1. TreeTyped
    BY DEF TreeTyped, TreeRows
  <1>2. \A c \in Sessions : treeSession[c].step = "idle"
    BY DEF Tree!Idle
  <1>3. QED
    BY <1>1, <1>2 DEF TreeInv, TreeIdsAreFresh, TreeWalksHold, TreeClimbing, TreeRootsHold, TreeRooting

-----------------------------------------------------------------------------
\* What a step may do to the tree.
LEMMA TreeStays ==
  ASSUME Tree!Next
  PROVE  \/ UNCHANGED <<live, parent>>
         \/ \E c \in Sessions : Tree!CommitCreate(c) \/ Tree!CommitMove(c) \/ Tree!CommitRemove(c)
  BY DEF Tree!Next, Tree!OpenCreate, Tree!OpenPromote, Tree!OpenRemove, Tree!OpenMove, Tree!Open, Tree!Walk,
         Tree!Rollback

\* A request that ends with a write.
LEMMA TreeCommits ==
  ASSUME TreeTyped, NEW c \in Sessions, NEW written, Tree!Leave(c, written), treeSession[c].step = "write"
  PROVE  Tree!Commits(c)
  BY DEF Tree!Leave, Tree!Commits, TreeTyped

LEMMA TreeLosesByRaces ==
  ASSUME TreeConstants, TreeInv, Tree!Next, Tree!EveryMinistryIsShown,
         \A c \in Sessions : Tree!Commits(c) => <<c, "move">> \notin raced
  PROVE  Tree!EveryMinistryIsShown'
  <1>1. TreeHasNoCycle(live, parent)
    BY TreeShowsAll
  <1>2. /\ live \subseteq Ministries /\ Top \notin live /\ Top \notin Ministries
        /\ \A m \in Ministries : parent[m] \in live \cup {Top} /\ (m \notin live => parent[m] = Top)
        /\ parent \in [Ministries -> Ministries \cup {Top}]
    BY DEF TreeInv, TreeTyped, TreeRows, TreeConstants
  <1>3. ASSUME NEW L \in SUBSET live', \A m \in L : parent'[m] \in L PROVE L = {}
    <2>1. CASE UNCHANGED <<live, parent>>
      BY <1>1, <1>3, <2>1 DEF TreeHasNoCycle
    <2>2. ASSUME NEW c \in Sessions, Tree!CommitCreate(c) PROVE L = {}
      <3> DEFINE x == treeSession[c].self
                 K == L \ {x}
      <3>1. /\ x \notin live /\ live' = live \cup {x} /\ parent' = [parent EXCEPT ![x] = treeSession[c].to]
            /\ treeSession[c].to \in live \cup {Top}
        BY <2>2 DEF Tree!CommitCreate
      <3>2. x \in Ministries
        BY <2>2, TreeRequest DEF TreeInv, Tree!CommitCreate
      <3> HIDE DEF x
      <3>3. \A m \in K : m \in live /\ parent'[m] = parent[m] /\ parent[m] \in L /\ parent[m] # x
        <4>1. ASSUME NEW m \in K PROVE m \in live /\ m \in Ministries /\ m # x /\ m \in L
          BY <1>2, <3>1
        <4>2. ASSUME NEW m \in K PROVE parent'[m] = parent[m] /\ parent[m] \in live \cup {Top}
          BY <1>2, <3>1, <4>1
        <4>3. QED
          BY <1>2, <1>3, <3>1, <3>2, <4>1, <4>2
      <3>4. K = {}
        BY <1>1, <3>3 DEF TreeHasNoCycle
      <3>5. x \notin L
        <4>1. parent'[x] = treeSession[c].to /\ treeSession[c].to # x
          BY <1>2, <3>1, <3>2
        <4>2. x \in L => treeSession[c].to \in K
          BY <1>3, <4>1
        <4>3. QED
          BY <3>4, <4>2
      <3>6. QED
        BY <3>4, <3>5
    <2>3. ASSUME NEW c \in Sessions, Tree!CommitRemove(c) PROVE L = {}
      <3>1. /\ live' = live \ {treeSession[c].self}
            /\ parent' = [m \in Ministries |-> IF treeSession[c].self \in {m, parent[m]} THEN Top ELSE parent[m]]
        BY <2>3 DEF Tree!CommitRemove
      <3>2. \A m \in L : m \in live /\ parent[m] \in L
        BY <1>2, <1>3, <3>1
      <3>3. QED
        BY <1>1, <3>2 DEF TreeHasNoCycle
    <2>4. ASSUME NEW c \in Sessions, Tree!CommitMove(c) PROVE L = {}
      <3> DEFINE r == treeSession[c]
      <3>1. /\ r.step = "write" /\ r.op = "move" /\ r.self \in live /\ r.to \in live \cup {Top} /\ live' = live
            /\ parent' = [parent EXCEPT ![r.self] = r.to] /\ Tree!Leave(c, {"move"})
        BY <2>4 DEF Tree!CommitMove
      <3>2. \A m \in L : m \in live /\ parent'[m] = IF m = r.self THEN r.to ELSE parent[m]
        BY <1>2, <3>1
      <3>3. CASE r.self \notin L
        <4>1. \A m \in L : m \in live /\ parent[m] \in L
          BY <1>3, <3>2, <3>3
        <4>2. QED
          BY <1>1, <4>1 DEF TreeHasNoCycle
      <3>4. CASE r.self \in L
        <4>1. r.to \in L /\ r.to # Top
          BY <1>2, <1>3, <3>2, <3>4
        <4>2. <<c, "move">> \notin raced
          BY <3>1, TreeCommits DEF TreeInv
        <4>3. TreeClimbed(r, live, parent) /\ TreeEdge(r) = {}
          BY <3>1, <4>1, <4>2 DEF TreeInv, TreeWalksHold, TreeClimbing, TreeEdge
        <4>4. PICK A \in SUBSET live : r.self \notin A /\ r.to \in A /\ \A m \in A : parent[m] \in A \cup {Top}
          BY <4>3 DEF TreeClimbed
        <4> DEFINE K == L \cap A
        <4>5. \A m \in K : parent[m] \in K
          BY <1>2, <1>3, <3>2, <4>4
        <4>6. K \in SUBSET live /\ r.to \in K
          BY <4>1, <4>4
        <4> HIDE DEF K
        <4>7. QED
          BY <1>1, <4>5, <4>6 DEF TreeHasNoCycle
      <3>5. QED
        BY <3>3, <3>4
    <2>5. QED
      BY <2>1, <2>2, <2>3, <2>4, TreeStays
  <1>4. TreeHasNoCycle(live', parent')
    BY <1>3 DEF TreeHasNoCycle
  <1>5. QED
    BY <1>4, TreeShowsAll

LEMMA TreeRootsByRemovalOrRace ==
  ASSUME TreeConstants, TreeInv, Tree!Next, Tree!Cardinality(Tree!Roots) <= 1,
         \A c \in Sessions : Tree!Commits(c) =>
           treeSession[c].op # "remove" /\ \A op \in Tree!AllHandlers : <<c, op>> \notin raced
  PROVE  Tree!Cardinality(Tree!Roots') <= 1
  <1>1. \A S : Tree!Cardinality(S) = Cardinality(S)
    BY DEF Tree!Cardinality, Cardinality
  <1>2. IsFiniteSet(Tree!Roots) /\ Cardinality(Tree!Roots) <= 1 /\ Cardinality(Tree!Roots) \in Nat
    <2>1. Tree!Roots \subseteq Ministries
      BY DEF TreeInv, TreeTyped, TreeRows, Tree!Roots
    <2>2. QED
      BY <1>1, <2>1, FS_Subset, FS_CardinalityType DEF TreeConstants
  <1>3. ASSUME NEW S \in SUBSET Tree!Roots, Tree!Roots' = S PROVE Cardinality(Tree!Roots') <= 1
    BY <1>2, <1>3, FS_Subset, FS_CardinalityType
  <1>4. ASSUME NEW x, Tree!Roots' \subseteq {x} PROVE Cardinality(Tree!Roots') <= 1
    <2>1. IsFiniteSet({x}) /\ Cardinality({x}) = 1
      BY FS_Singleton
    <2>2. Cardinality(Tree!Roots') <= Cardinality({x})
      BY <1>4, <2>1, FS_Subset
    <2>3. QED
      BY <2>1, <2>2
  <1>5. CASE UNCHANGED <<live, parent>>
    BY <1>3, <1>5 DEF Tree!Roots
  <1>6. ASSUME NEW c \in Sessions, Tree!CommitRemove(c) PROVE FALSE
    BY <1>6, TreeCommits DEF TreeInv, Tree!CommitRemove
  <1>7. ASSUME NEW c \in Sessions, Tree!CommitCreate(c) \/ Tree!CommitMove(c)
        PROVE  Cardinality(Tree!Roots') <= 1
    <2> DEFINE r == treeSession[c]
    <2>1. /\ r.step = "write" /\ r.op \in {"create", "move"} /\ live' = live \cup {r.self}
          /\ parent' = [parent EXCEPT ![r.self] = r.to] /\ r.self \in Ministries
      BY <1>7, TreeRequest DEF Tree!CommitCreate, Tree!CommitMove, TreeInv
    <2>2. \A op \in Tree!AllHandlers : <<c, op>> \notin raced
      BY <1>7, TreeCommits DEF TreeInv, Tree!CommitCreate, Tree!CommitMove
    <2>3. \A m \in live' : parent'[m] = IF m = r.self THEN r.to ELSE parent[m]
      BY <2>1 DEF TreeInv, TreeTyped, TreeRows
    <2>4. CASE r.to = Top
      <3>1. Tree!Roots \subseteq {r.self}
        BY <2>1, <2>2, <2>4 DEF TreeInv, TreeRootsHold, TreeRooting
      <3>2. Tree!Roots' \subseteq {r.self}
        BY <2>1, <2>3, <3>1 DEF Tree!Roots
      <3>3. QED
        BY <1>4, <3>2
    <2>5. CASE r.to # Top
      <3>1. Tree!Roots' \subseteq Tree!Roots
        BY <2>1, <2>3, <2>5 DEF Tree!Roots
      <3>2. QED
        BY <1>3, <3>1
    <2>6. QED
      BY <2>4, <2>5
  <1>8. QED
    BY <1>1, <1>5, <1>6, <1>7, TreeStays

\* However the checks and writes of moves, creations and removals interleave,
\* a ministry gets lost in a cycle only by a move that had another move commit
\* under its walk (update, ministries.service.ts).
THEOREM CyclesNeedRacingMoves == AllSpec => LostOnlyByRacingMoves
  <1>1. AllInit => TreeInv
    BY TreeInitHolds DEF AllInit
  <1>2. TreeInv /\ [AllNext]_allVars => TreeInv'
    BY TreeMovesAlone, TreeNextKeeps, TreeConstants
  <1>3. TreeInv /\ [AllNext]_allVars =>
          [Tree!EveryMinistryIsShown =>
             \/ Tree!EveryMinistryIsShown'
             \/ \E c \in Sessions : <<c, "move">> \in raced /\ Tree!Commits(c)]_(Tree!vars)
    BY TreeMovesAlone, TreeLosesByRaces, TreeConstants
  <1>4. QED
    BY <1>1, <1>2, <1>3, PTL DEF AllSpec, LostOnlyByRacingMoves, Tree!LostOnlyByRacingMoves

\* A second root appears only when a root loses its row and its children move
\* up, or by a request that had another write commit under its check
\* (assertNoRootExists, ministries.service.ts).
THEOREM SecondRootsNeedRemovalOrRace == AllSpec => SecondRootByRemovalOrRace
  <1>1. AllInit => TreeInv
    BY TreeInitHolds DEF AllInit
  <1>2. TreeInv /\ [AllNext]_allVars => TreeInv'
    BY TreeMovesAlone, TreeNextKeeps, TreeConstants
  <1>3. TreeInv /\ [AllNext]_allVars =>
          [Tree!Cardinality(Tree!Roots) <= 1 =>
             \/ Tree!Cardinality(Tree!Roots') <= 1
             \/ \E c \in Sessions :
                  Tree!Commits(c) /\ (treeSession[c].op = "remove"
                                        \/ \E op \in Tree!AllHandlers : <<c, op>> \in raced)]_(Tree!vars)
    BY TreeMovesAlone, TreeRootsByRemovalOrRace, TreeConstants
  <1>4. QED
    BY <1>1, <1>2, <1>3, PTL DEF AllSpec, SecondRootByRemovalOrRace, Tree!SecondRootByRemovalOrRace

=================================================================================
