--------------------------- MODULE VolunteerRoster ---------------------------
(***************************************************************************)
(* One service schedule: its slots, the assignments of volunteers to them, *)
(* the volunteers' answers and check-in, and the swap requests by which an *)
(* assignment changes hands (volunteers/schedules.service.ts and           *)
(* volunteers/swap-requests.service.ts).                                   *)
(*                                                                         *)
(* A handler is two steps, as everywhere in this system: it opens, reads   *)
(* committed rows and checks them, and later writes by id and commits.  An *)
(* element of Sessions is one client connection, which has at most one     *)
(* request open; with a single session the requests are sequential.        *)
(***************************************************************************)
EXTENDS Integers, FiniteSets

CONSTANTS
  Volunteers,    \* volunteer profiles of the congregation
  Candidates,    \* those in the schedule's ministry and available that day
  Slots,
  Required,      \* [Slots -> Nat]: required_count
  Assignments,   \* assignment ids, each used once
  Swaps,         \* swap request ids, each used once
  Sessions,
  Handlers       \* the handlers the sessions call

AllHandlers ==
  {"createSlot", "removeSlot", "createAssignment", "removeAssignment", "suggest", "publish",
   "removeSchedule", "respond", "checkIn", "swapCreate", "swapAccept", "swapReject", "swapCancel"}

ASSUME CandidatesAssumption == Candidates \subseteq Volunteers
ASSUME RequiredAssumption == Required \in [Slots -> Nat]
ASSUME HandlersAssumption == Handlers \subseteq AllHandlers

VARIABLES
  schedule,   \* "draft", "published" or "deleted"
  slot,       \* [Slots -> "absent", "live" or "removed"]
  asg,        \* [Assignments -> assignment row, or NoRow before its creation]
  checkedIn,  \* assignments with checked_in_at set
  notified,   \* assignments whose volunteer was told of the schedule at publish
  swap,       \* [Swaps -> swap request row, or NoRow]
  session     \* the open request of each session, with what it has read

vars == <<schedule, slot, asg, checkedIn, notified, swap, session>>
tables == <<schedule, slot, asg, checkedIn, notified, swap>>

NoRow == [status |-> "none"]
Idle  == [op |-> "idle"]

\* Rows go with their parent (ON DELETE CASCADE), so a row is live when it
\* and its parents are.
LiveSlot(sl) == schedule # "deleted" /\ slot[sl] = "live"
LiveAsg(a) ==
  asg[a].status \notin {"none", "removed"} /\ LiveSlot(asg[a].slot)
LiveSwap(s) == swap[s].status # "none" /\ LiveAsg(swap[s].asg)

InSlot(sl) == {a \in Assignments : LiveAsg(a) /\ asg[a].slot = sl}
Assigned   == {asg[a].holder : a \in {b \in Assignments : LiveAsg(b)}}

PendingSwaps(a) == {s \in Swaps : LiveSwap(s) /\ swap[s].status = "pending" /\ swap[s].asg = a}

\* Rows are well formed; a swap request has no status but the enum's four.
TypeOK ==
  /\ schedule \in {"draft", "published", "deleted"}
  /\ slot \in [Slots -> {"absent", "live", "removed"}]
  /\ \A a \in Assignments :
       asg[a] = NoRow \/
       asg[a] \in [slot : Slots, holder : Volunteers,
                   status : {"pending", "confirmed", "declined", "removed"}]
  /\ checkedIn \subseteq Assignments /\ notified \subseteq Assignments
  /\ \A s \in Swaps :
       swap[s] = NoRow \/
       swap[s] \in [asg : Assignments, requester : Volunteers,
                    substitute : SUBSET Volunteers,
                    status : {"pending", "accepted", "rejected", "cancelled"}]
  /\ \A c \in Sessions : session[c].op \in Handlers \cup {"idle"}

-----------------------------------------------------------------------------
\* A schedule being drafted, with some slots and answers already there.
Init ==
  /\ schedule = "draft"
  /\ slot \in [Slots -> {"absent", "live"}]
  /\ asg \in [Assignments -> {NoRow} \cup
                [slot : {sl \in Slots : slot[sl] = "live"}, holder : Volunteers,
                 status : {"pending", "confirmed"}]]
  /\ \A a, b \in Assignments :
       (a # b /\ asg[a] # NoRow /\ asg[b] # NoRow) =>
         <<asg[a].slot, asg[a].holder>> # <<asg[b].slot, asg[b].holder>>
  /\ checkedIn = {}
  /\ notified = {}
  /\ swap = [s \in Swaps |-> NoRow]
  /\ session = [c \in Sessions |-> Idle]

Open(c, request) ==
  /\ session[c] = Idle
  /\ request.op \in Handlers
  /\ session' = [session EXCEPT ![c] = request]
  /\ UNCHANGED tables

Commit(c, op) ==
  /\ session[c].op = op
  /\ session' = [session EXCEPT ![c] = Idle]

\* The transaction fails and leaves nothing: a row is gone, a constraint is
\* violated, the connection breaks or times out.  publish has already handed
\* its notifications to the push service by then.
Rollback(c) ==
  /\ session[c] # Idle
  /\ session' = [session EXCEPT ![c] = Idle]
  /\ \/ UNCHANGED notified
     \/ session[c].op = "publish" /\ notified' = notified \cup session[c].told
  /\ UNCHANGED <<schedule, slot, asg, checkedIn, swap>>

-----------------------------------------------------------------------------
(* Drafting: every handler requires a draft schedule when it opens.         *)

RequireDraft == schedule = "draft"

OpenCreateSlot(c, sl) ==
  RequireDraft /\ slot[sl] = "absent" /\ Open(c, [op |-> "createSlot", slot |-> sl])

CommitCreateSlot(c) ==
  LET sl == session[c].slot
  IN  /\ Commit(c, "createSlot")
      /\ schedule # "deleted" /\ slot[sl] = "absent"
      /\ slot' = [slot EXCEPT ![sl] = "live"]
      /\ UNCHANGED <<schedule, asg, checkedIn, notified, swap>>

OpenRemoveSlot(c, sl) ==
  RequireDraft /\ LiveSlot(sl) /\ Open(c, [op |-> "removeSlot", slot |-> sl])

CommitRemoveSlot(c) ==
  LET sl == session[c].slot
  IN  /\ Commit(c, "removeSlot")
      /\ LiveSlot(sl)
      /\ slot' = [slot EXCEPT ![sl] = "removed"]
      /\ UNCHANGED <<schedule, asg, checkedIn, notified, swap>>

OpenCreateAssignment(c, sl, v) ==
  RequireDraft /\ LiveSlot(sl)
    /\ Open(c, [op |-> "createAssignment", slot |-> sl, holder |-> v])

NewAsg(sl, v) == [slot |-> sl, holder |-> v, status |-> "pending"]

\* Mutant: the unique index on slot and volunteer is missing.
CommitCreateAssignmentTwice(c) ==
  LET sl == session[c].slot
      v  == session[c].holder
  IN  /\ Commit(c, "createAssignment")
      /\ LiveSlot(sl)
      /\ \E a \in Assignments : asg[a] = NoRow /\ asg' = [asg EXCEPT ![a] = NewAsg(sl, v)]
      /\ UNCHANGED <<schedule, slot, checkedIn, notified, swap>>

CommitCreateAssignment(c) ==
  LET sl == session[c].slot
      v  == session[c].holder
  IN  /\ Commit(c, "createAssignment")
      /\ LiveSlot(sl) /\ \A a \in InSlot(sl) : asg[a].holder # v
      /\ \E a \in Assignments : asg[a] = NoRow /\ asg' = [asg EXCEPT ![a] = NewAsg(sl, v)]
      /\ UNCHANGED <<schedule, slot, checkedIn, notified, swap>>

\* Mutant: an assignment is removed whatever the schedule's status.
OpenRemoveAssignmentAnytime(c, a) ==
  LiveAsg(a) /\ Open(c, [op |-> "removeAssignment", asg |-> a])

OpenRemoveAssignment(c, a) ==
  RequireDraft /\ LiveAsg(a) /\ Open(c, [op |-> "removeAssignment", asg |-> a])

CommitRemoveAssignment(c) ==
  LET a == session[c].asg
  IN  /\ Commit(c, "removeAssignment")
      /\ LiveAsg(a)
      /\ asg' = [asg EXCEPT ![a].status = "removed"]
      /\ UNCHANGED <<schedule, slot, checkedIn, notified, swap>>

\* What the greedy loop can pick: slots are filled one after the other, in
\* an order the query does not fix, until nobody is left.
Need(sl) == Required[sl] - Cardinality(InSlot(sl))

IsGreedy(picks, pool) ==
  LET got(sl) == Cardinality({p \in picks : p[1] = sl})
      open    == {sl \in Slots : LiveSlot(sl) /\ Need(sl) > 0}
  IN  /\ \A p, q \in picks : p[2] = q[2] => p = q
      /\ \A p \in picks : p[1] \in open
      /\ \A sl \in open : got(sl) <= Need(sl)
      /\ (\E sl \in open : got(sl) < Need(sl)) => Cardinality(picks) = Cardinality(pool)
      /\ Cardinality({sl \in open : got(sl) \in 1..(Need(sl) - 1)}) <= 1

\* Mutant: volunteers who are already in the schedule stay in the pool.
OpenSuggestAnybody(c) ==
  /\ RequireDraft
  /\ \E picks \in SUBSET (Slots \X Candidates) :
       IsGreedy(picks, Candidates) /\ Open(c, [op |-> "suggest", picks |-> picks])

OpenSuggest(c) ==
  LET pool == Candidates \ Assigned
  IN  /\ RequireDraft
      /\ \E picks \in SUBSET (Slots \X pool) :
           IsGreedy(picks, pool) /\ Open(c, [op |-> "suggest", picks |-> picks])

\* createMany with skipDuplicates, one per slot.
CommitSuggest(c) ==
  LET fresh == {p \in session[c].picks : \A a \in InSlot(p[1]) : asg[a].holder # p[2]}
  IN  /\ Commit(c, "suggest")
      /\ \A p \in session[c].picks : LiveSlot(p[1])
      /\ \E ids \in SUBSET {a \in Assignments : asg[a] = NoRow} :
           /\ Cardinality(ids) = Cardinality(fresh)
           /\ \E row \in [ids -> fresh] :
                /\ \A a, b \in ids : row[a] = row[b] => a = b
                /\ asg' = [a \in Assignments |->
                             IF a \in ids THEN NewAsg(row[a][1], row[a][2]) ELSE asg[a]]
      /\ UNCHANGED <<schedule, slot, checkedIn, notified, swap>>

\* publish reads the pending assignments, updates the schedule and notifies
\* the volunteers it read.
OpenPublish(c) ==
  RequireDraft /\ Open(c, [op |-> "publish",
                           told |-> {a \in Assignments : LiveAsg(a) /\ asg[a].status = "pending"}])

CommitPublish(c) ==
  /\ Commit(c, "publish")
  /\ schedule # "deleted"
  /\ schedule' = "published"
  /\ notified' = notified \cup session[c].told
  /\ UNCHANGED <<slot, asg, checkedIn, swap>>

OpenRemoveSchedule(c) == RequireDraft /\ Open(c, [op |-> "removeSchedule"])

CommitRemoveSchedule(c) ==
  /\ Commit(c, "removeSchedule")
  /\ schedule # "deleted"
  /\ schedule' = "deleted"
  /\ UNCHANGED <<slot, asg, checkedIn, notified, swap>>

-----------------------------------------------------------------------------
(* The volunteer's answer, and check-in by token.                           *)

\* Mutant: the ownership guard is dropped.
OpenRespondAnyone(c, a, v, to) ==
  /\ LiveAsg(a) /\ asg[a].status = "pending"
  /\ Open(c, [op |-> "respond", asg |-> a, actor |-> v, to |-> to])

\* The deadline can only refuse, and a refused request changes nothing.
OpenRespond(c, a, v, to) ==
  /\ LiveAsg(a) /\ asg[a].status = "pending" /\ asg[a].holder = v
  /\ Open(c, [op |-> "respond", asg |-> a, actor |-> v, to |-> to])

CommitRespond(c) ==
  LET a == session[c].asg
  IN  /\ Commit(c, "respond")
      /\ LiveAsg(a)
      /\ asg' = [asg EXCEPT ![a].status = session[c].to]
      /\ UNCHANGED <<schedule, slot, checkedIn, notified, swap>>

OpenCheckIn(c, a) ==
  /\ LiveAsg(a) /\ asg[a].status = "confirmed" /\ a \notin checkedIn
  /\ Open(c, [op |-> "checkIn", asg |-> a])

CommitCheckIn(c) ==
  LET a == session[c].asg
  IN  /\ Commit(c, "checkIn")
      /\ LiveAsg(a)
      /\ checkedIn' = checkedIn \cup {a}
      /\ UNCHANGED <<schedule, slot, asg, notified, swap>>

-----------------------------------------------------------------------------
(* Swap requests.                                                           *)

OpenSwapCreate(c, a, v) ==
  /\ LiveAsg(a) /\ asg[a].holder = v /\ asg[a].status = "confirmed"
  /\ PendingSwaps(a) = {}
  /\ Open(c, [op |-> "swapCreate", asg |-> a, actor |-> v])

CommitSwapCreate(c) ==
  LET row == [asg |-> session[c].asg, requester |-> session[c].actor,
              substitute |-> {}, status |-> "pending"]
  IN  /\ Commit(c, "swapCreate")
      /\ LiveAsg(session[c].asg)
      /\ \E s \in Swaps : swap[s] = NoRow /\ swap' = [swap EXCEPT ![s] = row]
      /\ UNCHANGED <<schedule, slot, asg, checkedIn, notified>>

OpenSwapAccept(c, s, v) ==
  /\ LiveSwap(s) /\ swap[s].status = "pending" /\ swap[s].requester # v
  /\ \A a \in InSlot(asg[swap[s].asg].slot) : asg[a].holder # v
  /\ Open(c, [op |-> "swapAccept", swap |-> s, actor |-> v])

\* Mutant: the status is written, the substitute is not.
CommitSwapAcceptAnonymous(c) ==
  LET s == session[c].swap
      v == session[c].actor
      a == swap[s].asg
  IN  /\ Commit(c, "swapAccept")
      /\ LiveSwap(s) /\ \A b \in InSlot(asg[a].slot) \ {a} : asg[b].holder # v
      /\ asg' = [asg EXCEPT ![a].holder = v]
      /\ swap' = [swap EXCEPT ![s].status = "accepted"]
      /\ UNCHANGED <<schedule, slot, checkedIn, notified>>

\* Mutant: the assignment stays with the requester.
CommitSwapAcceptKeep(c) ==
  LET s == session[c].swap
      v == session[c].actor
      a == swap[s].asg
  IN  /\ Commit(c, "swapAccept")
      /\ LiveSwap(s) /\ \A b \in InSlot(asg[a].slot) \ {a} : asg[b].holder # v
      /\ swap' = [swap EXCEPT ![s].status = "accepted", ![s].substitute = {v}]
      /\ UNCHANGED <<schedule, slot, asg, checkedIn, notified>>

\* One transaction for both rows; the unique index refuses a substitute who
\* meanwhile got another assignment in the slot.
CommitSwapAccept(c) ==
  LET s == session[c].swap
      v == session[c].actor
      a == swap[s].asg
  IN  /\ Commit(c, "swapAccept")
      /\ LiveSwap(s) /\ \A b \in InSlot(asg[a].slot) \ {a} : asg[b].holder # v
      /\ asg' = [asg EXCEPT ![a].holder = v]
      /\ swap' = [swap EXCEPT ![s].status = "accepted", ![s].substitute = {v}]
      /\ UNCHANGED <<schedule, slot, checkedIn, notified>>

\* Any volunteer of the congregation may reject.
OpenSwapReject(c, s) ==
  /\ LiveSwap(s) /\ swap[s].status = "pending"
  /\ Open(c, [op |-> "swapReject", swap |-> s, to |-> "rejected"])

\* Mutant: cancel does not look at the status.
OpenSwapCancelLate(c, s) ==
  LiveSwap(s) /\ Open(c, [op |-> "swapCancel", swap |-> s, to |-> "cancelled"])

\* The requester cancels.
OpenSwapCancel(c, s) ==
  /\ LiveSwap(s) /\ swap[s].status = "pending"
  /\ Open(c, [op |-> "swapCancel", swap |-> s, to |-> "cancelled"])

CommitSwapStatus(c, op) ==
  LET s == session[c].swap
  IN  /\ op \in {"swapReject", "swapCancel"} /\ Commit(c, op)
      /\ LiveSwap(s)
      /\ swap' = [swap EXCEPT ![s].status = session[c].to]
      /\ UNCHANGED <<schedule, slot, asg, checkedIn, notified>>

-----------------------------------------------------------------------------
Opens(c) ==
  \/ \E sl \in Slots : OpenCreateSlot(c, sl) \/ OpenRemoveSlot(c, sl)
  \/ \E sl \in Slots, v \in Volunteers : OpenCreateAssignment(c, sl, v)
  \/ \E a \in Assignments : OpenRemoveAssignment(c, a) \/ OpenCheckIn(c, a)
  \/ OpenSuggest(c)
  \/ OpenPublish(c)
  \/ OpenRemoveSchedule(c)
  \/ \E a \in Assignments, v \in Volunteers, to \in {"confirmed", "declined"} :
       OpenRespond(c, a, v, to)
  \/ \E a \in Assignments, v \in Volunteers : OpenSwapCreate(c, a, v)
  \/ \E s \in Swaps, v \in Volunteers : OpenSwapAccept(c, s, v)
  \/ \E s \in Swaps : OpenSwapReject(c, s) \/ OpenSwapCancel(c, s)

Commits(c) ==
  \/ CommitCreateSlot(c)
  \/ CommitRemoveSlot(c)
  \/ CommitCreateAssignment(c)
  \/ CommitRemoveAssignment(c)
  \/ CommitSuggest(c)
  \/ CommitPublish(c)
  \/ CommitRemoveSchedule(c)
  \/ CommitRespond(c)
  \/ CommitCheckIn(c)
  \/ CommitSwapCreate(c)
  \/ CommitSwapAccept(c)
  \/ \E op \in {"swapReject", "swapCancel"} : CommitSwapStatus(c, op)

Next == \E c \in Sessions : Opens(c) \/ Commits(c) \/ Rollback(c)

Spec == Init /\ [][Next]_vars

-----------------------------------------------------------------------------
(* Properties that hold however requests interleave.                        *)

\* A volunteer has one assignment per slot, although suggest, create and
\* accept check for it in steps of their own.
OneSeatPerSlot ==
  \A a, b \in Assignments :
    (a # b /\ LiveAsg(a) /\ LiveAsg(b) /\ asg[a].slot = asg[b].slot)
      => asg[a].holder # asg[b].holder

\* A recorded substitute never is the volunteer who asked to be replaced.
SubstituteIsSomebodyElse ==
  \A s \in Swaps : swap[s] # NoRow =>
    /\ swap[s].requester \notin swap[s].substitute
    /\ swap[s].status = "accepted" => swap[s].substitute # {}

\* An assignment changes hands only to a volunteer whom a swap request of
\* that assignment names as substitute: no race of accepts, cancels and
\* removals leaves it with somebody no request accounts for.
HandoverIsRecorded ==
  [][\A a \in Assignments :
       (LiveAsg(a) /\ LiveAsg(a)' /\ asg'[a].holder # asg[a].holder) =>
         \E s \in Swaps : swap'[s] # NoRow /\ swap'[s].asg = a
                          /\ swap'[s].substitute = {asg'[a].holder}]_vars

\* No open request has read the swap request while it was pending.
Resolved(s) ==
  /\ LiveSwap(s) /\ swap[s].status # "pending"
  /\ \A c \in Sessions :
       session[c].op \in {"swapAccept", "swapReject", "swapCancel"} => session[c].swap # s

\* Once a swap request is resolved and the requests that saw it pending are
\* over, its row never changes again.
ResolvedStaysResolved ==
  [][\A s \in Swaps : Resolved(s) => swap'[s] = swap[s] /\ (LiveSwap(s)' => Resolved(s)')]_vars

-----------------------------------------------------------------------------
(* Properties of sequential requests.  Interleaved ones break them: the     *)
(* checks are made on rows that may have changed when the write comes.      *)

\* An assignment has at most one pending swap request.
OnePendingSwap == \A a \in Assignments : Cardinality(PendingSwaps(a)) <= 1

\* A pending request was made by the volunteer who holds the assignment,
\* whatever chain of swaps it went through.
PendingSwapIsHolders ==
  \A s \in Swaps : (LiveSwap(s) /\ swap[s].status = "pending") =>
    /\ asg[swap[s].asg].holder = swap[s].requester
    /\ asg[swap[s].asg].status = "confirmed"

\* An accepted request tells who holds the assignment, unless its substitute
\* passed it on by a request of his own.
AcceptedSwapTells ==
  \A s \in Swaps : (LiveSwap(s) /\ swap[s].status = "accepted") =>
    \/ swap[s].substitute = {asg[swap[s].asg].holder}
    \/ \E t \in Swaps \ {s} : /\ swap[t] # NoRow /\ swap[t].status = "accepted"
                              /\ swap[t].asg = swap[s].asg
                              /\ swap[s].substitute = {swap[t].requester}

\* Everybody who has yet to answer for a published schedule was notified.
PublishedMeansNotified ==
  schedule = "published" =>
    \A a \in Assignments : (LiveAsg(a) /\ asg[a].status = "pending") => a \in notified

\* Somebody who has checked in has not declined.
CheckedInIsConfirmed ==
  \A a \in checkedIn : LiveAsg(a) => asg[a].status = "confirmed"

\* The line-up of a published schedule is fixed: slots and assignments are
\* added and removed in draft only ("A escala precisa estar em draft").
LineUpFixedOncePublished ==
  [][schedule = "published" =>
       /\ slot' = slot
       /\ \A a \in Assignments : LiveAsg(a)' = LiveAsg(a)]_vars

\* suggest never gives a second assignment to somebody the schedule has
\* ("prevent double-booking across slots").
SuggestNeverDoubleBooks ==
  [][\A c \in Sessions : (session[c].op = "suggest" /\ asg' # asg) =>
       \A a, b \in Assignments :
         (asg[a] = NoRow /\ asg'[a] # NoRow /\ b # a /\ LiveAsg(b)')
           => asg'[b].holder # asg'[a].holder]_vars

\* An answer is the answer of the volunteer who holds the assignment when
\* it takes effect ("volunteer can only respond to their own assignment"),
\* and is given once ("já foi respondida").
AnsweredOnceByTheHolder ==
  [][\A a \in Assignments :
       (LiveAsg(a) /\ LiveAsg(a)' /\ asg'[a].status # asg[a].status) =>
         /\ asg[a].status = "pending"
         /\ \E c \in Sessions : session[c].op = "respond" /\ session'[c] = Idle
                               /\ session[c].actor = asg[a].holder]_vars

\* What VolunteerRoster checks of its states when requests are sequential,
RosterCoheres ==
  /\ TypeOK
  /\ OnePendingSwap
  /\ PendingSwapIsHolders
  /\ AcceptedSwapTells
  /\ PublishedMeansNotified
  /\ CheckedInIsConfirmed

\* and when they interleave.
SeatsCohere == TypeOK /\ OneSeatPerSlot /\ SubstituteIsSomebodyElse
==============================================================================
