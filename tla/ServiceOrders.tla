---------------------------- MODULE ServiceOrders ----------------------------
(***************************************************************************)
(* The instances of one day's celebrations: their status, their orders of  *)
(* service, what the volunteers are told when an order is published, and   *)
(* the reminder the scheduler sends to the hosts (celebrations/; how the   *)
(* scheduler makes instances is in Celebrations, the items of an order are *)
(* in OrderItems).                                                         *)
(*                                                                         *)
(* A request reads, checks, writes and commits at its end.  publish starts *)
(* a notice that nobody waits for, and that reads in the transaction of    *)
(* the request: what it has not read when the request commits, it never    *)
(* reads.  A push is an external call, and does not tell when it was       *)
(* refused.                                                                *)
(***************************************************************************)
EXTENDS Naturals, FiniteSets

CONSTANTS
  Instances,  \* instance ids: each is used once
  Sessions,   \* connections of the secretaries
  Runs,       \* reminder runs at a time: cron of a process, manual trigger
  MaxFaults   \* bound on failed requests, statements and crashes

VARIABLES
  instance,   \* [Instances -> committed row with its order, or NoRow, or Gone]
  request,    \* [Sessions -> open request on an order]
  notices,    \* instances whose volunteers are about to be told
  reminder,   \* [Runs -> sendHostReminders in progress]
  faults,     \* faults so far
  told,       \* history: instances whose volunteers were told
  pushes,     \* history: [Instances -> reminders pushed]
  undone      \* history: [Instances -> times a publish took a finalized
              \* instance back whose order was published before]

orderVars == <<instance, request, notices, reminder, faults, told, pushes, undone>>

NoRow == [row |-> "none"]
Gone  == [row |-> "deleted"]
Idle  == [op |-> "idle"]
Statuses == {"draft", "published", "finalized"}

Live(i) == instance[i].row = "live"

\* Rows, requests and runs are well formed.
TypeOK ==
  /\ instance \in [Instances -> {NoRow, Gone} \cup
       [row : {"live"}, status : Statuses, order : {"none", "draft", "published"}, reminded : BOOLEAN]]
  /\ request \in [Sessions -> {Idle} \cup [op : {"order", "publish", "written", "finalize"}, on : Instances]]
  /\ notices \subseteq Instances
  /\ reminder \in [Runs -> {Idle} \cup [op : {"push"}, left : SUBSET Instances]
                             \cup [op : {"mark"}, on : Instances, left : SUBSET Instances]]
  /\ faults \in Nat
  /\ told \subseteq Instances
  /\ pushes \in [Instances -> Nat]
  /\ undone \in [Instances -> Nat]

Init ==
  /\ instance = [i \in Instances |-> NoRow]
  /\ request = [c \in Sessions |-> Idle]
  /\ notices = {}
  /\ reminder = [r \in Runs |-> Idle]
  /\ faults = 0
  /\ told = {}
  /\ pushes = [i \in Instances |-> 0]
  /\ undone = [i \in Instances |-> 0]

\* A publish wrote the row and has not committed: other writers wait.
Locked(i) == \E c \in Sessions : request[c] = [op |-> "written", on |-> i]

-----------------------------------------------------------------------------
(* celebration-instances.service.ts, and the scheduler's new rows.          *)

Write(i, row) ==
  /\ instance' = [instance EXCEPT ![i] = row]
  /\ UNCHANGED <<request, notices, reminder, faults, told, pushes, undone>>

CreateInstance(i) ==
  /\ instance[i] = NoRow
  /\ Write(i, [row |-> "live", status |-> "draft", order |-> "none", reminded |-> FALSE])

\* Any status can be set.
UpdateInstance(i, status) ==
  /\ Live(i) /\ ~Locked(i)
  /\ Write(i, [instance[i] EXCEPT !.status = status])

\* Its order goes with it.
RemoveInstance(i) ==
  /\ Live(i) /\ ~Locked(i)
  /\ Write(i, Gone)

-----------------------------------------------------------------------------
(* service-orders.service.ts                                                *)

Open(c, op, i) ==
  /\ request[c] = Idle
  /\ request' = [request EXCEPT ![c] = [op |-> op, on |-> i]]
  /\ UNCHANGED <<instance, notices, reminder, faults, told, pushes, undone>>

OpenCreate(c, i) == Live(i) /\ instance[i].order = "none" /\ Open(c, "order", i)

OpenPublish(c, i)  == Live(i) /\ instance[i].order = "draft" /\ Open(c, "publish", i)
OpenFinalize(c, i) == Live(i) /\ instance[i].order = "published" /\ Open(c, "finalize", i)

Close(c, i, row) ==
  /\ request' = [request EXCEPT ![c] = Idle]
  /\ instance' = [instance EXCEPT ![i] = row]
  /\ UNCHANGED <<notices, reminder, faults, told, pushes>>

\* The unique index on the instance refuses a second order.
CommitCreate(c, i) ==
  /\ request[c] = [op |-> "order", on |-> i]
  /\ Live(i) /\ instance[i].order = "none"
  /\ Close(c, i, [instance[i] EXCEPT !.order = "draft"])
  /\ UNCHANGED undone

\* Instance and order are written, and the notice is started.
WritePublish(c, i) ==
  /\ request[c] = [op |-> "publish", on |-> i]
  /\ Live(i) /\ ~Locked(i)
  /\ request' = [request EXCEPT ![c].op = "written"]
  /\ UNCHANGED <<instance, notices, reminder, faults, told, pushes, undone>>

CommitPublish(c, i) ==
  /\ request[c] = [op |-> "written", on |-> i]
  /\ Close(c, i, [instance[i] EXCEPT !.status = "published", !.order = "published"])
  /\ undone' = [undone EXCEPT ![i] =
       IF instance[i].status = "finalized" /\ instance[i].order = "published" THEN @ + 1 ELSE @]

CommitFinalize(c, i) ==
  /\ request[c] = [op |-> "finalize", on |-> i]
  /\ Live(i) /\ ~Locked(i)
  /\ Close(c, i, [instance[i] EXCEPT !.status = "finalized"])
  /\ UNCHANGED undone

\* A statement or the commit fails, the request times out, or the process
\* dies.
Rollback(c) ==
  /\ request[c] # Idle /\ faults < MaxFaults
  /\ faults' = faults + 1
  /\ request' = [request EXCEPT ![c] = Idle]
  /\ UNCHANGED <<instance, notices, reminder, told, pushes, undone>>

\* A row another request removed or an order it made refuses the write.
Refused(c, i) ==
  /\ request[c] \in [op : {"order", "publish", "finalize"}, on : {i}]
  /\ Live(i) => request[c].op = "order" /\ instance[i].order # "none"
  /\ request' = [request EXCEPT ![c] = Idle]
  /\ UNCHANGED <<instance, notices, reminder, faults, told, pushes, undone>>

\* notifyOrderPublished has read everything before the request commits ...
ReadNotice(c, i) ==
  /\ request[c] = [op |-> "written", on |-> i]
  /\ notices' = notices \cup {i}
  /\ UNCHANGED <<instance, request, reminder, faults, told, pushes, undone>>

\* ... and calls the push service, before or after the commit.
Tell(i) ==
  /\ i \in notices
  /\ notices' = notices \ {i}
  /\ told' = told \cup {i}
  /\ UNCHANGED <<instance, request, reminder, faults, pushes, undone>>

-----------------------------------------------------------------------------
(* sendHostReminders, statement by statement.                               *)

Reminding(r, next) ==
  /\ reminder' = [reminder EXCEPT ![r] = next]
  /\ UNCHANGED <<request, notices, told, undone>>

DueReminder(i) == Live(i) /\ instance[i].status = "published" /\ ~instance[i].reminded

FindDue(r) ==
  /\ reminder[r] = Idle
  /\ \E i \in Instances : DueReminder(i)
  /\ Reminding(r, [op |-> "push", left |-> {i \in Instances : DueReminder(i)}])
  /\ UNCHANGED <<instance, faults, pushes>>

\* The rows come in no order.
Push(r, i) ==
  /\ reminder[r].op = "push" /\ i \in reminder[r].left
  /\ pushes' = [pushes EXCEPT ![i] = @ + 1]
  /\ Reminding(r, [op |-> "mark", on |-> i, left |-> reminder[r].left \ {i}])
  /\ UNCHANGED <<instance, faults>>

NextReminder(r) == Reminding(r, [op |-> "push", left |-> reminder[r].left])

\* Mutant: the mark is forgotten.
MarkNothing(r, i) ==
  /\ reminder[r].op = "mark" /\ i = reminder[r].on
  /\ Live(i) /\ ~Locked(i)
  /\ NextReminder(r)
  /\ UNCHANGED <<instance, faults, pushes>>

Mark(r, i) ==
  /\ reminder[r].op = "mark" /\ i = reminder[r].on
  /\ Live(i) /\ ~Locked(i)
  /\ instance' = [instance EXCEPT ![i].reminded = TRUE]
  /\ NextReminder(r)
  /\ UNCHANGED <<faults, pushes>>

\* The row is gone: the error is logged, and the next instance is taken.
MarkGone(r) ==
  /\ reminder[r].op = "mark" /\ ~Live(reminder[r].on)
  /\ NextReminder(r)
  /\ UNCHANGED <<instance, faults, pushes>>

RemindersEnd(r) ==
  /\ reminder[r] = [op |-> "push", left |-> {}]
  /\ Reminding(r, Idle)
  /\ UNCHANGED <<instance, faults, pushes>>

\* The dispatch is not recorded or the mark not written: the error is
\* logged, and the next run finds the instance again.
MarkFails(r) ==
  /\ reminder[r].op = "mark" /\ faults < MaxFaults
  /\ faults' = faults + 1
  /\ NextReminder(r)
  /\ UNCHANGED <<instance, pushes>>

\* The process dies.
Crash(r) ==
  /\ reminder[r] # Idle /\ faults < MaxFaults
  /\ faults' = faults + 1
  /\ Reminding(r, Idle)
  /\ UNCHANGED <<instance, pushes>>

-----------------------------------------------------------------------------
Next ==
  \/ \E i \in Instances :
       \/ CreateInstance(i)
       \/ \E status \in Statuses : UpdateInstance(i, status)
       \/ RemoveInstance(i)
       \/ Tell(i)
  \/ \E c \in Sessions, i \in Instances :
       \/ OpenCreate(c, i)
       \/ OpenPublish(c, i)
       \/ OpenFinalize(c, i)
       \/ CommitCreate(c, i)
       \/ WritePublish(c, i)
       \/ CommitPublish(c, i)
       \/ CommitFinalize(c, i)
       \/ Refused(c, i)
       \/ ReadNotice(c, i)
  \/ \E c \in Sessions : Rollback(c)
  \/ \E r \in Runs, i \in Instances : Push(r, i) \/ Mark(r, i)
  \/ \E r \in Runs :
       \/ FindDue(r)
       \/ MarkGone(r)
       \/ RemindersEnd(r)
       \/ MarkFails(r)
       \/ Crash(r)

Spec == Init /\ [][Next]_orderVars

-----------------------------------------------------------------------------
(* Properties.                                                              *)

\* A celebration that was published and finalized is taken back by a publish
\* only when that had read the order before another one published it: less
\* often than there are connections.
UndoneOnlyByOverlap == \A i \in Instances : undone[i] < Cardinality(Sessions)

\* Volunteers are told of an order that is published, is about to be, was
\* removed since, or whose request failed after the notice had read it.
ToldIsPublished ==
  \A i \in told \cup notices :
    instance[i] = Gone \/ Locked(i) \/ faults > 0 \/ (Live(i) /\ instance[i].order = "published")

\* An instance marked as reminded was pushed, and no instance is pushed
\* again once it is marked: the reminders of one are no more than the runs
\* that overlap and the failures.
RemindedIsPushed ==
  \A i \in Instances :
    /\ Live(i) /\ instance[i].reminded => pushes[i] > 0
    /\ pushes[i] <= Cardinality(Runs) + faults

\* What ServiceOrders checks of its states.
OrdersCohere == TypeOK /\ UndoneOnlyByOverlap /\ ToldIsPublished /\ RemindedIsPushed
==============================================================================
