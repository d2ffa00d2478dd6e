--------------------------- MODULE RecurringRules ----------------------------
(***************************************************************************)
(* One recurring rule, the ledger rows it produces, the nightly cron that  *)
(* adds the next one, and the requests that stop the rule or detach and    *)
(* delete its rows (financial/recurring-rules, and transactions.service.ts *)
(* for the requests without a scope).                                      *)
(*                                                                         *)
(* A date is 32 * month + day; the calendar is a table of month lengths.   *)
(* Amounts and texts are left out, and so is updateTransaction with        *)
(* this_and_future, which changes nothing else.                            *)
(***************************************************************************)
EXTENDS Integers, FiniteSets

CONSTANTS
  Rows,        \* transaction ids, numbers: each is used once, in their order
  MonthLen,    \* [months -> days]: the calendar
  Starts,      \* start dates a rule can be created with
  Moves,       \* dates an edit can move a row to
  Counts,      \* numbers of installments
  Clock,       \* instants of the clock, in the order of their numbers
  Sessions,    \* client connections
  Handlers,    \* the requests they make
  MaxFaults    \* bound on crashes and failed statements of the cron

AllHandlers == {"create", "deactivate", "move", "detach", "delete", "deleteFuture", "pay", "unpay",
                "confirm"}

ASSUME RowsAssumption == Rows \subseteq Nat
ASSUME HandlersAssumption == Handlers \subseteq AllHandlers
ASSUME MaxFaultsAssumption == MaxFaults \in Nat

VARIABLES
  rule,      \* committed recurring_rules row
  tx,        \* [Rows -> committed transaction row, or NoRow]
  now,       \* the clock
  cron,      \* generateDueTransactions in progress
  session,   \* [Sessions -> open request and what it has read]
  faults,    \* faults so far
  made,      \* history: dates of the rows the rule produced
  cut        \* history: date from which the future was deleted, or 0 when it was
             \* not, or when somebody has moved a row or made it pending since

vars == <<rule, tx, now, cron, session, faults, made, cut>>

NoRow  == [row |-> "none"]
Gone   == [row |-> "deleted"]
Idle   == [op |-> "idle"]
Asleep == [step |-> "asleep"]

Live(t)   == tx[t].row = "live"
Linked(t) == Live(t) /\ tx[t].linked

Dates == 0..(32 * Cardinality(DOMAIN MonthLen))

\* A month has 28 to 31 days, and the calendar goes on for as long as a rule
\* of these starts and counts, or the clock, may reach.
ASSUME CalendarAssumption ==
  /\ IsFiniteSet(DOMAIN MonthLen) /\ DOMAIN MonthLen # {}
  /\ MonthLen \in [0..(Cardinality(DOMAIN MonthLen) - 1) -> 28..31]
ASSUME HorizonAssumption ==
  /\ \A start \in Starts, n \in Counts \cup {2} :
       start \in Nat /\ n \in Nat \ {0} /\ (start \div 32) + n \in DOMAIN MonthLen
  /\ \A time \in Clock : time \in Nat /\ (time \div 32) + 2 \in DOMAIN MonthLen
  /\ Moves \subseteq Dates

\* Rows, rule and cron are well formed, and all dates are in the calendar.
TypeOK ==
  /\ rule \in [mode : {"none", "fixed", "installment"}, monthly : BOOLEAN, installments : Counts \cup {0},
                next : Dates, active : BOOLEAN]
  /\ \A t \in Rows :
       \/ tx[t] \in {NoRow, Gone}
       \/ tx[t] \in [row : {"live"}, at : Dates, linked : BOOLEAN,
                     status : {"pending", "paid", "confirmed"}]
  /\ now \in Clock
  /\ cron = Asleep \/ cron \in [step : {"rule"}]
       \/ cron \in [step : {"last", "write"}, next : Dates]
  /\ \A c \in Sessions : session[c].op \in Handlers \cup {"idle", "deleting"}
  /\ faults \in 0..MaxFaults
  /\ made \subseteq Dates
  /\ cut \in Dates

-----------------------------------------------------------------------------
\* addMonths: setMonth keeps the day, and a day the month does not have runs
\* over into the next one.
AddMonths(date, k) ==
  LET month == date \div 32 + k
      day   == date % 32
  IN  IF day <= MonthLen[month] THEN 32 * month + day
                                ELSE 32 * (month + 1) + day - MonthLen[month]

NewRow(date) == [row |-> "live", at |-> date, linked |-> TRUE, status |-> "pending"]

\* Insert one row for each of the dates, with the next free ids.
Insert(dates) ==
  LET free  == {t \in Rows : tx[t] = NoRow}
      ids   == {t \in free : Cardinality({u \in free : u < t}) < Cardinality(dates)}
      date(t) == CHOOSE d \in dates :
                   Cardinality({e \in dates : e < d}) = Cardinality({u \in ids : u < t})
  IN  /\ Cardinality(ids) = Cardinality(dates)
      /\ tx' = [t \in Rows |-> IF t \in ids THEN NewRow(date(t)) ELSE tx[t]]

Init ==
  /\ rule = [mode |-> "none", monthly |-> TRUE, installments |-> 0, next |-> 0, active |-> FALSE]
  /\ tx = [t \in Rows |-> NoRow]
  /\ now \in Clock /\ \A other \in Clock : now <= other
  /\ cron = Asleep
  /\ session = [c \in Sessions |-> Idle]
  /\ faults = 0
  /\ made = {}
  /\ cut = 0

TimePasses ==
  /\ \E later \in Clock : later > now /\ now' = later
  /\ UNCHANGED <<rule, tx, cron, session, faults, made, cut>>

-----------------------------------------------------------------------------
(* create: the rule and its first rows, in one transaction.  A frequency of *)
(* weekly or yearly is stored; the dates are monthly all the same.          *)

InstallmentDates(start, n) == {AddMonths(start, i - 1) : i \in 1..n}

CreateInstallments(c, start, n, monthly) ==
  LET dates == InstallmentDates(start, n)
  IN  /\ "create" \in Handlers /\ session[c] = Idle /\ rule.mode = "none"
      /\ rule' = [mode |-> "installment", monthly |-> monthly, installments |-> n,
                   next |-> AddMonths(start, n - 1), active |-> TRUE]
      /\ Insert(dates)
      /\ made' = dates
      /\ UNCHANGED <<now, cron, session, faults, cut>>

CreateFixed(c, start, monthly) ==
  /\ "create" \in Handlers /\ session[c] = Idle /\ rule.mode = "none"
  /\ rule' = [mode |-> "fixed", monthly |-> monthly, installments |-> 0,
               next |-> AddMonths(start, 1), active |-> TRUE]
  /\ Insert({start})
  /\ made' = {start}
  /\ UNCHANGED <<now, cron, session, faults, cut>>

-----------------------------------------------------------------------------
(* The requests that read before they write.                                *)

Open(c, request) ==
  /\ request.op \in Handlers /\ session[c] = Idle
  /\ session' = [session EXCEPT ![c] = request]
  /\ UNCHANGED <<rule, tx, now, cron, faults, made, cut>>

OpenDeactivate(c) == rule.mode # "none" /\ Open(c, [op |-> "deactivate"])

\* loadEditableTransaction, and the same check in transactions.service.ts.
Editable(t) == Live(t) /\ tx[t].status # "confirmed"

\* An edit without a scope moves the row, one of scope "this" detaches it.
OpenEdit(c, t, op) ==
  op \in {"detach", "delete"} /\ Editable(t) /\ Open(c, [op |-> op, tx |-> t])
OpenMove(c, t, date) ==
  Editable(t) /\ Open(c, [op |-> "move", tx |-> t, at |-> date])
OpenDeleteFuture(c, t) ==
  Editable(t) /\ tx[t].linked /\ Open(c, [op |-> "deleteFuture", from |-> tx[t].at])

Commit(c, op) ==
  /\ session[c].op = op
  /\ session' = [session EXCEPT ![c] = Idle]
  /\ UNCHANGED <<now, cron, faults, made>>

CommitDeactivate(c) ==
  /\ Commit(c, "deactivate")
  /\ rule' = [rule EXCEPT !.active = FALSE]
  /\ UNCHANGED <<tx, cut>>

\* Rows another request has deleted and not committed: writers wait for it.
Locked(t) == \E c \in Sessions : session[c].op = "deleting" /\ t \in session[c].hit

CommitEdit(c, op, row) ==
  /\ Commit(c, op)
  /\ Live(session[c].tx) /\ ~Locked(session[c].tx)
  /\ tx' = [tx EXCEPT ![session[c].tx] = row]
  /\ cut' = IF op = "move" THEN 0 ELSE cut
  /\ UNCHANGED rule

CommitDetach(c) ==
  LET t == session[c].tx IN CommitEdit(c, "detach", [tx[t] EXCEPT !.linked = FALSE])
CommitMove(c) ==
  LET t == session[c].tx IN CommitEdit(c, "move", [tx[t] EXCEPT !.at = session[c].at])

CommitDelete(c) == CommitEdit(c, "delete", Gone)

\* The deleteMany of this_and_future.  Nobody sees its effect before the
\* commit, and it does not see what is inserted after it.
DeletedBy(c) ==
  {t \in Rows : Linked(t) /\ tx[t].status = "pending" /\ tx[t].at >= session[c].from}

DeleteRows(c) ==
  /\ session[c].op = "deleteFuture"
  /\ \A t \in DeletedBy(c) : ~Locked(t)
  /\ session' = [session EXCEPT ![c] = [op |-> "deleting", from |-> session[c].from,
                                          hit |-> DeletedBy(c), seen |-> tx]]
  /\ UNCHANGED <<rule, tx, now, cron, faults, made, cut>>

\* A generation or an edit that committed between the two statements, and a
\* generation that has read the rule by now, are not stopped any more: such
\* a deletion is not recorded.
Cut(c) ==
  IF cron.step \in {"last", "write"} \/ tx # session[c].seen THEN cut ELSE session[c].from

\* Mutant: the rule stays active.
CommitDeleteFutureOnly(c) ==
  /\ Commit(c, "deleting")
  /\ tx' = [t \in Rows |-> IF t \in session[c].hit THEN Gone ELSE tx[t]]
  /\ cut' = Cut(c)
  /\ UNCHANGED rule

CommitDeleteFuture(c) ==
  /\ Commit(c, "deleting")
  /\ tx' = [t \in Rows |-> IF t \in session[c].hit THEN Gone ELSE tx[t]]
  /\ rule' = [rule EXCEPT !.active = FALSE]
  /\ cut' = Cut(c)

Rollback(c) ==
  /\ session[c] # Idle
  /\ session' = [session EXCEPT ![c] = Idle]
  /\ UNCHANGED <<rule, tx, now, cron, faults, made, cut>>

\* updateStatus and the export that confirms (see FinancialLedger), whole.
SetStatus(t, from, to, op) ==
  /\ op \in Handlers /\ Live(t) /\ ~Locked(t) /\ tx[t].status = from
  /\ tx' = [tx EXCEPT ![t].status = to]
  /\ cut' = IF to = "pending" THEN 0 ELSE cut
  /\ UNCHANGED <<rule, now, cron, session, faults, made>>

-----------------------------------------------------------------------------
(* generateDueTransactions and generateNext, with the system client.        *)

Goto(next) ==
  /\ cron' = next
  /\ UNCHANGED <<now, session, faults, cut>>

FindDue ==
  /\ cron = Asleep
  /\ rule.mode = "fixed" /\ rule.monthly /\ rule.active /\ rule.next <= now
  /\ Goto([step |-> "rule"])
  /\ UNCHANGED <<rule, tx, made>>

\* Mutant: whether the rule is still active is not looked at again.
ReadRuleAnyway ==
  /\ cron.step = "rule"
  /\ Goto([step |-> "last", next |-> rule.next])
  /\ UNCHANGED <<rule, tx, made>>

ReadRule ==
  /\ cron.step = "rule"
  /\ Goto(IF rule.active THEN [step |-> "last", next |-> rule.next] ELSE Asleep)
  /\ UNCHANGED <<rule, tx, made>>

\* Mutant: the pattern is looked for at the date of the next row.
ReadLastAtNext ==
  /\ cron.step = "last"
  /\ Goto(IF \E t \in Rows : Linked(t) /\ tx[t].at = cron.next
          THEN [cron EXCEPT !.step = "write"] ELSE Asleep)
  /\ UNCHANGED <<rule, tx, made>>

\* The last row is the pattern of the next; without one nothing is made.
ReadLast ==
  /\ cron.step = "last"
  /\ Goto(IF \E t \in Rows : Linked(t) THEN [cron EXCEPT !.step = "write"] ELSE Asleep)
  /\ UNCHANGED <<rule, tx, made>>

\* Mutant: the row is made and the rule not advanced, as when the two are
\* not one transaction.
WriteRowOnly ==
  /\ cron.step = "write"
  /\ Insert({cron.next})
  /\ made' = made \cup {cron.next}
  /\ Goto(Asleep)
  /\ UNCHANGED rule

Write ==
  /\ cron.step = "write"
  /\ Insert({cron.next})
  /\ made' = made \cup {cron.next}
  /\ rule' = [rule EXCEPT !.next = AddMonths(cron.next, 1)]
  /\ Goto(Asleep)

\* A statement fails and is logged, or the process dies: the next night the
\* cron starts over.
CronFails ==
  /\ cron # Asleep /\ faults < MaxFaults
  /\ faults' = faults + 1
  /\ cron' = Asleep
  /\ UNCHANGED <<rule, tx, now, session, made, cut>>

Cron == FindDue \/ ReadRule \/ ReadLast \/ Write

Next ==
  \/ TimePasses
  \/ \E c \in Sessions :
       \/ \E start \in Starts, monthly \in BOOLEAN :
            CreateFixed(c, start, monthly) \/ \E n \in Counts : CreateInstallments(c, start, n, monthly)
       \/ OpenDeactivate(c)
       \/ \E t \in Rows : OpenDeleteFuture(c, t) \/ \E op \in {"detach", "delete"} : OpenEdit(c, t, op)
       \/ \E t \in Rows, date \in Moves : OpenMove(c, t, date)
       \/ CommitDeactivate(c)
       \/ CommitDetach(c)
       \/ CommitMove(c)
       \/ CommitDelete(c)
       \/ DeleteRows(c)
       \/ CommitDeleteFuture(c)
       \/ Rollback(c)
  \/ \E t \in Rows : \/ SetStatus(t, "pending", "paid", "pay")
                     \/ SetStatus(t, "paid", "pending", "unpay")
                     \/ SetStatus(t, "paid", "confirmed", "confirm")
  \/ Cron
  \/ CronFails

Spec == Init /\ [][Next]_vars

\* The cron fires every night and its statements return; deadlines pass.
FairSpec == Spec /\ WF_vars(Cron)

-----------------------------------------------------------------------------
\* The dates of a rule run on without a gap and without repetition, whatever
\* night fails: a date that was made is behind the rule's next occurrence,
\* and each month between the first and it has its row (when every month
\* has the day of the start).
NoGapNoRepeat ==
  rule.mode = "fixed" =>
    /\ \A date \in made : date < rule.next
    /\ \A date \in made : date % 32 <= 28 =>
         \A month \in (date \div 32)..(rule.next \div 32 - 1) : (32 * month) + (date % 32) \in made

\* The installments of a rule are as many as were asked for, on ascending
\* dates the last of which ends the rule, also when a month is too short.
InstallmentsEndTheRule ==
  rule.mode = "installment" =>
    /\ Cardinality(made) = rule.installments
    /\ rule.next \in made /\ \A date \in made : date <= rule.next

\* Once a rule was stopped with no generation under way, it makes nothing.
StoppedStaysSilent ==
  [][(rule.mode # "none" /\ ~rule.active /\ cron.step \in {"asleep", "rule"}) =>
       (made' = made /\ cron'.step \in {"asleep", "rule"})]_vars

\* After "this and future" was deleted, no pending row of the rule is left
\* or appears at or after the date (rows that were paid stay), provided nothing
\* was written between the deletion's statements and no generation was under
\* way, and until somebody moves a row or takes its payment back.
FutureStaysDeleted ==
  cut # 0 => \A t \in Rows : ~(Linked(t) /\ tx[t].status = "pending" /\ tx[t].at >= cut)

Due == rule.mode = "fixed" /\ rule.active /\ rule.next <= now

\* A monthly rule that has a row left catches up with the clock.
CatchesUp ==
  (Due /\ rule.monthly /\ \E t \in Rows : Linked(t)) ~> (~Due \/ \A t \in Rows : ~Linked(t))

\* What RecurringRules checks of its states, but for what was deleted.
RulesCohere == TypeOK /\ NoGapNoRepeat /\ InstallmentsEndTheRule
==============================================================================
