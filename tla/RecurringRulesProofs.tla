------------------------- MODULE RecurringRulesProofs -------------------------
(***************************************************************************)
(* A future that was deleted stays deleted, a rule that was stopped is     *)
(* silent, and the dates of a rule run on without a gap or a repetition:   *)
(* for any calendar, rows, sessions, handlers and faults.                  *)
(***************************************************************************)
EXTENDS RecurringRules, FiniteSetTheorems, TLAPS

\* The tables are functions of their keys, and a row has its columns.
Shaped ==
  /\ tx = [t \in Rows |-> tx[t]]
  /\ \A t \in Rows : Live(t) => tx[t] = [row |-> "live", at |-> tx[t].at, linked |-> tx[t].linked,
                                        status |-> tx[t].status]
  /\ session = [c \in Sessions |-> session[c]]
  /\ rule = [mode |-> rule.mode, monthly |-> rule.monthly, installments |-> rule.installments,
             next |-> rule.next, active |-> rule.active]

Deleting(c) == session[c].op \in {"deleteFuture", "deleting"}

\* Rows, generations and deletions are of a rule that exists.
OfARule ==
  /\ (\E t \in Rows : Live(t)) => rule.mode # "none"
  /\ (\E c \in Sessions : Deleting(c)) => rule.mode # "none"
  /\ cron # Asleep => rule.mode # "none"

\* A pending row of the rule, in the table rows, at date from or later.
Ahead(row, from) ==
  row.row = "live" /\ row.linked /\ row.status = "pending" /\ row.at >= from

\* A deletion hits what was ahead in the table it has seen.
HitsWhatItSaw ==
  \A c \in Sessions : session[c].op = "deleting" =>
    session[c].hit = {t \in Rows : Ahead(session[c].seen[t], session[c].from)}

\* When the future was deleted, the rule is stopped and nothing is generated.
CutIsStopped == cut # 0 => rule.mode # "none" /\ ~rule.active /\ cron.step \notin {"last", "write"}

RuleInv == Shaped /\ OfARule /\ HitsWhatItSaw /\ CutIsStopped /\ FutureStaysDeleted

-----------------------------------------------------------------------------
LEMMA InitHolds == Init => RuleInv
  BY DEF Init, RuleInv, Shaped, OfARule, HitsWhatItSaw, CutIsStopped, FutureStaysDeleted, Live, Deleting,
     NoRow, Idle, Asleep

\* A step that leaves the table alone.
LEMMA TableStands ==
  ASSUME RuleInv, UNCHANGED <<rule, tx, cut>>,
         session' = [c \in Sessions |-> session'[c]],
         \A c \in Sessions : Deleting(c)' => rule.mode # "none",
         cron' # Asleep => rule.mode # "none",
         cut # 0 => cron'.step \notin {"last", "write"},
         HitsWhatItSaw'
  PROVE  RuleInv'
  BY DEF RuleInv, Shaped, OfARule, CutIsStopped, FutureStaysDeleted, Live, Linked

\* Insert makes new rows, whatever ids and dates they get.
LEMMA Inserts ==
  ASSUME NEW dates, Insert(dates)
  PROVE  \E ids, date : tx' = [t \in Rows |-> IF t \in ids THEN NewRow(date[t]) ELSE tx[t]]
  <1> DEFINE free == {t \in Rows : tx[t] = NoRow}
             ids  == {t \in free : Cardinality({u \in free : u < t}) < Cardinality(dates)}
             date == [t \in Rows |-> CHOOSE d \in dates :
                        Cardinality({e \in dates : e < d}) = Cardinality({u \in ids : u < t})]
  <1>1. tx' = [t \in Rows |-> IF t \in ids THEN NewRow(date[t]) ELSE tx[t]]
    BY DEF Insert
  <1> HIDE DEF free, ids, date
  <1>2. QED
    BY <1>1

LEMMA Creates ==
  ASSUME RuleInv, NEW c \in Sessions, NEW start, NEW monthly, NEW n,
         CreateFixed(c, start, monthly) \/ CreateInstallments(c, start, n, monthly)
  PROVE  RuleInv'
  <1>1. UNCHANGED <<cron, session, cut>> /\ rule.mode = "none"
        /\ rule' = [mode |-> rule'.mode, monthly |-> rule'.monthly, installments |-> rule'.installments,
                    next |-> rule'.next, active |-> rule'.active]
        /\ rule'.mode # "none"
    BY DEF CreateFixed, CreateInstallments
  <1>2. \E ds : Insert(ds)
    BY DEF CreateFixed, CreateInstallments
  <1>3. PICK ids, date : tx' = [t \in Rows |-> IF t \in ids THEN NewRow(date[t]) ELSE tx[t]]
    BY <1>2, Inserts
  <1>4. tx' = [t \in Rows |-> tx'[t]]
        /\ \A t \in Rows : tx'[t] = tx[t] \/ \E d : tx'[t] = [row |-> "live", at |-> d, linked |-> TRUE, status |-> "pending"]
    BY <1>3 DEF NewRow
  <1>5. \A t \in Rows : tx'[t].row = "live" =>
          tx'[t] = [row |-> "live", at |-> tx'[t].at, linked |-> tx'[t].linked, status |-> tx'[t].status]
    BY <1>4 DEF RuleInv, Shaped, Live
  <1>6. Shaped'
    BY <1>1, <1>4, <1>5 DEF RuleInv, Shaped, Live
  <1>7. cut = 0
    BY <1>1 DEF RuleInv, CutIsStopped
  <1>8. OfARule' /\ HitsWhatItSaw'
    BY <1>1 DEF RuleInv, OfARule, HitsWhatItSaw
  <1>9. CutIsStopped' /\ FutureStaysDeleted'
    BY <1>1, <1>7 DEF CutIsStopped, FutureStaysDeleted
  <1>10. QED
    BY <1>6, <1>8, <1>9 DEF RuleInv

\* A request is opened, deletes its rows, or is rolled back.
LEMMA Opens ==
  ASSUME RuleInv, NEW c \in Sessions, NEW r,
         session' = [session EXCEPT ![c] = r],
         r.op \in {"deleteFuture", "deleting"} => rule.mode # "none",
         r.op = "deleting" => r.hit = {t \in Rows : Ahead(r.seen[t], r.from)},
         UNCHANGED <<rule, tx, cron, cut>>
  PROVE  RuleInv'
  <1>1. session' = [d \in Sessions |-> session'[d]]
        /\ \A d \in Sessions : session'[d] = IF d = c THEN r ELSE session[d]
    BY DEF RuleInv, Shaped
  <1>2. HitsWhatItSaw'
    BY <1>1 DEF RuleInv, HitsWhatItSaw, Ahead
  <1>3. \A d \in Sessions : Deleting(d)' => rule.mode # "none"
    BY <1>1 DEF Deleting, RuleInv, OfARule
  <1>4. QED
    BY <1>1, <1>2, <1>3, TableStands DEF RuleInv, OfARule, CutIsStopped

\* A request ends that changed rows: none is ahead that was not before.
LEMMA Changes ==
  ASSUME RuleInv, UNCHANGED cron,
         tx' = [t \in Rows |-> tx'[t]],
         \A t \in Rows : Live(t)' =>
           /\ Live(t)
           /\ tx'[t] = [row |-> "live", at |-> tx'[t].at, linked |-> tx'[t].linked, status |-> tx'[t].status],
         cut' # 0 => \A t \in Rows : ~Ahead(tx'[t], cut'),
         cut' # 0 => rule'.mode # "none" /\ ~rule'.active /\ cron.step \notin {"last", "write"},
         session' = [c \in Sessions |-> session'[c]],
         \A c \in Sessions : session'[c] = session[c] \/ session'[c] = Idle,
         rule' = [mode |-> rule.mode, monthly |-> rule.monthly, installments |-> rule.installments,
                  next |-> rule.next, active |-> rule'.active]
  PROVE  RuleInv'
  <1>1. Shaped'
    BY DEF Shaped, Live
  <1>2. OfARule'
    BY DEF RuleInv, OfARule, Deleting, Idle
  <1>3. HitsWhatItSaw'
    BY DEF RuleInv, HitsWhatItSaw, Idle, Ahead
  <1>4. CutIsStopped'
    BY DEF CutIsStopped
  <1>5. FutureStaysDeleted'
    BY DEF FutureStaysDeleted, Ahead, Linked, Live
  <1>6. QED
    BY <1>1, <1>2, <1>3, <1>4, <1>5 DEF RuleInv

LEMMA RequestHolds ==
  ASSUME RuleInv, NEW c \in Sessions,
         \/ OpenDeactivate(c) \/ DeleteRows(c) \/ Rollback(c)
         \/ \E t \in Rows : OpenDeleteFuture(c, t) \/ \E op \in {"detach", "delete"} : OpenEdit(c, t, op)
         \/ \E t \in Rows, date \in Moves : OpenMove(c, t, date)
  PROVE  RuleInv'
  <1>1. CASE OpenDeactivate(c) \/ Rollback(c)
    BY <1>1, Opens DEF OpenDeactivate, Rollback, Open, Idle
  <1>2. ASSUME NEW t \in Rows, OpenDeleteFuture(c, t) PROVE RuleInv'
    BY <1>2, Opens DEF OpenDeleteFuture, Open, Editable, RuleInv, OfARule
  <1>3. ASSUME NEW t \in Rows, NEW op \in {"detach", "delete"}, OpenEdit(c, t, op) PROVE RuleInv'
    BY <1>3, Opens DEF OpenEdit, Open
  <1>4. ASSUME NEW t \in Rows, NEW date \in Moves, OpenMove(c, t, date) PROVE RuleInv'
    BY <1>4, Opens DEF OpenMove, Open
  <1>5. CASE DeleteRows(c)
    <2> DEFINE r == [op |-> "deleting", from |-> session[c].from, hit |-> DeletedBy(c), seen |-> tx]
    <2>1. session' = [session EXCEPT ![c] = r] /\ UNCHANGED <<rule, tx, cron, cut>>
      BY <1>5 DEF DeleteRows
    <2>2. rule.mode # "none"
      BY <1>5 DEF DeleteRows, RuleInv, OfARule, Deleting
    <2>3. DeletedBy(c) = {t \in Rows : Ahead(tx[t], session[c].from)}
      BY DEF DeletedBy, Ahead, Linked, Live
    <2>4. r.hit = {t \in Rows : Ahead(r.seen[t], r.from)}
      BY <2>3
    <2> HIDE DEF r
    <2>5. QED
      BY <2>1, <2>2, <2>4, Opens
  <1>6. QED
    BY <1>1, <1>2, <1>3, <1>4, <1>5

\* What an edit leaves of the row of its transaction.
LEMMA EditHolds ==
  ASSUME RuleInv, NEW c \in Sessions, CommitDetach(c) \/ CommitMove(c) \/ CommitDelete(c)
  PROVE  RuleInv'
  <1> DEFINE t == session[c].tx
  <1>1. PICK op, row : op \in {"detach", "move", "delete"} /\ CommitEdit(c, op, row) /\
          \/ op = "detach" /\ row = [tx[t] EXCEPT !.linked = FALSE]
          \/ op = "move" /\ row = [tx[t] EXCEPT !.at = session[c].at]
          \/ op = "delete" /\ row = Gone
    BY DEF CommitDetach, CommitMove, CommitDelete
  <1>2. /\ session' = [session EXCEPT ![c] = Idle] /\ UNCHANGED <<rule, cron>>
        /\ tx' = [tx EXCEPT ![t] = row] /\ Live(t)
        /\ cut' = IF op = "move" THEN 0 ELSE cut
    BY <1>1 DEF CommitEdit, Commit
  <1>3. /\ tx' = [u \in Rows |-> tx'[u]]
        /\ \A u \in Rows : tx'[u] = IF u = t THEN row ELSE tx[u]
        /\ session' = [d \in Sessions |-> session'[d]]
        /\ \A d \in Sessions : session'[d] = session[d] \/ session'[d] = Idle
    BY <1>2 DEF RuleInv, Shaped
  <1>4. \A u \in Rows : tx'[u].row = "live" =>
          /\ Live(u)
          /\ tx'[u] = [row |-> "live", at |-> tx'[u].at, linked |-> tx'[u].linked, status |-> tx'[u].status]
    <2> SUFFICES ASSUME NEW u \in Rows, tx'[u].row = "live"
        PROVE  /\ Live(u)
               /\ tx'[u] = [row |-> "live", at |-> tx'[u].at, linked |-> tx'[u].linked, status |-> tx'[u].status]
      OBVIOUS
    <2>1. CASE u # t
      BY <1>3, <2>1 DEF RuleInv, Shaped, Live
    <2>2. CASE u = t
      <3>1. tx'[u] = row /\ tx[t] = [row |-> "live", at |-> tx[t].at, linked |-> tx[t].linked, status |-> tx[t].status]
        BY <1>2, <1>3, <2>2 DEF RuleInv, Shaped
      <3>2. op # "delete"
        BY <1>1, <3>1 DEF Gone
      <3>3. \E at, linked, status : row = [row |-> "live", at |-> at, linked |-> linked, status |-> status]
        <4>1. CASE op = "detach"
          <5>1. row = [row |-> "live", at |-> tx[t].at, linked |-> FALSE, status |-> tx[t].status]
            BY <1>1, <3>1, <4>1
          <5>2. QED
            BY <5>1
        <4>2. CASE op = "move"
          <5>1. row = [row |-> "live", at |-> session[c].at, linked |-> tx[t].linked, status |-> tx[t].status]
            BY <1>1, <3>1, <4>2
          <5>2. QED
            BY <5>1
        <4>3. QED
          BY <1>1, <3>2, <4>1, <4>2
      <3>4. QED
        BY <1>2, <2>2, <3>1, <3>3
    <2>3. QED
      BY <2>1, <2>2
  <1>5. cut' # 0 => \A u \in Rows : ~Ahead(tx'[u], cut')
    <2> SUFFICES ASSUME cut' # 0, NEW u \in Rows PROVE ~Ahead(tx'[u], cut)
      BY <1>2
    <2>1. op \in {"detach", "delete"} /\ cut # 0 /\ ~Ahead(tx[u], cut)
      BY <1>1, <1>2 DEF RuleInv, FutureStaysDeleted, Ahead, Linked, Live
    <2>2. CASE u # t
      BY <1>3, <2>1, <2>2
    <2>3. CASE u = t /\ op = "delete"
      BY <1>1, <1>3, <2>3 DEF Gone, Ahead
    <2>4. CASE u = t /\ op = "detach"
      <3>1. tx'[u] = [tx[t] EXCEPT !.linked = FALSE]
            /\ tx[t] = [row |-> "live", at |-> tx[t].at, linked |-> tx[t].linked, status |-> tx[t].status]
        BY <1>1, <1>2, <1>3, <2>4 DEF RuleInv, Shaped
      <3>2. tx'[u].linked = FALSE
        BY <3>1
      <3>3. QED
        BY <3>2 DEF Ahead
    <2>5. QED
      BY <2>1, <2>2, <2>3, <2>4
  <1>6. cut' # 0 => rule'.mode # "none" /\ ~rule'.active /\ cron.step \notin {"last", "write"}
    BY <1>2 DEF RuleInv, CutIsStopped
  <1>7. rule' = [mode |-> rule.mode, monthly |-> rule.monthly, installments |-> rule.installments,
                 next |-> rule.next, active |-> rule'.active]
    BY <1>2 DEF RuleInv, Shaped
  <1>8. QED
    BY <1>2, <1>3, <1>4, <1>5, <1>6, <1>7, Changes DEF Live

LEMMA StatusHolds ==
  ASSUME RuleInv, NEW t \in Rows, NEW from, NEW to, NEW op,
         op \in {"pay", "unpay", "confirm"}, to = "pending" <=> op = "unpay",
         SetStatus(t, from, to, op)
  PROVE  RuleInv'
  <1>1. /\ tx' = [tx EXCEPT ![t].status = to] /\ Live(t) /\ UNCHANGED <<rule, cron, session>>
        /\ cut' = IF to = "pending" THEN 0 ELSE cut
    BY DEF SetStatus
  <1>2. tx[t] = [row |-> "live", at |-> tx[t].at, linked |-> tx[t].linked, status |-> tx[t].status]
    BY <1>1 DEF RuleInv, Shaped
  <1>3. /\ tx' = [u \in Rows |-> tx'[u]]
        /\ \A u \in Rows : u # t => tx'[u] = tx[u]
        /\ tx'[t] = [row |-> "live", at |-> tx[t].at, linked |-> tx[t].linked, status |-> to]
    BY <1>1, <1>2 DEF RuleInv, Shaped
  <1>4. \A u \in Rows : Live(u)' =>
          /\ Live(u)
          /\ tx'[u] = [row |-> "live", at |-> tx'[u].at, linked |-> tx'[u].linked, status |-> tx'[u].status]
    BY <1>1, <1>3 DEF RuleInv, Shaped, Live
  <1>5. cut' # 0 => \A u \in Rows : ~Ahead(tx'[u], cut')
    <2> SUFFICES ASSUME cut' # 0, NEW u \in Rows PROVE ~Ahead(tx'[u], cut)
      BY <1>1
    <2>1. to # "pending" /\ ~Ahead(tx[u], cut)
      BY <1>1 DEF RuleInv, FutureStaysDeleted, Ahead, Linked, Live
    <2>2. QED
      BY <1>3, <2>1 DEF Ahead
  <1>6. cut' # 0 => rule'.mode # "none" /\ ~rule'.active /\ cron.step \notin {"last", "write"}
    BY <1>1 DEF RuleInv, CutIsStopped
  <1>7. rule' = [mode |-> rule.mode, monthly |-> rule.monthly, installments |-> rule.installments,
                 next |-> rule.next, active |-> rule'.active]
    BY <1>1 DEF RuleInv, Shaped
  <1>8. session' = [c \in Sessions |-> session'[c]] /\ \A c \in Sessions : session'[c] = session[c]
    BY <1>1 DEF RuleInv, Shaped
  <1>9. QED
    BY <1>1, <1>3, <1>4, <1>5, <1>6, <1>7, <1>8, Changes

LEMMA StopHolds ==
  ASSUME RuleInv, NEW c \in Sessions, CommitDeactivate(c) \/ CommitDeleteFuture(c)
  PROVE  RuleInv'
  <1>1. session' = [session EXCEPT ![c] = Idle] /\ UNCHANGED cron /\ rule' = [rule EXCEPT !.active = FALSE]
    BY DEF CommitDeactivate, CommitDeleteFuture, Commit
  <1>2. session' = [d \in Sessions |-> session'[d]]
        /\ \A d \in Sessions : session'[d] = session[d] \/ session'[d] = Idle
    BY <1>1 DEF RuleInv, Shaped
  <1>3. rule' = [mode |-> rule.mode, monthly |-> rule.monthly, installments |-> rule.installments,
                 next |-> rule.next, active |-> FALSE]
    BY <1>1 DEF RuleInv, Shaped
  <1>4. rule'.active = FALSE /\ rule'.mode = rule.mode
    BY <1>3
  <1>5. CASE CommitDeactivate(c)
    <2>1. UNCHANGED <<tx, cut>>
      BY <1>5 DEF CommitDeactivate
    <2>2. tx' = [t \in Rows |-> tx'[t]]
          /\ \A t \in Rows : Live(t)' =>
               /\ Live(t)
               /\ tx'[t] = [row |-> "live", at |-> tx'[t].at, linked |-> tx'[t].linked, status |-> tx'[t].status]
      BY <2>1 DEF RuleInv, Shaped, Live
    <2>3. cut' # 0 => \A t \in Rows : ~Ahead(tx'[t], cut')
      BY <2>1 DEF RuleInv, FutureStaysDeleted, Ahead, Linked, Live
    <2>4. cut' # 0 => rule'.mode # "none" /\ ~rule'.active /\ cron.step \notin {"last", "write"}
      BY <1>4, <2>1 DEF RuleInv, CutIsStopped
    <2>5. QED
      BY <1>1, <1>2, <1>3, <1>4, <2>2, <2>3, <2>4, Changes
  <1>6. CASE CommitDeleteFuture(c)
    <2>1. /\ session[c].op = "deleting" /\ cut' = Cut(c)
          /\ tx' = [t \in Rows |-> IF t \in session[c].hit THEN Gone ELSE tx[t]]
      BY <1>6 DEF CommitDeleteFuture, Commit
    <2>2. tx' = [t \in Rows |-> tx'[t]]
          /\ \A t \in Rows : Live(t)' =>
               /\ Live(t)
               /\ tx'[t] = [row |-> "live", at |-> tx'[t].at, linked |-> tx'[t].linked, status |-> tx'[t].status]
      BY <2>1 DEF RuleInv, Shaped, Live, Gone
    <2>3. CASE cut' = cut
      <3>1. cut' # 0 => \A t \in Rows : ~Ahead(tx'[t], cut')
        BY <2>1, <2>3 DEF RuleInv, FutureStaysDeleted, Ahead, Linked, Live, Gone
      <3>2. cut' # 0 => rule'.mode # "none" /\ ~rule'.active /\ cron.step \notin {"last", "write"}
        BY <1>4, <2>3 DEF RuleInv, CutIsStopped
      <3>3. QED
        BY <1>1, <1>2, <1>3, <1>4, <2>2, <3>1, <3>2, Changes
    <2>4. CASE cut' # cut
      <3>1. cut' = session[c].from /\ tx = session[c].seen /\ cron.step \notin {"last", "write"}
        BY <2>1, <2>4 DEF Cut
      <3>2. \A t \in Rows : ~Ahead(tx'[t], cut')
        <4>1. session[c].hit = {t \in Rows : Ahead(tx[t], session[c].from)}
          BY <2>1, <3>1 DEF RuleInv, HitsWhatItSaw
        <4>2. QED
          BY <2>1, <3>1, <4>1 DEF Ahead, Gone
      <3>3. rule.mode # "none"
        BY <2>1 DEF RuleInv, OfARule, Deleting
      <3>4. QED
        BY <1>1, <1>2, <1>3, <1>4, <2>2, <3>1, <3>2, <3>3, Changes
    <2>5. QED
      BY <2>3, <2>4
  <1>7. QED
    BY <1>5, <1>6

\* The clock and the cron.
LEMMA CronHolds ==
  ASSUME RuleInv, TimePasses \/ Cron \/ CronFails
  PROVE  RuleInv'
  <1>1. session' = session /\ cut' = cut
    BY DEF TimePasses, Cron, CronFails, FindDue, ReadRule, ReadLast, Write, Goto
  <1>2. session' = [c \in Sessions |-> session'[c]] /\ HitsWhatItSaw'
        /\ \A c \in Sessions : Deleting(c)' => rule.mode # "none"
    BY <1>1 DEF RuleInv, Shaped, HitsWhatItSaw, Deleting, OfARule, Ahead
  <1>3. CASE TimePasses \/ CronFails \/ FindDue \/ ReadRule \/ ReadLast
    <2>1. UNCHANGED <<rule, tx, cut>>
      BY <1>3 DEF TimePasses, CronFails, FindDue, ReadRule, ReadLast, Goto
    <2>2. cron' # Asleep => rule.mode # "none"
      BY <1>3 DEF TimePasses, CronFails, FindDue, ReadRule, ReadLast, Goto, RuleInv, OfARule, Asleep
    <2>3. cut # 0 => cron'.step \notin {"last", "write"}
      BY <1>3 DEF TimePasses, CronFails, FindDue, ReadRule, ReadLast, Goto, RuleInv, CutIsStopped, Asleep
    <2>4. QED
      BY <1>2, <2>1, <2>2, <2>3, TableStands
  <1>4. CASE Write
    <2>1. cut = 0 /\ rule.mode # "none" /\ cron' = Asleep /\ rule' = [rule EXCEPT !.next = AddMonths(cron.next, 1)]
          /\ Insert({cron.next})
      BY <1>4 DEF Write, Goto, RuleInv, CutIsStopped, OfARule, Asleep
    <2>2. PICK ids, date : tx' = [t \in Rows |-> IF t \in ids THEN NewRow(date[t]) ELSE tx[t]]
      BY <2>1, Inserts
    <2>3. tx' = [t \in Rows |-> tx'[t]]
          /\ \A t \in Rows : tx'[t].row = "live" =>
               tx'[t] = [row |-> "live", at |-> tx'[t].at, linked |-> tx'[t].linked, status |-> tx'[t].status]
      BY <2>2 DEF NewRow, RuleInv, Shaped, Live
    <2>4. rule' = [mode |-> rule'.mode, monthly |-> rule'.monthly, installments |-> rule'.installments,
                   next |-> rule'.next, active |-> rule'.active] /\ rule'.mode # "none"
      BY <2>1 DEF RuleInv, Shaped
    <2>5. Shaped'
      BY <1>2, <2>3, <2>4 DEF Shaped, Live
    <2>6. OfARule'
      BY <2>4 DEF OfARule
    <2>7. CutIsStopped' /\ FutureStaysDeleted'
      BY <1>1, <2>1 DEF CutIsStopped, FutureStaysDeleted
    <2>8. QED
      BY <1>2, <2>5, <2>6, <2>7 DEF RuleInv
  <1>5. QED
    BY <1>3, <1>4 DEF Cron

LEMMA NextHolds ==
  ASSUME RuleInv, [Next]_vars
  PROVE  RuleInv'
  <1>1. CASE UNCHANGED vars
    BY <1>1, TableStands DEF vars, RuleInv, Shaped, OfARule, HitsWhatItSaw, CutIsStopped, Deleting, Ahead
  <1>2. ASSUME NEW c \in Sessions, NEW start \in Starts, NEW monthly \in BOOLEAN,
               CreateFixed(c, start, monthly) \/ \E n \in Counts : CreateInstallments(c, start, n, monthly)
        PROVE  RuleInv'
    BY <1>2, Creates
  <1>3. ASSUME NEW c \in Sessions, CommitDeactivate(c) \/ CommitDeleteFuture(c) PROVE RuleInv'
    BY <1>3, StopHolds
  <1>4. ASSUME NEW c \in Sessions, CommitDetach(c) \/ CommitMove(c) \/ CommitDelete(c) PROVE RuleInv'
    BY <1>4, EditHolds
  <1>5. ASSUME NEW c \in Sessions,
               \/ OpenDeactivate(c) \/ DeleteRows(c) \/ Rollback(c)
               \/ \E t \in Rows : OpenDeleteFuture(c, t) \/ \E op \in {"detach", "delete"} : OpenEdit(c, t, op)
               \/ \E t \in Rows, date \in Moves : OpenMove(c, t, date)
        PROVE  RuleInv'
    BY <1>5, RequestHolds
  <1>6. ASSUME NEW t \in Rows,
               \/ SetStatus(t, "pending", "paid", "pay")
               \/ SetStatus(t, "paid", "pending", "unpay")
               \/ SetStatus(t, "paid", "confirmed", "confirm")
        PROVE  RuleInv'
    BY <1>6, StatusHolds
  <1>7. CASE TimePasses \/ Cron \/ CronFails
    BY <1>7, CronHolds
  <1>8. QED
    BY <1>1, <1>2, <1>3, <1>4, <1>5, <1>6, <1>7 DEF Next

\* After "this and future" was deleted with nothing under way, no pending row
\* of the rule is left or appears from that date on (deleteTransaction and
\* generateNext of recurring-rule.service.ts), for any number of requests.
THEOREM DeletedFutureStays == Spec => []FutureStaysDeleted
  <1>1. RuleInv => FutureStaysDeleted
    BY DEF RuleInv
  <1>2. RuleInv /\ [Next]_vars => RuleInv'
    BY NextHolds
  <1>3. QED
    BY <1>1, <1>2, InitHolds, PTL DEF Spec

\* A stopped rule with no generation under way makes no row, and the cron
\* gets no further than reading it: a generation that found the rule due
\* before it was stopped gives up.
THEOREM StoppedRulesAreSilent == Spec => StoppedStaysSilent
  <1>1. [Next]_vars => [(rule.mode # "none" /\ ~rule.active /\ cron.step \in {"asleep", "rule"}) =>
                          (made' = made /\ cron'.step \in {"asleep", "rule"})]_vars
    <2> SUFFICES ASSUME Next, rule.mode # "none", ~rule.active, cron.step \in {"asleep", "rule"}
        PROVE  made' = made /\ cron'.step \in {"asleep", "rule"}
      OBVIOUS
    <2>1. CASE TimePasses \/ Cron \/ CronFails
      BY <2>1 DEF TimePasses, Cron, CronFails, FindDue, ReadRule, ReadLast, Write, Goto, Asleep
    <2>2. CASE UNCHANGED <<made, cron>>
      BY <2>2
    <2>3. ASSUME NEW c \in Sessions,
                 \/ OpenDeactivate(c) \/ DeleteRows(c) \/ Rollback(c)
                 \/ \E t \in Rows : OpenDeleteFuture(c, t) \/ \E op \in {"detach", "delete"} : OpenEdit(c, t, op)
                 \/ \E t \in Rows, date \in Moves : OpenMove(c, t, date)
                 \/ CommitDeactivate(c) \/ CommitDeleteFuture(c)
                 \/ CommitDetach(c) \/ CommitMove(c) \/ CommitDelete(c)
          PROVE  UNCHANGED <<made, cron>>
      BY <2>3 DEF OpenDeactivate, DeleteRows, Rollback, OpenDeleteFuture, OpenEdit, OpenMove, Open,
         CommitDeactivate, CommitDeleteFuture, CommitDetach, CommitMove, CommitDelete, CommitEdit, Commit
    <2>4. ASSUME NEW t \in Rows, NEW from, NEW to, NEW op, SetStatus(t, from, to, op)
          PROVE  UNCHANGED <<made, cron>>
      BY <2>4 DEF SetStatus
    <2>5. ASSUME NEW c \in Sessions, NEW start, NEW monthly, NEW n
          PROVE  ~CreateFixed(c, start, monthly) /\ ~CreateInstallments(c, start, n, monthly)
      BY DEF CreateFixed, CreateInstallments
    <2>6. QED
      BY <2>1, <2>2, <2>3, <2>4, <2>5 DEF Next
  <1>2. QED
    BY <1>1, PTL DEF Spec, StoppedStaysSilent
-----------------------------------------------------------------------------
(* The dates of a rule.                                                     *)

LEMMA MonthAndDay ==
  ASSUME NEW d \in Nat
  PROVE  d \div 32 \in Nat /\ d % 32 \in 0..31 /\ d = 32 * (d \div 32) + (d % 32)
  OBVIOUS

LEMMA DateOf ==
  ASSUME NEW m \in Nat, NEW day \in 0..31
  PROVE  ((32 * m) + day) \div 32 = m /\ ((32 * m) + day) % 32 = day
  OBVIOUS

LEMMA Calendar ==
  \E last \in Nat : DOMAIN MonthLen = 0..last /\ Dates = 0..(32 * (last + 1))
  <1> DEFINE n == Cardinality(DOMAIN MonthLen)
  <1>1. n \in Nat /\ n # 0
    BY CalendarAssumption, FS_CardinalityType, FS_EmptySet
  <1>2. DOMAIN MonthLen = 0..(n - 1)
    BY CalendarAssumption
  <1>3. Dates = 0..(32 * n)
    BY DEF Dates
  <1> HIDE DEF n
  <1>4. n - 1 \in Nat /\ (n - 1) + 1 = n
    BY <1>1
  <1>5. QED
    BY <1>2, <1>3, <1>4

LEMMA DatesAreNat == Dates \subseteq Nat /\ 0 \in Dates
  BY Calendar

\* What addMonths returns: the same day, or one of the first three days of
\* the month that follows when the month has no such day.
LEMMA AddedMonths ==
  ASSUME NEW d \in Nat, NEW k \in Nat, NEW m, m = (d \div 32) + k, m \in DOMAIN MonthLen
  PROVE  /\ m \in Nat /\ d % 32 \in 0..31
         /\ AddMonths(d, k) \in Nat
         /\ AddMonths(d, k) >= (32 * m) + (d % 32)
         /\ \/ AddMonths(d, k) = (32 * m) + (d % 32)
            \/ d % 32 >= 29 /\ AddMonths(d, k) <= (32 * m) + 35
  <1> DEFINE day == d % 32
             len == MonthLen[m]
  <1>1. AddMonths(d, k) = IF day <= len THEN 32 * m + day ELSE 32 * (m + 1) + day - len
    BY DEF AddMonths
  <1>2. m \in Nat /\ day \in 0..31
    BY MonthAndDay
  <1>3. len \in 28..31
    BY CalendarAssumption
  <1> HIDE DEF day, len
  <1>4. /\ AddMonths(d, k) \in Nat
        /\ AddMonths(d, k) >= 32 * m + day
        /\ \/ AddMonths(d, k) = 32 * m + day
           \/ day >= 29 /\ AddMonths(d, k) <= 32 * m + 35
    BY <1>1, <1>2, <1>3
  <1>5. QED
    BY <1>2, <1>4 DEF day

\* A date whose month is followed by another is in the calendar.
LEMMA AddedInCalendar ==
  ASSUME NEW d \in Nat, NEW k \in Nat, NEW m, m = (d \div 32) + k, m + 1 \in DOMAIN MonthLen
  PROVE  AddMonths(d, k) \in Dates
  <1>1. PICK last \in Nat : DOMAIN MonthLen = 0..last /\ Dates = 0..(32 * (last + 1))
    BY Calendar
  <1>2. m \in Nat
    BY MonthAndDay
  <1>3. m \in DOMAIN MonthLen /\ m + 1 <= last
    BY <1>1, <1>2
  <1>4. /\ d % 32 \in 0..31 /\ AddMonths(d, k) \in Nat
        /\ AddMonths(d, k) = (32 * m) + (d % 32) \/ AddMonths(d, k) <= (32 * m) + 35
    BY <1>3, AddedMonths
  <1>5. AddMonths(d, k) <= (32 * m) + 35
    BY <1>2, <1>4
  <1>6. QED
    BY <1>1, <1>2, <1>3, <1>4, <1>5

\* A later month gives a later date.
LEMMA AddedLater ==
  ASSUME NEW d \in Nat, NEW j \in Nat, NEW k \in Nat, j < k, NEW m, m = (d \div 32) + k,
         m \in DOMAIN MonthLen
  PROVE  AddMonths(d, j) < AddMonths(d, k)
  <1>1. PICK last \in Nat : DOMAIN MonthLen = 0..last
    BY Calendar
  <1> DEFINE l == (d \div 32) + j
  <1>2. m \in Nat /\ l \in Nat /\ l < m /\ l = (d \div 32) + j /\ l \in DOMAIN MonthLen
    BY <1>1, MonthAndDay
  <1> HIDE DEF l
  <1>3. /\ AddMonths(d, k) \in Nat
        /\ AddMonths(d, k) >= (32 * m) + (d % 32)
    BY AddedMonths
  <1>4. /\ d % 32 \in 0..31
        /\ AddMonths(d, j) \in Nat
        /\ \/ AddMonths(d, j) = (32 * l) + (d % 32)
           \/ d % 32 >= 29 /\ AddMonths(d, j) <= (32 * l) + 35
    BY <1>2, AddedMonths
  <1> DEFINE day == d % 32
  <1> HIDE DEF day
  <1>5. day \in 0..31 /\ AddMonths(d, k) >= 32 * m + day
        /\ \/ AddMonths(d, j) = 32 * l + day
           \/ day >= 29 /\ AddMonths(d, j) <= 32 * l + 35
    BY <1>3, <1>4 DEF day
  <1>6. QED
    BY <1>2, <1>3, <1>4, <1>5

\* The date after is later than the date.
LEMMA NextIsLater ==
  ASSUME NEW d \in Nat, NEW m, m = (d \div 32) + 1, m \in DOMAIN MonthLen
  PROVE  d < AddMonths(d, 1)
  <1> DEFINE l == d \div 32
  <1>1. l \in Nat /\ d % 32 \in 0..31 /\ d = (32 * l) + (d % 32)
    BY MonthAndDay
  <1>2. l = (d \div 32) + 0 /\ l \in DOMAIN MonthLen
    BY <1>1, Calendar
  <1> HIDE DEF l
  <1>3. AddMonths(d, 0) \in Nat /\ AddMonths(d, 0) >= (32 * l) + (d % 32)
    BY <1>2, AddedMonths
  <1>4. 0 \in Nat /\ 1 \in Nat /\ 0 < 1
    OBVIOUS
  <1>5. AddMonths(d, 0) < AddMonths(d, 1)
    BY <1>4, AddedLater
  <1>6. AddMonths(d, 1) \in Nat
    BY <1>4, AddedMonths
  <1>7. QED
    BY <1>1, <1>3, <1>5, <1>6

\* The next date of a rule whose day every month has.
LEMMA SameDayNext ==
  ASSUME NEW d \in Nat, NEW m, m = (d \div 32) + 1, m \in DOMAIN MonthLen, d % 32 <= 28
  PROVE  AddMonths(d, 1) % 32 = d % 32 /\ AddMonths(d, 1) \div 32 = m
  <1>1. m \in Nat /\ d % 32 \in 0..31
        /\ \/ AddMonths(d, 1) = (32 * m) + (d % 32)
           \/ d % 32 >= 29
    BY AddedMonths
  <1>2. AddMonths(d, 1) = (32 * m) + (d % 32)
    BY <1>1
  <1>3. QED
    BY <1>1, <1>2, DateOf

\* The installments ascend in the calendar.
LEMMA InstallmentsAscend ==
  ASSUME NEW start \in Starts, NEW n \in Counts
  PROVE  /\ \A i \in 1..n : AddMonths(start, i - 1) \in Dates /\ AddMonths(start, i - 1) \in Nat
         /\ \A i, j \in 1..n : i < j => AddMonths(start, i - 1) < AddMonths(start, j - 1)
  <1>1. start \in Nat /\ n \in Nat \ {0} /\ (start \div 32) + n \in DOMAIN MonthLen
    BY HorizonAssumption
  <1>2. PICK last \in Nat : DOMAIN MonthLen = 0..last
    BY Calendar
  <1> DEFINE m == start \div 32
  <1>3. \A i \in 1..n : /\ i - 1 \in Nat /\ m + i \in DOMAIN MonthLen
                        /\ m + (i - 1) \in DOMAIN MonthLen /\ (m + (i - 1)) + 1 \in DOMAIN MonthLen
    <2>1. m \in Nat
      BY <1>1, MonthAndDay
    <2> HIDE DEF m
    <2>2. m + n \in 0..last
      BY <1>1, <1>2 DEF m
    <2>3. QED
      BY <1>1, <1>2, <2>1, <2>2
  <1>4. ASSUME NEW i \in 1..n
        PROVE  AddMonths(start, i - 1) \in Dates /\ AddMonths(start, i - 1) \in Nat
    <2> DEFINE k == i - 1
               l == m + k
    <2>1. k \in Nat /\ l = m + k /\ l + 1 \in DOMAIN MonthLen
      BY <1>3
    <2> HIDE DEF k, l
    <2>2. AddMonths(start, k) \in Dates
      BY <1>1, <2>1, AddedInCalendar
    <2>3. QED
      BY <2>2, DatesAreNat DEF k
  <1>5. ASSUME NEW i \in 1..n, NEW j \in 1..n, i < j
        PROVE  AddMonths(start, i - 1) < AddMonths(start, j - 1)
    <2> DEFINE h == i - 1
               k == j - 1
               l == m + k
    <2>1. h \in Nat /\ k \in Nat /\ h < k
      BY <1>1, <1>3, <1>5
    <2>2. l = m + k /\ l \in DOMAIN MonthLen
      BY <1>3
    <2> HIDE DEF h, k, l
    <2>3. AddMonths(start, h) < AddMonths(start, k)
      BY <1>1, <2>1, <2>2, AddedLater
    <2>4. QED
      BY <2>3 DEF h, k
  <1>6. QED
    BY <1>4, <1>5

\* The installments are as many as were asked for, and each before the last.
LEMMA InstallmentsAreCounted ==
  ASSUME NEW start \in Starts, NEW n \in Counts
  PROVE  /\ IsFiniteSet(InstallmentDates(start, n))
         /\ Cardinality(InstallmentDates(start, n)) = n
         /\ InstallmentDates(start, n) \subseteq Dates
         /\ AddMonths(start, n - 1) \in InstallmentDates(start, n)
         /\ \A d \in InstallmentDates(start, n) : d <= AddMonths(start, n - 1)
  <1> DEFINE f == [i \in 1..n |-> AddMonths(start, i - 1)]
             S == InstallmentDates(start, n)
  <1>1. n \in Nat \ {0}
    BY HorizonAssumption
  <1>2. f \in Bijection(1..n, S)
    <2>1. f \in [1..n -> S] /\ \A d \in S : \E i \in 1..n : f[i] = d
      BY DEF InstallmentDates
    <2>2. \A i, j \in 1..n : i < j => f[i] < f[j] /\ f[i] \in Nat /\ f[j] \in Nat
      BY InstallmentsAscend
    <2> HIDE DEF f
    <2>3. \A i, j \in 1..n : f[i] = f[j] => i = j
      <3> SUFFICES ASSUME NEW i \in 1..n, NEW j \in 1..n, f[i] = f[j] PROVE i = j
        OBVIOUS
      <3>1. i < j \/ j < i \/ i = j
        BY <1>1
      <3>2. QED
        BY <2>2, <3>1
    <2>4. QED
      BY <2>1, <2>3 DEF Bijection, Injection, Surjection, IsInjective
  <1>3. IsFiniteSet(S) /\ Cardinality(S) = n
    <2>1. IsFiniteSet(1..n) /\ Cardinality(1..n) = n
      BY <1>1, FS_Interval
    <2>2. ExistsBijection(1..n, S)
      BY <1>2 DEF ExistsBijection
    <2>3. QED
      BY <2>1, <2>2, FS_Bijection
  <1>4. AddMonths(start, n - 1) \in S /\ S \subseteq Dates
    BY <1>1, InstallmentsAscend DEF InstallmentDates
  <1>5. ASSUME NEW d \in S PROVE d <= AddMonths(start, n - 1)
    <2>1. PICK i \in 1..n : d = AddMonths(start, i - 1)
      BY DEF InstallmentDates
    <2>2. n \in 1..n /\ (i = n \/ i < n)
      BY <1>1
    <2>3. QED
      BY <1>1, <2>1, <2>2, InstallmentsAscend
  <1>6. QED
    BY <1>3, <1>4, <1>5

-----------------------------------------------------------------------------
(* A rule and its rows cohere.                                              *)

\* A request has read a row and dates of the calendar.
RequestsRead ==
  \A c \in Sessions :
    /\ session[c].op \in {"move", "detach", "delete"} => session[c].tx \in Rows
    /\ session[c].op = "move" => session[c].at \in Dates
    /\ Deleting(c) => session[c].from \in Dates

\* A generation is of a fixed rule that was due, and makes its next row.
GenerationIsTheRules ==
  /\ cron # Asleep => rule.mode = "fixed" /\ rule.next <= now
  /\ cron.step \in {"last", "write"} => cron.next = rule.next

\* A rule that has come to a day every month has stays with it.
DayIsKept ==
  rule.mode = "fixed" => \A date \in made : date % 32 <= 28 => rule.next % 32 = date % 32

RulesInv == RulesCohere /\ RequestsRead /\ GenerationIsTheRules /\ DayIsKept

\* What of it does not speak of sessions, transactions, clock and faults.
MadeInv == NoGapNoRepeat /\ InstallmentsEndTheRule /\ DayIsKept

LEMMA RulesInit == Init => RulesInv
  BY DatesAreNat, MaxFaultsAssumption
     DEF Init, RulesInv, RulesCohere, TypeOK, NoGapNoRepeat, InstallmentsEndTheRule, RequestsRead,
         GenerationIsTheRules, DayIsKept, Deleting, Idle, Asleep

LEMMA MadeStands ==
  ASSUME MadeInv, UNCHANGED <<made>>, UNCHANGED <<rule.mode, rule.next, rule.installments>>
  PROVE  MadeInv'
  BY DEF MadeInv, NoGapNoRepeat, InstallmentsEndTheRule, DayIsKept

\* A row of a table.
RowOK(row) ==
  \/ row \in {NoRow, Gone}
  \/ row \in [row : {"live"}, at : Dates, linked : BOOLEAN, status : {"pending", "paid", "confirmed"}]

\* A request is opened, deletes its rows, or is rolled back.
LEMMA RulesOpen ==
  ASSUME RuleInv, RulesInv, NEW c \in Sessions, NEW r,
         session' = [session EXCEPT ![c] = r],
         r.op \in Handlers \cup {"idle", "deleting"},
         r.op \in {"move", "detach", "delete"} => r.tx \in Rows,
         r.op = "move" => r.at \in Dates,
         r.op \in {"deleteFuture", "deleting"} => r.from \in Dates,
         UNCHANGED <<rule, tx, now, cron, faults, made, cut>>
  PROVE  RulesInv'
  <1>1. \A d \in Sessions : session'[d] = IF d = c THEN r ELSE session[d]
    BY DEF RuleInv, Shaped
  <1>2. TypeOK'
    BY <1>1 DEF RulesInv, RulesCohere, TypeOK
  <1>3. RequestsRead'
    BY <1>1 DEF RulesInv, RequestsRead, Deleting
  <1>4. QED
    BY <1>2, <1>3 DEF RulesInv, RulesCohere, NoGapNoRepeat, InstallmentsEndTheRule, DayIsKept,
       GenerationIsTheRules

LEMMA RulesRequest ==
  ASSUME RuleInv, RulesInv, NEW c \in Sessions,
         \/ OpenDeactivate(c) \/ DeleteRows(c) \/ Rollback(c)
         \/ \E t \in Rows : OpenDeleteFuture(c, t) \/ \E op \in {"detach", "delete"} : OpenEdit(c, t, op)
         \/ \E t \in Rows, date \in Moves : OpenMove(c, t, date)
  PROVE  RulesInv'
  <1>1. CASE OpenDeactivate(c) \/ Rollback(c)
    BY <1>1, RulesOpen DEF OpenDeactivate, Rollback, Open, Idle
  <1>2. ASSUME NEW t \in Rows, OpenDeleteFuture(c, t) PROVE RulesInv'
    <2>1. tx[t].at \in Dates
      BY <1>2 DEF OpenDeleteFuture, Editable, Live, RulesInv, RulesCohere, TypeOK, NoRow, Gone
    <2>2. QED
      BY <1>2, <2>1, RulesOpen DEF OpenDeleteFuture, Open
  <1>3. ASSUME NEW t \in Rows, NEW op \in {"detach", "delete"}, OpenEdit(c, t, op) PROVE RulesInv'
    BY <1>3, RulesOpen DEF OpenEdit, Open
  <1>4. ASSUME NEW t \in Rows, NEW date \in Moves, OpenMove(c, t, date) PROVE RulesInv'
    BY <1>4, RulesOpen, HorizonAssumption DEF OpenMove, Open
  <1>5. CASE DeleteRows(c)
    <2> DEFINE r == [op |-> "deleting", from |-> session[c].from, hit |-> DeletedBy(c), seen |-> tx]
    <2>1. session' = [session EXCEPT ![c] = r] /\ UNCHANGED <<rule, tx, now, cron, faults, made, cut>>
      BY <1>5 DEF DeleteRows
    <2>2. r.from \in Dates /\ r.op = "deleting"
      BY <1>5 DEF DeleteRows, RulesInv, RequestsRead, Deleting
    <2> HIDE DEF r
    <2>3. QED
      BY <2>1, <2>2, RulesOpen
  <1>6. QED
    BY <1>1, <1>2, <1>3, <1>4, <1>5

\* A request ends, or a status is set: the rows stay rows, and of the rule
\* at most whether it is active changes.
LEMMA RulesChange ==
  ASSUME RuleInv, RulesInv,
         \A c \in Sessions : session'[c] = session[c] \/ session'[c] = Idle,
         \A t \in Rows : RowOK(tx'[t]),
         cut' \in Dates,
         UNCHANGED <<now, cron, faults, made>>,
         UNCHANGED rule \/ rule' = [rule EXCEPT !.active = FALSE]
  PROVE  RulesInv'
  <1>1. UNCHANGED <<rule.mode, rule.next, rule.installments>>
    BY DEF RuleInv, Shaped
  <1>2. TypeOK'
    <2>1. TypeOK
      BY DEF RulesInv, RulesCohere
    <2>2. rule' \in [mode : {"none", "fixed", "installment"}, monthly : BOOLEAN, installments : Counts \cup {0},
                     next : Dates, active : BOOLEAN]
      BY <2>1 DEF TypeOK
    <2>3. \A c \in Sessions : session'[c].op \in Handlers \cup {"idle", "deleting"}
      BY <2>1 DEF TypeOK, Idle
    <2>4. QED
      BY <2>1, <2>2, <2>3 DEF TypeOK, RowOK
  <1>3. RequestsRead' /\ GenerationIsTheRules'
    BY <1>1 DEF RulesInv, RequestsRead, GenerationIsTheRules, Deleting, Idle
  <1>4. QED
    BY <1>1, <1>2, <1>3, MadeStands DEF RulesInv, RulesCohere, MadeInv

LEMMA RulesEdit ==
  ASSUME RuleInv, RulesInv, NEW c \in Sessions,
         \/ CommitDetach(c) \/ CommitMove(c) \/ CommitDelete(c)
         \/ CommitDeactivate(c) \/ CommitDeleteFuture(c)
  PROVE  RulesInv'
  <1>1. session' = [session EXCEPT ![c] = Idle] /\ UNCHANGED <<now, cron, faults, made>>
        /\ (UNCHANGED rule \/ rule' = [rule EXCEPT !.active = FALSE])
    BY DEF CommitDetach, CommitMove, CommitDelete, CommitDeactivate, CommitDeleteFuture, CommitEdit, Commit
  <1>2. \A d \in Sessions : session'[d] = session[d] \/ session'[d] = Idle
    BY <1>1 DEF RuleInv, Shaped
  <1>3. \A t \in Rows : RowOK(tx[t])
    BY DEF RulesInv, RulesCohere, TypeOK, RowOK
  <1>4. cut \in Dates /\ 0 \in Dates
    BY DatesAreNat DEF RulesInv, RulesCohere, TypeOK
  <1>5. CASE CommitDetach(c) \/ CommitMove(c) \/ CommitDelete(c)
    <2> DEFINE t == session[c].tx
    <2>1. PICK op, row : CommitEdit(c, op, row) /\
            \/ op = "detach" /\ row = [tx[t] EXCEPT !.linked = FALSE]
            \/ op = "move" /\ row = [tx[t] EXCEPT !.at = session[c].at]
            \/ op = "delete" /\ row = Gone
      BY <1>5 DEF CommitDetach, CommitMove, CommitDelete
    <2>2. /\ tx' = [tx EXCEPT ![t] = row] /\ Live(t) /\ session[c].op = op
          /\ cut' = IF op = "move" THEN 0 ELSE cut
      BY <2>1 DEF CommitEdit, Commit
    <2>3. t \in Rows /\ (op = "move" => session[c].at \in Dates)
      BY <2>1, <2>2 DEF RulesInv, RequestsRead
    <2>4. tx[t] \in [row : {"live"}, at : Dates, linked : BOOLEAN, status : {"pending", "paid", "confirmed"}]
      BY <1>3, <2>2, <2>3 DEF RowOK, Live, NoRow, Gone
    <2>5. RowOK(row)
      BY <2>1, <2>3, <2>4 DEF RowOK
    <2>6. \A u \in Rows : RowOK(tx'[u])
      <3>1. \A u \in Rows : tx'[u] = IF u = t THEN row ELSE tx[u]
        BY <2>2 DEF RuleInv, Shaped
      <3>2. QED
        BY <1>3, <2>5, <3>1
    <2>7. cut' \in Dates
      BY <1>4, <2>2
    <2>8. QED
      BY <1>1, <1>2, <2>6, <2>7, RulesChange
  <1>6. CASE CommitDeactivate(c)
    BY <1>1, <1>2, <1>3, <1>4, <1>6, RulesChange DEF CommitDeactivate
  <1>7. CASE CommitDeleteFuture(c)
    <2>1. /\ session[c].op = "deleting" /\ cut' = Cut(c)
          /\ tx' = [t \in Rows |-> IF t \in session[c].hit THEN Gone ELSE tx[t]]
      BY <1>7 DEF CommitDeleteFuture, Commit
    <2>2. \A t \in Rows : RowOK(tx'[t])
      BY <1>3, <2>1 DEF RowOK
    <2>3. cut' \in Dates
      BY <1>4, <2>1 DEF Cut, RulesInv, RequestsRead, Deleting
    <2>4. QED
      BY <1>1, <1>2, <2>2, <2>3, RulesChange
  <1>8. QED
    BY <1>5, <1>6, <1>7

LEMMA RulesStatus ==
  ASSUME RuleInv, RulesInv, NEW t \in Rows, NEW from, NEW to \in {"pending", "paid", "confirmed"}, NEW op,
         SetStatus(t, from, to, op)
  PROVE  RulesInv'
  <1>1. /\ tx' = [tx EXCEPT ![t].status = to] /\ Live(t) /\ UNCHANGED <<rule, now, cron, session, faults, made>>
        /\ cut' = IF to = "pending" THEN 0 ELSE cut
    BY DEF SetStatus
  <1>2. \A u \in Rows : RowOK(tx[u])
    BY DEF RulesInv, RulesCohere, TypeOK, RowOK
  <1>3. tx[t] \in [row : {"live"}, at : Dates, linked : BOOLEAN, status : {"pending", "paid", "confirmed"}]
    BY <1>1, <1>2 DEF RowOK, Live, NoRow, Gone
  <1>4. RowOK([tx[t] EXCEPT !.status = to])
    BY <1>3 DEF RowOK
  <1>5. \A u \in Rows : tx'[u] = IF u = t THEN [tx[t] EXCEPT !.status = to] ELSE tx[u]
    BY <1>1 DEF RuleInv, Shaped
  <1>6. cut' \in Dates
    BY <1>1, DatesAreNat DEF RulesInv, RulesCohere, TypeOK
  <1>7. \A u \in Rows : RowOK(tx'[u])
    BY <1>2, <1>4, <1>5
  <1>8. (\A c \in Sessions : session'[c] = session[c] \/ session'[c] = Idle)
        /\ UNCHANGED <<rule, now, cron, faults, made>>
    BY <1>1
  <1>9. QED
    BY <1>6, <1>7, <1>8, RulesChange

\* Of a set of numbers, those before one of them are counted.
LEMMA FewBefore ==
  ASSUME NEW S \in SUBSET Nat, NEW t \in Nat, NEW T \in SUBSET S
  PROVE  LET before == {u \in S : u < t}
             taken  == {u \in T : u < t}
         IN  /\ Cardinality(taken) \in Nat /\ Cardinality(before) \in Nat
             /\ Cardinality(taken) <= Cardinality(before)
  <1> DEFINE before == {u \in S : u < t}
             taken  == {u \in T : u < t}
  <1>1. before \subseteq 0..t /\ taken \subseteq before
    <2>1. \A u \in S : u \in Nat /\ (u < t => u \in 0..t)
      OBVIOUS
    <2>2. QED
      BY <2>1
  <1> HIDE DEF before, taken
  <1>2. IsFiniteSet(0..t)
    BY FS_Interval
  <1>3. IsFiniteSet(before)
    BY <1>1, <1>2, FS_Subset
  <1>4. IsFiniteSet(taken) /\ Cardinality(taken) <= Cardinality(before)
    BY <1>1, <1>3, FS_Subset
  <1>5. Cardinality(taken) \in Nat /\ Cardinality(before) \in Nat
    BY <1>3, <1>4, FS_CardinalityType
  <1>6. QED
    BY <1>4, <1>5 DEF before, taken

\* Insert makes rows of the dates it is given.
LEMMA InsertsRows ==
  ASSUME RulesInv, NEW dates, dates \subseteq Dates, Insert(dates), Cardinality(dates) \in Nat,
         \A n \in Nat : n < Cardinality(dates) =>
           \E d \in dates : Cardinality({e \in dates : e < d}) = n
  PROVE  \A t \in Rows : RowOK(tx'[t])
  <1> DEFINE free == {t \in Rows : tx[t] = NoRow}
             ids  == {t \in free : Cardinality({u \in free : u < t}) < Cardinality(dates)}
             taken(t) == {u \in ids : u < t}
             date(t) == CHOOSE d \in dates :
                          Cardinality({e \in dates : e < d}) = Cardinality(taken(t))
  <1>1. tx' = [t \in Rows |-> IF t \in ids THEN NewRow(date(t)) ELSE tx[t]]
    BY DEF Insert
  <1>2. ASSUME NEW t \in ids PROVE date(t) \in Dates
    <2>1. t \in Nat /\ free \in SUBSET Nat /\ ids \in SUBSET free
          /\ Cardinality({u \in free : u < t}) < Cardinality(dates)
      BY RowsAssumption
    <2> HIDE DEF ids, free
    <2>2. Cardinality(taken(t)) \in Nat /\ Cardinality({u \in free : u < t}) \in Nat
          /\ Cardinality(taken(t)) <= Cardinality({u \in free : u < t})
      BY <2>1, FewBefore
    <2> HIDE DEF taken
    <2>3. Cardinality(taken(t)) \in Nat /\ Cardinality(taken(t)) < Cardinality(dates)
      BY <2>1, <2>2
    <2>4. \E d \in dates : Cardinality({e \in dates : e < d}) = Cardinality(taken(t))
      BY <2>3
    <2>5. date(t) \in dates
      BY <2>4
    <2>6. QED
      BY <2>5
  <1>3. \A t \in Rows : RowOK(tx[t])
    BY DEF RulesInv, RulesCohere, TypeOK, RowOK
  <1> HIDE DEF ids, date
  <1>4. QED
    BY <1>1, <1>2, <1>3 DEF RowOK, NewRow

LEMMA InsertsOne ==
  ASSUME RulesInv, NEW d \in Dates, Insert({d})
  PROVE  \A t \in Rows : RowOK(tx'[t])
  <1>1. Cardinality({d}) = 1
    BY FS_Singleton
  <1>2. d \in Nat /\ {e \in {d} : e < d} = {} /\ Cardinality({}) = 0
    BY DatesAreNat, FS_EmptySet
  <1>3. \A n \in Nat : n < 1 => n = 0
    OBVIOUS
  <1>4. \A n \in Nat : n < Cardinality({d}) => \E e \in {d} : Cardinality({f \in {d} : f < e}) = n
    BY <1>1, <1>2, <1>3
  <1>5. QED
    BY <1>1, <1>4, InsertsRows

\* The installments before one of them are as many as its place tells.
LEMMA InstallmentsAreOrdered ==
  ASSUME NEW start \in Starts, NEW n \in Counts, NEW k \in Nat, k < n
  PROVE  \E d \in InstallmentDates(start, n) :
           Cardinality({e \in InstallmentDates(start, n) : e < d}) = k
  <1> DEFINE S == InstallmentDates(start, n)
             at(i) == AddMonths(start, i - 1)
             f == [i \in 1..k |-> at(i)]
             d == at(k + 1)
             B == {e \in S : e < d}
  <1>1. n \in Nat \ {0} /\ k + 1 \in 1..n /\ 1..k \subseteq 1..n
    BY HorizonAssumption
  <1>2. \A i, j \in 1..n : i < j => at(i) < at(j)
    BY InstallmentsAscend
  <1>3. \A i \in 1..n : at(i) \in Nat
    BY InstallmentsAscend
  <1>4. S = {at(i) : i \in 1..n}
    BY DEF InstallmentDates
  <1> HIDE DEF at, S
  <1>5. f \in [1..k -> B] /\ \A e \in B : \E i \in 1..k : f[i] = e
    <2>1. ASSUME NEW i \in 1..k PROVE at(i) \in B
      BY <1>1, <1>2, <1>4
    <2>2. ASSUME NEW e \in B PROVE \E i \in 1..k : at(i) = e
      <3>1. PICK i \in 1..n : e = at(i)
        BY <1>4
      <3>2. i < k + 1
        BY <1>1, <1>2, <1>3, <3>1
      <3>3. QED
        BY <3>1, <3>2
    <2>3. QED
      BY <2>1, <2>2
  <1>6. \A i, j \in 1..k : f[i] = f[j] => i = j
    BY <1>1, <1>2, <1>3
  <1>7. f \in Bijection(1..k, B)
    BY <1>5, <1>6 DEF Bijection, Injection, Surjection, IsInjective
  <1>8. Cardinality(B) = k
    <2>1. IsFiniteSet(1..k) /\ Cardinality(1..k) = k
      BY FS_Interval
    <2>2. ExistsBijection(1..k, B)
      BY <1>7 DEF ExistsBijection
    <2>3. QED
      BY <2>1, <2>2, FS_Bijection
  <1>9. d \in S
    BY <1>1, <1>4
  <1>10. QED
    BY <1>8, <1>9 DEF S

-----------------------------------------------------------------------------
(* A rule is made, and the cron.                                            *)

LEMMA RulesCreate ==
  ASSUME RuleInv, RulesInv, NEW c \in Sessions, NEW start \in Starts, NEW monthly \in BOOLEAN,
         CreateFixed(c, start, monthly) \/ \E n \in Counts : CreateInstallments(c, start, n, monthly)
  PROVE  RulesInv'
  <1>1. UNCHANGED <<now, cron, session, faults, cut>> /\ cron = Asleep
    BY DEF CreateFixed, CreateInstallments, RulesInv, GenerationIsTheRules
  <1>2. RequestsRead' /\ GenerationIsTheRules'
    BY <1>1 DEF RulesInv, RequestsRead, Deleting, GenerationIsTheRules, Asleep
  <1>3. TypeOK
    BY DEF RulesInv, RulesCohere
  <1>4. CASE CreateFixed(c, start, monthly)
    <2> DEFINE next == AddMonths(start, 1)
    <2>1. /\ rule' = [mode |-> "fixed", monthly |-> monthly, installments |-> 0, next |-> next, active |-> TRUE]
          /\ made' = {start} /\ Insert({start})
      BY <1>4 DEF CreateFixed
    <2>2. start \in Nat /\ (start \div 32) + 2 \in DOMAIN MonthLen
      BY HorizonAssumption
    <2>3. PICK last \in Nat : DOMAIN MonthLen = 0..last /\ Dates = 0..(32 * (last + 1))
      BY Calendar
    <2> DEFINE m == (start \div 32) + 1
    <2>4. m \in Nat /\ m \in DOMAIN MonthLen /\ m + 1 \in DOMAIN MonthLen /\ start \in Dates
      <3>1. start \div 32 \in Nat /\ start % 32 \in 0..31 /\ start = 32 * (start \div 32) + (start % 32)
        BY <2>2, MonthAndDay
      <3>2. QED
        BY <2>2, <2>3, <3>1
    <2>5. next \in Dates /\ next \in Nat
      BY <2>2, <2>4, AddedInCalendar, DatesAreNat
    <2>6. start < next
      BY <2>2, <2>4, NextIsLater
    <2>7. start % 32 <= 28 => next % 32 = start % 32 /\ next \div 32 = (start \div 32) + 1
      BY <2>2, <2>4, SameDayNext
    <2>8. start = 32 * (start \div 32) + (start % 32) /\ start \div 32 \in Nat
      BY <2>2, MonthAndDay
    <2> HIDE DEF next
    <2>9. NoGapNoRepeat'
      <3>1. rule'.mode = "fixed" /\ rule'.next = next
        BY <2>1
      <3>2. ASSUME start % 32 <= 28, NEW month \in (start \div 32)..((next \div 32) - 1)
            PROVE  (32 * month) + (start % 32) = start
        <4>1. month = start \div 32
          BY <2>7, <2>8, <3>2
        <4>2. QED
          BY <2>8, <4>1
      <3>3. QED
        BY <2>1, <2>6, <3>1, <3>2 DEF NoGapNoRepeat
    <2>10. InstallmentsEndTheRule' /\ DayIsKept'
      BY <2>1, <2>7 DEF InstallmentsEndTheRule, DayIsKept
    <2>11. \A t \in Rows : RowOK(tx'[t])
      BY <2>1, <2>4, InsertsOne
    <2>12. TypeOK'
      BY <1>1, <1>3, <2>1, <2>4, <2>5, <2>11 DEF TypeOK, RowOK
    <2>13. QED
      BY <1>2, <2>9, <2>10, <2>12 DEF RulesInv, RulesCohere
  <1>5. ASSUME NEW n \in Counts, CreateInstallments(c, start, n, monthly) PROVE RulesInv'
    <2> DEFINE dates == InstallmentDates(start, n)
    <2>1. /\ rule' = [mode |-> "installment", monthly |-> monthly, installments |-> n,
                      next |-> AddMonths(start, n - 1), active |-> TRUE]
          /\ made' = dates /\ Insert(dates)
      BY <1>5 DEF CreateInstallments
    <2>2. /\ Cardinality(dates) = n /\ dates \subseteq Dates
          /\ AddMonths(start, n - 1) \in dates
          /\ \A d \in dates : d <= AddMonths(start, n - 1)
      BY InstallmentsAreCounted
    <2>3. n \in Nat
      BY HorizonAssumption
    <2>4. \A k \in Nat : k < n => \E d \in dates : Cardinality({e \in dates : e < d}) = k
      BY InstallmentsAreOrdered
    <2> HIDE DEF dates
    <2>5. \A t \in Rows : RowOK(tx'[t])
      BY <2>1, <2>2, <2>3, <2>4, InsertsRows
    <2>6. TypeOK'
      BY <1>1, <1>3, <2>1, <2>2, <2>5 DEF TypeOK, RowOK
    <2>7. NoGapNoRepeat' /\ InstallmentsEndTheRule' /\ DayIsKept'
      BY <2>1, <2>2 DEF NoGapNoRepeat, InstallmentsEndTheRule, DayIsKept
    <2>8. QED
      BY <1>2, <2>6, <2>7 DEF RulesInv, RulesCohere
  <1>6. QED
    BY <1>4, <1>5

LEMMA RulesWrite ==
  ASSUME RuleInv, RulesInv, Write
  PROVE  RulesInv'
  <1> DEFINE old  == rule.next
             next == AddMonths(old, 1)
             m    == (old \div 32) + 1
  <1>1. /\ cron.step = "write" /\ rule.mode = "fixed" /\ cron.next = old /\ old <= now
        /\ old \in Dates /\ old \in Nat /\ now \in Clock /\ TypeOK
    BY DatesAreNat DEF Write, RulesInv, RulesCohere, TypeOK, GenerationIsTheRules, Asleep
  <1>2. /\ rule' = [rule EXCEPT !.next = next] /\ made' = made \cup {old} /\ Insert({old})
        /\ cron' = Asleep /\ UNCHANGED <<now, session, faults, cut>>
    BY <1>1 DEF Write, Goto
  <1>3. m \in Nat /\ m \in DOMAIN MonthLen /\ m + 1 \in DOMAIN MonthLen /\ old \div 32 \in Nat
    <2>1. now \in Nat /\ (now \div 32) + 2 \in DOMAIN MonthLen
      BY <1>1, HorizonAssumption
    <2>2. PICK last \in Nat : DOMAIN MonthLen = 0..last
      BY Calendar
    <2>3. old \div 32 \in Nat /\ now \div 32 \in Nat /\ old \div 32 <= now \div 32
      <3>1. old = 32 * (old \div 32) + (old % 32) /\ old \div 32 \in Nat /\ old % 32 \in 0..31
        BY <1>1, MonthAndDay
      <3>2. now = 32 * (now \div 32) + (now % 32) /\ now \div 32 \in Nat /\ now % 32 \in 0..31
        BY <2>1, MonthAndDay
      <3>3. QED
        BY <1>1, <2>1, <3>1, <3>2
    <2>4. QED
      BY <2>1, <2>2, <2>3
  <1>4. next \in Dates /\ next \in Nat
    BY <1>1, <1>3, AddedInCalendar, DatesAreNat
  <1>5. old < next
    BY <1>1, <1>3, NextIsLater
  <1>6. old % 32 <= 28 => next % 32 = old % 32 /\ next \div 32 = m
    BY <1>1, <1>3, SameDayNext
  <1>7. old = 32 * (old \div 32) + (old % 32) /\ old \div 32 \in Nat
    BY <1>1, MonthAndDay
  <1> HIDE DEF next
  <1>8. rule'.mode = "fixed" /\ rule'.next = next /\ rule'.installments = rule.installments
        /\ rule' \in [mode : {"none", "fixed", "installment"}, monthly : BOOLEAN,
                      installments : Counts \cup {0}, next : Dates, active : BOOLEAN]
    BY <1>1, <1>2, <1>4 DEF TypeOK
  <1>9. \A date \in made : date \in Nat /\ date < old /\ (date % 32 <= 28 => old % 32 = date % 32)
    BY <1>1, DatesAreNat DEF TypeOK, RulesInv, RulesCohere, NoGapNoRepeat, DayIsKept
  <1>10. DayIsKept'
    BY <1>2, <1>6, <1>8, <1>9 DEF DayIsKept
  <1>11. NoGapNoRepeat'
    <2>1. \A date \in made' : date < next
      BY <1>1, <1>2, <1>4, <1>5, <1>9
    <2>2. ASSUME NEW date \in made', date % 32 <= 28, NEW month \in (date \div 32)..((next \div 32) - 1)
          PROVE  (32 * month) + (date % 32) \in made'
      <3>1. old % 32 = date % 32 /\ date \in Nat /\ date \div 32 \in Nat
        BY <1>1, <1>2, <1>9, <2>2, MonthAndDay
      <3>2. next \div 32 = (old \div 32) + 1
        BY <1>6, <2>2, <3>1
      <3>3. month \in Int /\ month <= old \div 32
        BY <1>7, <2>2, <3>1, <3>2
      <3>4. CASE month = old \div 32
        BY <1>2, <1>7, <3>1, <3>4
      <3>5. CASE month # old \div 32
        <4>1. CASE date = old
          BY <1>7, <2>2, <3>1, <3>3, <3>5, <4>1
        <4>2. CASE date # old
          <5>1. date \in made /\ month \in (date \div 32)..((old \div 32) - 1)
            BY <1>2, <1>7, <2>2, <3>1, <3>3, <3>5, <4>2
          <5>2. (32 * month) + (date % 32) \in made
            BY <1>1, <2>2, <5>1 DEF RulesInv, RulesCohere, NoGapNoRepeat
          <5>3. QED
            BY <1>2, <5>2
        <4>3. QED
          BY <4>1, <4>2
      <3>6. QED
        BY <3>4, <3>5
    <2>3. QED
      BY <1>8, <2>1, <2>2 DEF NoGapNoRepeat
  <1>12. \A t \in Rows : RowOK(tx'[t])
    BY <1>1, <1>2, InsertsOne
  <1>13. TypeOK'
    BY <1>1, <1>2, <1>8, <1>12 DEF TypeOK, RowOK
  <1>14. InstallmentsEndTheRule'
    BY <1>8 DEF InstallmentsEndTheRule
  <1>15. RequestsRead' /\ GenerationIsTheRules'
    BY <1>2 DEF RulesInv, RequestsRead, Deleting, GenerationIsTheRules, Asleep
  <1>16. QED
    BY <1>10, <1>11, <1>13, <1>14, <1>15 DEF RulesInv, RulesCohere

\* The clock and the cron.
LEMMA RulesCron ==
  ASSUME RuleInv, RulesInv, TimePasses \/ Cron \/ CronFails
  PROVE  RulesInv'
  <1>1. CASE Write
    BY <1>1, RulesWrite
  <1>2. CASE TimePasses \/ CronFails \/ FindDue \/ ReadRule \/ ReadLast
    <2>1. UNCHANGED <<rule, tx, session, made, cut>>
      BY <1>2 DEF TimePasses, CronFails, FindDue, ReadRule, ReadLast, Goto
    <2>2. NoGapNoRepeat' /\ InstallmentsEndTheRule' /\ DayIsKept' /\ RequestsRead'
      BY <2>1 DEF RulesInv, RulesCohere, NoGapNoRepeat, InstallmentsEndTheRule, DayIsKept, RequestsRead,
         Deleting
    <2>3. TypeOK
      BY DEF RulesInv, RulesCohere
    <2>4. rule.next \in Dates /\ rule.next \in Nat /\ now \in Nat
      BY <2>3, DatesAreNat, HorizonAssumption DEF TypeOK
    <2>5. now' \in Clock /\ now <= now' /\ faults' \in 0..MaxFaults
      BY <1>2, <2>3, <2>4, HorizonAssumption, MaxFaultsAssumption
         DEF TypeOK, TimePasses, CronFails, FindDue, ReadRule, ReadLast, Goto
    <2>6. \/ cron' = Asleep \/ cron' = cron
          \/ cron' = [step |-> "rule"] /\ FindDue
          \/ cron.step = "rule" /\ cron' = [step |-> "last", next |-> rule.next]
          \/ cron.step = "last" /\ cron' = [cron EXCEPT !.step = "write"]
      BY <1>2 DEF TimePasses, CronFails, FindDue, ReadRule, ReadLast, Goto
    <2>7. CASE cron' = Asleep \/ cron' = cron
      <3>1. GenerationIsTheRules'
        <4>1. now' \in Nat
          BY <2>5, HorizonAssumption
        <4>2. QED
          BY <2>1, <2>4, <2>5, <2>7, <4>1 DEF GenerationIsTheRules, RulesInv, Asleep
      <3>2. TypeOK'
        BY <2>1, <2>3, <2>5, <2>7 DEF TypeOK
      <3>3. QED
        BY <2>2, <3>1, <3>2 DEF RulesInv, RulesCohere
    <2>8. CASE cron' # Asleep /\ cron' # cron
      <3>1. now' = now /\ rule.mode = "fixed" /\ rule.next <= now
        <4>1. CASE FindDue
          BY <4>1 DEF FindDue, Goto
        <4>2. CASE ReadRule \/ ReadLast
          BY <4>2 DEF ReadRule, ReadLast, Goto, RulesInv, GenerationIsTheRules, Asleep
        <4>3. QED
          BY <1>2, <2>8, <4>1, <4>2 DEF TimePasses, CronFails
      <3>2. \/ cron' = [step |-> "rule"]
            \/ cron' = [step |-> "last", next |-> rule.next]
            \/ cron' = [step |-> "write", next |-> rule.next]
        <4>1. CASE cron.step = "last" /\ cron' = [cron EXCEPT !.step = "write"]
          <5>1. cron.next = rule.next /\ cron = [step |-> "last", next |-> cron.next]
            BY <2>3, <4>1 DEF RulesInv, GenerationIsTheRules, TypeOK, Asleep
          <5>2. QED
            BY <4>1, <5>1
        <4>2. QED
          BY <2>6, <2>8, <4>1
      <3>3. GenerationIsTheRules'
        BY <2>1, <3>1, <3>2 DEF GenerationIsTheRules
      <3>4. TypeOK'
        BY <2>1, <2>3, <2>4, <2>5, <3>2 DEF TypeOK
      <3>5. QED
        BY <2>2, <3>3, <3>4 DEF RulesInv, RulesCohere
    <2>9. QED
      BY <2>7, <2>8
  <1>3. QED
    BY <1>1, <1>2 DEF Cron

LEMMA RulesNext ==
  ASSUME RuleInv, RulesInv, [Next]_vars
  PROVE  RulesInv'
  <1>1. CASE UNCHANGED vars
    BY <1>1 DEF vars, RulesInv, RulesCohere, TypeOK, NoGapNoRepeat, InstallmentsEndTheRule, RequestsRead,
       Deleting, GenerationIsTheRules, DayIsKept
  <1>2. ASSUME NEW c \in Sessions, NEW start \in Starts, NEW monthly \in BOOLEAN,
               CreateFixed(c, start, monthly) \/ \E n \in Counts : CreateInstallments(c, start, n, monthly)
        PROVE  RulesInv'
    BY <1>2, RulesCreate
  <1>3. ASSUME NEW c \in Sessions,
               \/ CommitDetach(c) \/ CommitMove(c) \/ CommitDelete(c)
               \/ CommitDeactivate(c) \/ CommitDeleteFuture(c)
        PROVE  RulesInv'
    BY <1>3, RulesEdit
  <1>4. ASSUME NEW c \in Sessions,
               \/ OpenDeactivate(c) \/ DeleteRows(c) \/ Rollback(c)
               \/ \E t \in Rows : OpenDeleteFuture(c, t) \/ \E op \in {"detach", "delete"} : OpenEdit(c, t, op)
               \/ \E t \in Rows, date \in Moves : OpenMove(c, t, date)
        PROVE  RulesInv'
    BY <1>4, RulesRequest
  <1>5. ASSUME NEW t \in Rows,
               \/ SetStatus(t, "pending", "paid", "pay")
               \/ SetStatus(t, "paid", "pending", "unpay")
               \/ SetStatus(t, "paid", "confirmed", "confirm")
        PROVE  RulesInv'
    BY <1>5, RulesStatus
  <1>6. CASE TimePasses \/ Cron \/ CronFails
    BY <1>6, RulesCron
  <1>7. QED
    BY <1>1, <1>2, <1>3, <1>4, <1>5, <1>6 DEF Next

\* The dates of a fixed rule run on without a gap or a repetition, whatever
\* night the cron fails, and the installments of a rule are as many as were
\* asked for and end with it (create and generateNext of
\* recurring-rule.service.ts), for any calendar that is long enough.
THEOREM RulesStayCoherent == Spec => []RulesCohere
  <1>1. RulesInv => RulesCohere
    BY DEF RulesInv
  <1>2. RuleInv /\ RulesInv /\ [Next]_vars => RuleInv' /\ RulesInv'
    BY NextHolds, RulesNext
  <1>3. QED
    BY <1>1, <1>2, InitHolds, RulesInit, PTL DEF Spec

===============================================================================
