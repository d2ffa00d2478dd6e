----------------------------- MODULE Celebrations -----------------------------
(***************************************************************************)
(* One recurring celebration and the instances the scheduler makes of it   *)
(* two weeks ahead (celebrations/; the status of an instance, its order of *)
(* service and the reminder to its hosts are in ServiceOrders).            *)
(*                                                                         *)
(* A day is a number, MonthStart says where the months begin.  The         *)
(* scheduler compares instants: an instance somebody made by hand may have *)
(* a time of day, and is then at no instant the scheduler looks at.        *)
(***************************************************************************)
EXTENDS Integers, FiniteSets

CONSTANTS
  Instances,   \* instance ids: each is used once
  Runs,        \* scheduler runs at a time: cron of a process, manual trigger
  MonthStart,  \* [months -> first day], the last month is the calendar's end
  FirstWeekday,\* day of the week of day 0
  Today,       \* the days the clock shows, in their order
  Weekdays,    \* days of the week a celebration can be on
  HandMade,    \* instants an instance can be made for by hand
  MaxFaults    \* bound on failed statements and crashes

ASSUME MaxFaultsAssumption == MaxFaults \in Nat

VARIABLES
  celebration, \* committed row of celebrations
  instance,    \* [Instances -> committed row, or NoRow, or Gone]
  today,       \* the clock
  generation,  \* [Runs -> generateInstances in progress]
  faults,      \* faults so far
  raced        \* history: two generations ran at the same time

celebrationVars == <<celebration, instance, today, generation, faults, raced>>

NoRow == [row |-> "none"]
Gone  == [row |-> "deleted"]
Idle  == [op |-> "idle"]
Window == 14
Recurrences == {"none", "weekly", "biweekly", "monthly"}

Days == 0..MonthStart[Cardinality(DOMAIN MonthStart) - 1]
At(day) == [day |-> day, midnight |-> TRUE]

Live(i) == instance[i].row = "live"

\* Rows and runs are well formed.
TypeOK ==
  /\ celebration \in [recurrence : Recurrences, weekday : Weekdays, created : Today, active : BOOLEAN]
  /\ \A i \in Instances :
       \/ instance[i] \in {NoRow, Gone}
       \/ instance[i] \in [row : {"live"}, at : [day : Days, midnight : BOOLEAN], by : {"scheduler", "hand"}]
  /\ today \in Today
  /\ \A r \in Runs : generation[r] \in {Idle} \cup [op : {"check", "create"}, left : SUBSET Days]
  /\ faults \in 0..MaxFaults
  /\ raced \in BOOLEAN

-----------------------------------------------------------------------------
(* computeTargetDates and its helpers.                                      *)

Weekday(day) == (day + FirstWeekday) % 7

NextOrSame(day, weekday) == day + ((weekday - Weekday(day)) % 7)

MonthOf(day) ==
  CHOOSE m \in DOMAIN MonthStart : MonthStart[m] <= day /\ day < MonthStart[m + 1]

\* setUTCMonth: a day the next month does not have is in the one after it.
SameDayNextMonth(day) == MonthStart[MonthOf(day) + 1] + day - MonthStart[MonthOf(day)]

FirstInMonth(month, weekday) == NextOrSame(MonthStart[month], weekday)

Ahead(now) == now..(now + Window)

\* Mutant: the window ends a day early.
TargetDatesShort(recurrence, weekday, anchor, now) ==
  CASE recurrence = "weekly"   -> {d \in now..(now + Window - 1) : \E k \in 0..2 : d = NextOrSame(now, weekday) + 7 * k}
    [] recurrence = "biweekly" -> {d \in Ahead(now) : d >= anchor /\ (d - anchor) % 14 = 0}
    [] recurrence = "monthly"  -> {FirstInMonth(MonthOf(ref), weekday) : ref \in {now, SameDayNextMonth(now)}}
                                    \cap Ahead(now)
    [] OTHER                   -> {}

\* The dates of a celebration in the two weeks from now on.  The rhythm of
\* two weeks counts from the last instance, whatever day that is on.
TargetDates(recurrence, weekday, anchor, now) ==
  CASE recurrence = "weekly"   -> {d \in Ahead(now) : \E k \in 0..2 : d = NextOrSame(now, weekday) + 7 * k}
    [] recurrence = "biweekly" -> {d \in Ahead(now) : d >= anchor /\ (d - anchor) % 14 = 0}
    [] recurrence = "monthly"  -> {FirstInMonth(MonthOf(ref), weekday) : ref \in {now, SameDayNextMonth(now)}}
                                    \cap Ahead(now)
    [] OTHER                   -> {}

\* The calendar: months of four weeks at least, from day 0 on.
ASSUME CalendarAssumption ==
  /\ Cardinality(DOMAIN MonthStart) \in Nat \ {0}
  /\ DOMAIN MonthStart = 0..(Cardinality(DOMAIN MonthStart) - 1)
  /\ MonthStart[0] = 0
  /\ \A m \in DOMAIN MonthStart : MonthStart[m] \in Nat
  /\ \A m, n \in DOMAIN MonthStart : m < n => MonthStart[m] + 28 <= MonthStart[n]
  /\ FirstWeekday \in Int /\ Weekdays \subseteq 0..6
  /\ HandMade \subseteq [day : Days, midnight : BOOLEAN]

\* It reaches beyond every day the scheduler asks for.
ASSUME HorizonAssumption ==
  /\ Today \subseteq Nat
  /\ \A now \in Today : \A d \in Ahead(now) \cup {SameDayNextMonth(now)} :
       \E m \in DOMAIN MonthStart :
         m + 1 \in DOMAIN MonthStart /\ MonthStart[m] <= d /\ d < MonthStart[m + 1]

LastDay == {instance[i].at.day : i \in {j \in Instances : Live(j)}}

Anchor ==
  IF LastDay = {} THEN NextOrSame(celebration.created, celebration.weekday)
                  ELSE CHOOSE d \in LastDay : \A e \in LastDay : e <= d

-----------------------------------------------------------------------------
Init ==
  /\ today \in Today /\ \A d \in Today : today <= d
  /\ celebration \in [recurrence : Recurrences, weekday : Weekdays, created : {today}, active : {TRUE}]
  /\ instance = [i \in Instances |-> NoRow]
  /\ generation = [r \in Runs |-> Idle]
  /\ faults = 0
  /\ raced = FALSE

NextDay ==
  /\ \E d \in Today : d > today /\ (\A e \in Today : e > today => d <= e) /\ today' = d
  /\ UNCHANGED <<celebration, instance, generation, faults, raced>>

-----------------------------------------------------------------------------
(* celebrations.service.ts and celebration-instances.service.ts.  What they *)
(* read only decides whether the row is there.                              *)

Change(row) ==
  /\ celebration' = row
  /\ UNCHANGED <<instance, today, generation, faults, raced>>

UpdateCelebration(recurrence, weekday) ==
  Change([celebration EXCEPT !.recurrence = recurrence, !.weekday = weekday])

RemoveCelebration == Change([celebration EXCEPT !.active = FALSE])

NewInstance(at, by) == [row |-> "live", at |-> at, by |-> by]

Write(i, row) ==
  /\ instance' = [instance EXCEPT ![i] = row]
  /\ UNCHANGED <<celebration, today, faults, raced>>

CreateInstance(i, at) ==
  /\ instance[i] = NoRow
  /\ Write(i, NewInstance(at, "hand"))
  /\ UNCHANGED generation

RemoveInstance(i) ==
  /\ Live(i)
  /\ Write(i, Gone)
  /\ UNCHANGED generation

-----------------------------------------------------------------------------
(* generateInstances, statement by statement.                               *)

Generating(r, next) == generation' = [generation EXCEPT ![r] = next]

Generate(r) ==
  /\ generation[r] = Idle
  /\ celebration.active /\ celebration.recurrence # "none"
  /\ Generating(r, [op |-> "check",
       left |-> TargetDates(celebration.recurrence, celebration.weekday, Anchor, today)])
  /\ raced' = (raced \/ \E q \in Runs : generation[q] # Idle)
  /\ UNCHANGED <<celebration, instance, today, faults>>

Earliest(days) == CHOOSE d \in days : \A e \in days : d <= e

Taken(at) == \E i \in Instances : Live(i) /\ instance[i].at = at

\* Mutant: an instance by hand counts, one of the scheduler does not.
CheckHandMade(r) ==
  /\ generation[r].op = "check" /\ generation[r].left # {}
  /\ LET d == Earliest(generation[r].left)
     IN  Generating(r, IF \E i \in Instances : Live(i) /\ instance[i].at = At(d) /\ instance[i].by = "hand"
                       THEN [generation[r] EXCEPT !.left = @ \ {d}]
                       ELSE [generation[r] EXCEPT !.op = "create"])
  /\ UNCHANGED <<celebration, instance, today, faults, raced>>

Check(r) ==
  /\ generation[r].op = "check" /\ generation[r].left # {}
  /\ LET d == Earliest(generation[r].left)
     IN  Generating(r, IF Taken(At(d)) THEN [generation[r] EXCEPT !.left = @ \ {d}]
                                       ELSE [generation[r] EXCEPT !.op = "create"])
  /\ UNCHANGED <<celebration, instance, today, faults, raced>>

Make(r, i) ==
  /\ generation[r].op = "create" /\ instance[i] = NoRow
  /\ LET d == Earliest(generation[r].left)
     IN  /\ Write(i, NewInstance(At(d), "scheduler"))
         /\ Generating(r, [op |-> "check", left |-> generation[r].left \ {d}])

GenerationEnds(r) ==
  /\ generation[r].op = "check" /\ generation[r].left = {}
  /\ Generating(r, Idle)
  /\ UNCHANGED <<celebration, instance, today, faults, raced>>

\* A statement fails and the rest of the celebration is given up, or the
\* process dies.
GenerationFails(r) ==
  /\ generation[r] # Idle /\ faults < MaxFaults
  /\ faults' = faults + 1
  /\ Generating(r, Idle)
  /\ UNCHANGED <<celebration, instance, today, raced>>

-----------------------------------------------------------------------------
Next ==
  \/ NextDay
  \/ \E recurrence \in Recurrences, weekday \in Weekdays : UpdateCelebration(recurrence, weekday)
  \/ RemoveCelebration
  \/ \E i \in Instances :
       \/ \E at \in HandMade : CreateInstance(i, at)
       \/ RemoveInstance(i)
  \/ \E r \in Runs :
       \/ Generate(r)
       \/ Check(r)
       \/ \E i \in Instances : Make(r, i)
       \/ GenerationEnds(r)
       \/ GenerationFails(r)

Spec == Init /\ [][Next]_celebrationVars

-----------------------------------------------------------------------------
(* Properties.                                                              *)

\* The dates of computeTargetDates are what the secretary means by every
\* week, every second week and once a month: every occurrence in the window
\* that has the weekday, and none else.  The month after next is looked at
\* instead of the next one where that has no such day as today.
TargetsAreOccurrences ==
  \A weekday \in Weekdays :
    LET Occurrences == {d \in Ahead(today) : Weekday(d) = weekday}
        FirstOfMonth == {d \in Occurrences : \A e \in MonthStart[MonthOf(d)]..d : Weekday(e) = weekday => e = d}
        NextMonthHasToday == MonthOf(SameDayNextMonth(today)) = MonthOf(today) + 1
    IN  /\ TargetDates("weekly", weekday, today, today) = Occurrences
        /\ \A first \in Occurrences \cup {today} :
             TargetDates("biweekly", weekday, first, today) = {d \in {first, first + 14} : d \in Ahead(today)}
        /\ NextMonthHasToday => TargetDates("monthly", weekday, today, today) = FirstOfMonth
        /\ TargetDates("monthly", weekday, today, today) \subseteq FirstOfMonth

\* Unless two generations ran at the same time, no date was made twice by
\* the scheduler, whatever was made, moved and removed by hand meanwhile.
MadeOnceUnlessRaced ==
  raced \/ \A i, j \in Instances :
             /\ Live(i) /\ Live(j)
             /\ instance[i].by = "scheduler" /\ instance[j].by = "scheduler"
             /\ instance[i].at = instance[j].at
             => i = j

\* What Celebrations checks of its states, but for the pure dates.
CelebrationsCohere == TypeOK /\ MadeOnceUnlessRaced
===============================================================================
