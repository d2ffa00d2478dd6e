------------------------------ MODULE Categories ------------------------------
(***************************************************************************)
(* Financial categories, the rows booked under them, and the reports that  *)
(* read both (financial/categories.service.ts, dre.service.ts,             *)
(* dashboard.service.ts, forecast.service.ts).                             *)
(*                                                                         *)
(* A row has a type of its own and a category that has one too.  The       *)
(* income statement sorts rows by the type of the category, the dashboard  *)
(* and the forecast by the type of the row: they tell the same story as    *)
(* long as the two agree, and no constraint of the database says so.       *)
(* Amounts are one each, so that a sum is a set of rows.  Names and the    *)
(* parents of categories are left out.                                     *)
(***************************************************************************)
EXTENDS Integers

CONSTANTS
  Cats,        \* category ids: each is used once
  SystemCats,  \* the categories the tenant was provisioned with
  Rows,        \* row ids: each is used once
  Occurred,    \* [Rows -> day of the row]
  Now,         \* the day the reports are asked for
  MonthStart,  \* the first day of its month
  MonthLength, \* days of a month
  Sessions     \* connections of the treasurers

VARIABLES
  kind,      \* [Cats -> type, or Unmade, or Gone]
  type,      \* [Rows -> type, or Unmade, or Gone]
  category,  \* [Rows -> category_id, or None]
  request,   \* [Sessions -> open request]
  excused    \* history: rows whose type was edited alone, or that a request
             \* wrote which had read what another one then committed

categoryVars == <<kind, type, category, request, excused>>

Kinds  == {"income", "expense"}
Unmade == "unmade"
Gone   == "gone"
None   == "none"
Keep   == "keep"  \* a field the request leaves out
Idle   == [op |-> "idle", row |-> None, category |-> None, type |-> Keep, stale |-> FALSE]

LiveCats  == {k \in Cats : kind[k] \in Kinds}
LiveRows  == {r \in Rows : type[r] \in Kinds}
RowsOf(k) == {r \in LiveRows : category[r] = k}

\* Rows, categories and requests are well formed, and the foreign keys hold.
TypeOK ==
  /\ kind \in [Cats -> Kinds \cup {Unmade, Gone}]
  /\ type \in [Rows -> Kinds \cup {Unmade, Gone}]
  /\ category \in [Rows -> Cats \cup {None}]
  /\ request \in [Sessions -> [op : {"idle", "book", "edit", "add", "change", "drop"},
                               row : Rows \cup {None}, category : Cats \cup {None, Keep},
                               type : Kinds \cup {Keep}, stale : BOOLEAN]]
  /\ excused \subseteq Rows
  /\ \A r \in LiveRows : category[r] \in LiveCats

Init ==
  /\ kind = [k \in Cats |-> IF k \in SystemCats THEN "income" ELSE Unmade]
  /\ type = [r \in Rows |-> Unmade]
  /\ category = [r \in Rows |-> None]
  /\ request = [c \in Sessions |-> Idle]
  /\ excused = {}

Open(c, next) ==
  /\ request[c] = Idle
  /\ request' = [request EXCEPT ![c] = next]
  /\ UNCHANGED <<kind, type, category, excused>>

\* The rows and categories an open request has read.
Read(q) ==
  ({q.row, q.category} \cup {category[r] : r \in Rows \cap {q.row}}) \ {None, Keep}

\* Request c ends: it wrote rows, and the type of some of them alone; what
\* others have read is now stale.
Close(c, rows, alone) ==
  /\ request' = [d \in Sessions |->
       IF d = c THEN Idle
       ELSE [request[d] EXCEPT !.stale = @ \/ Read(request[c]) \cap Read(request[d]) # {}]]
  /\ excused' = excused \cup alone \cup (IF request[c].stale THEN rows ELSE {})

Rollback(c) ==
  /\ request[c] # Idle
  /\ request' = [request EXCEPT ![c] = Idle]
  /\ UNCHANGED <<kind, type, category, excused>>

-----------------------------------------------------------------------------
(* Rows.                                                                    *)

OpenBook(c, k, t) ==
  /\ k \in LiveCats /\ t = kind[k]
  /\ Open(c, [Idle EXCEPT !.op = "book", !.category = k, !.type = t])

CommitBook(c, r) ==
  LET q == request[c]
  IN  /\ q.op = "book" /\ type[r] = Unmade /\ q.category \in LiveCats
      /\ type' = [type EXCEPT ![r] = q.type]
      /\ category' = [category EXCEPT ![r] = q.category]
      /\ Close(c, {r}, {})
      /\ UNCHANGED kind

\* The type is compared with the category only when the category changes.
OpenEdit(c, r, k, t) ==
  /\ r \in LiveRows
  /\ k # category[r] /\ (k # Keep \/ t # Keep)
  /\ k = Keep \/ (k \in LiveCats /\ kind[k] = IF t = Keep THEN type[r] ELSE t)
  /\ Open(c, [Idle EXCEPT !.op = "edit", !.row = r, !.category = k, !.type = t])

CommitEdit(c) ==
  LET q == request[c]
  IN  /\ q.op = "edit" /\ q.row \in LiveRows
      /\ q.category = Keep \/ q.category \in LiveCats
      /\ type' = [type EXCEPT ![q.row] = IF q.type = Keep THEN @ ELSE q.type]
      /\ category' = [category EXCEPT ![q.row] = IF q.category = Keep THEN @ ELSE q.category]
      /\ Close(c, {q.row}, IF q.type # Keep /\ category' = category THEN {q.row} ELSE {})
      /\ UNCHANGED kind

RemoveRow(r) ==
  /\ r \in LiveRows
  /\ type' = [type EXCEPT ![r] = Gone]
  /\ UNCHANGED <<kind, category, request, excused>>

-----------------------------------------------------------------------------
(* create, update and remove of a category.                                 *)

OpenAdd(c, t) == Open(c, [Idle EXCEPT !.op = "add", !.type = t])

CommitAdd(c, k) ==
  LET q == request[c]
  IN  /\ q.op = "add" /\ kind[k] = Unmade
      /\ kind' = [kind EXCEPT ![k] = q.type]
      /\ Close(c, {}, {})
      /\ UNCHANGED <<type, category>>

\* Mutant: the rows of the category are not counted.
OpenChangeUsed(c, k, t) ==
  k \in LiveCats /\ Open(c, [Idle EXCEPT !.op = "change", !.category = k, !.type = t])

OpenChange(c, k, t) ==
  /\ k \in LiveCats
  /\ t = kind[k] \/ RowsOf(k) = {}
  /\ Open(c, [Idle EXCEPT !.op = "change", !.category = k, !.type = t])

CommitChange(c) ==
  LET q == request[c]
  IN  /\ q.op = "change" /\ q.category \in LiveCats
      /\ kind' = [kind EXCEPT ![q.category] = q.type]
      /\ Close(c, RowsOf(q.category), {})
      /\ UNCHANGED <<type, category>>

OpenDrop(c, k) ==
  /\ k \in LiveCats \ SystemCats /\ RowsOf(k) = {}
  /\ Open(c, [Idle EXCEPT !.op = "drop", !.category = k])

\* The foreign key of the rows restricts.
CommitDrop(c) ==
  LET q == request[c]
  IN  /\ q.op = "drop" /\ q.category \in LiveCats /\ RowsOf(q.category) = {}
      /\ kind' = [kind EXCEPT ![q.category] = Gone]
      /\ Close(c, {}, {})
      /\ UNCHANGED <<type, category>>

-----------------------------------------------------------------------------
Next ==
  \/ \E c \in Sessions :
       \/ \E k \in Cats, t \in Kinds : OpenBook(c, k, t)
       \/ \E r \in Rows : CommitBook(c, r)
       \/ \E r \in Rows, k \in Cats \cup {Keep}, t \in Kinds \cup {Keep} : OpenEdit(c, r, k, t)
       \/ CommitEdit(c)
       \/ \E t \in Kinds : OpenAdd(c, t)
       \/ \E k \in Cats : CommitAdd(c, k)
       \/ \E k \in Cats, t \in Kinds : OpenChange(c, k, t)
       \/ CommitChange(c)
       \/ \E k \in Cats : OpenDrop(c, k)
       \/ CommitDrop(c)
       \/ Rollback(c)
  \/ \E r \in Rows : RemoveRow(r)

Spec == Init /\ [][Next]_categoryVars

-----------------------------------------------------------------------------
(* The reports.                                                             *)

In(first, last) == {r \in LiveRows : Occurred[r] \in first..last}

\* buildDre: both sides of a period, by the type of the category.
Revenue(first, last)  == {r \in In(first, last) : kind[category[r]] = "income"}
Expenses(first, last) == In(first, last) \ Revenue(first, last)

\* The period of the same length before it.
PreviousFirst(first, last) == first - (last - first + 1)
PreviousLast(first, last)  == first - 1

\* getWeeklyDashboard: the month so far, by the type of the row, and the
\* categories of its income, which are not cut off at the present.
MonthOf(t)    == {r \in In(MonthStart, Now) : type[r] = t}
LastMonthOf(t) == {r \in In(MonthStart - MonthLength, MonthStart - 1) : type[r] = t}
TopCategories == {category[r] : r \in {s \in LiveRows : type[s] = "income" /\ Occurred[s] >= MonthStart}}

\* getForecast: the income of the last months.
History == {r \in In(MonthStart - 3 * MonthLength, MonthStart - 1) : type[r] = "income"}

-----------------------------------------------------------------------------
(* Properties.                                                              *)

\* The income statement and the dashboard put a row on the same side, and the
\* forecast is drawn from what the statement calls revenue, unless the type of
\* the row was edited alone or requests on it overlapped.
ReportsAgree ==
  /\ Revenue(MonthStart, Now) \ excused = MonthOf("income") \ excused
  /\ Expenses(MonthStart, Now) \ excused = MonthOf("expense") \ excused
  /\ LET first == PreviousFirst(MonthStart, MonthStart + MonthLength - 1)
         last  == PreviousLast(MonthStart, MonthStart + MonthLength - 1)
     IN  /\ Revenue(first, last) \ excused = LastMonthOf("income") \ excused
         /\ Revenue(first, last) \ excused \subseteq History
  /\ \A k \in TopCategories : kind[k] = "income" \/ RowsOf(k) \cap excused # {}

\* What Categories checks of its states.
BooksCohere == TypeOK /\ ReportsAgree
==============================================================================
