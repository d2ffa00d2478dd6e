----------------------------- MODULE ImportsProofs -----------------------------
(***************************************************************************)
(* The imports and the items of an order, for any imports, spreadsheets,   *)
(* phones, limits, sessions, items and faults: the job of a long import    *)
(* implements ExportJob, two persons with one phone come from imports that *)
(* ran at the same time, what an import counts is what it made, and the    *)
(* numbers of items keep their places apart but for the overlaps named.    *)
(***************************************************************************)
EXTENDS MCImports, FiniteSetTheorems, TLAPS

FileRow == [named : BOOLEAN, mail : BOOLEAN, phone : Phones \cup {NoPhone},
            entry : {"good", "invalid", "refused"}]

ImportRow == [step : Running \cup {"done", "stopped"}, file : Files, at : Nat \ {0},
              imported : Nat, skipped : Nat, failed : Nat, broken : BOOLEAN]

Typed ==
  /\ import \in [Imports -> {Idle} \cup ImportRow]
  /\ job \in [Imports -> {"none", "pending", "processing", "done", "error"}]
  /\ made = [i \in Imports |-> made[i]]
  /\ \A i \in Imports : import[i] \in ImportRow =>
       made[i] \in [DOMAIN import[i].file -> {"none", "person", "consented"}]
  /\ \A i \in Imports : import[i] = Idle => made[i] = <<>>
  /\ overlap \subseteq Imports \X Imports

Long(i)  == import[i] # Idle /\ ~IsShort(i)
Short(i) == import[i] # Idle /\ IsShort(i)

\* The row of the job of a long import is where its worker is; a short import
\* has no job.
JobsTell ==
  \A i \in Imports :
    /\ ~Long(i) => job[i] = "none"
    /\ Short(i) => import[i].step \notin {"accepted", "queued", "fail"}
    /\ Long(i) =>
         /\ Step(i, "accepted") => job[i] = "none"
         /\ Step(i, "queued") => job[i] = "pending"
         /\ import[i].step \in {"check", "insert", "consent", "fail"} => job[i] = "processing"

\* An import has made nothing of the rows it has not come to.
RowsInTurn ==
  \A i \in Imports : Active(i) =>
    /\ \A k \in DOMAIN made[i] :
         made[i][k] # "none" => k < import[i].at \/ (k = import[i].at /\ Step(i, "consent"))
    /\ import[i].step \in {"insert", "consent"} => import[i].at \in DOMAIN made[i]
    /\ Step(i, "consent") => made[i][import[i].at] # "none"

\* A short import that stopped left nothing.
StoppedLeftNothing ==
  \A i \in Imports : Short(i) /\ Step(i, "stopped") =>
    \A k \in DOMAIN made[i] : made[i][k] = "none"

\* Imports that are under way at the same time overlap.
ActiveOverlap ==
  /\ \A i, j \in Imports : i # j /\ Active(i) /\ Active(j) => <<i, j>> \in overlap
  /\ \A i, j \in Imports : <<i, j>> \in overlap => <<j, i>> \in overlap

\* The phone of the row that is about to be inserted belongs to persons of
\* overlapping imports only.
TakenUnseen ==
  \A i \in Imports : Step(i, "insert") /\ Row(i).phone # NoPhone =>
    \A j \in Imports : \A l \in DOMAIN made[j] :
      made[j][l] # "none" /\ import[j].file[l].phone = Row(i).phone => <<i, j>> \in overlap

ImportInv ==
  Typed /\ JobsTell /\ RowsInTurn /\ StoppedLeftNothing /\ ActiveOverlap /\ TakenUnseen
    /\ DuplicateOnlyByOverlap

-----------------------------------------------------------------------------
(* The steps of one import, one record at a time.                           *)

LEMMA RowsOfFiles ==
  ASSUME NEW f \in Files
  PROVE  /\ Len(f) \in Nat /\ DOMAIN f = 1..Len(f)
         /\ \A k \in 1..Len(f) : f[k].phone \in Phones \cup {NoPhone}
  <1>1. f \in Seq(FileRow)
    BY FilesAssumption DEF FileRow
  <1>2. \A k \in 1..Len(f) : f[k] \in FileRow
    BY <1>1
  <1>3. QED
    BY <1>1, <1>2 DEF FileRow

LEMMA ImportsAre ==
  /\ \A r \in ImportRow : r.step \in Running \cup {"done", "stopped"} /\ r.step # "idle" /\ r # Idle
  /\ Idle.step = "idle" /\ "idle" \notin Running
  <1>1. \A r \in ImportRow : r.step \in Running \cup {"done", "stopped"}
    BY DEF ImportRow
  <1>2. Idle.step = "idle" /\ "idle" \notin Running
    BY DEF Idle, Running
  <1>3. QED
    BY <1>1, <1>2

\* What a step of an import that is under way may do to its record.
Goes(r, new) ==
  /\ new \in ImportRow
  /\ new.file = r.file
  /\ new.at \in {r.at, r.at + 1}

LEMMA SetStep ==
  ASSUME NEW r \in ImportRow, NEW step \in Running \cup {"done", "stopped"}
  PROVE  /\ Goes(r, [r EXCEPT !.step = step])
         /\ [r EXCEPT !.step = step].step = step
         /\ [r EXCEPT !.step = step].at = r.at
  BY DEF Goes, ImportRow

LEMMA Counted ==
  ASSUME NEW r \in ImportRow, NEW counter \in {"imported", "skipped", "failed"},
         NEW new, new = [r EXCEPT !.at = @ + 1, !.step = "check", ![counter] = @ + 1]
  PROVE  Goes(r, new) /\ new.step = "check" /\ new.at = r.at + 1
  <1> DEFINE n == r.at + 1
             m == r[counter] + 1
  <1>1. n \in Nat \ {0} /\ m \in Nat
    BY DEF ImportRow
  <1>2. new = [r EXCEPT !.at = n, !.step = "check", ![counter] = m]
    OBVIOUS
  <1>3. ASSUME new.at = n PROVE new.at = r.at + 1
    BY <1>3
  <1> HIDE DEF n, m
  <1>4. new.file = r.file /\ new.step = "check" /\ new.at = n
    BY <1>2 DEF ImportRow
  <1>5. new \in ImportRow
    <2>1. CASE counter = "imported"
      BY <1>1, <1>2, <2>1 DEF ImportRow, Running
    <2>2. CASE counter = "skipped"
      BY <1>1, <1>2, <2>2 DEF ImportRow, Running
    <2>3. CASE counter = "failed"
      BY <1>1, <1>2, <2>3 DEF ImportRow, Running
    <2>4. QED
      BY <2>1, <2>2, <2>3
  <1>6. QED
    BY <1>3, <1>4, <1>5 DEF Goes

LEMMA Reported ==
  ASSUME NEW r \in ImportRow, NEW c \in BOOLEAN,
         NEW new, new = [r EXCEPT !.at = @ + 1, !.step = "check", !.failed = @ + 1, !.broken = c]
  PROVE  Goes(r, new) /\ new.step = "check" /\ new.at = r.at + 1
  <1> DEFINE n == r.at + 1
             m == r.failed + 1
  <1>1. n \in Nat \ {0} /\ m \in Nat
    BY DEF ImportRow
  <1>2. new = [r EXCEPT !.at = n, !.step = "check", !.failed = m, !.broken = c]
    OBVIOUS
  <1>3. ASSUME new.at = n PROVE new.at = r.at + 1
    BY <1>3
  <1> HIDE DEF n, m
  <1>4. new \in ImportRow /\ new.file = r.file /\ new.step = "check" /\ new.at = n
    BY <1>1, <1>2 DEF ImportRow, Running
  <1>5. QED
    BY <1>3, <1>4 DEF Goes

\* A step of import i that makes new of its record.
Does(i, new) ==
  /\ import[i] \in ImportRow
  /\ import' = [import EXCEPT ![i] = new]
  /\ Goes(import[i], new)
  /\ UNCHANGED overlap

\* A step of import i marks the row it is at.
Marks(i, mark) == made' = [made EXCEPT ![i][import[i].at] = mark]

LEMMA AtWork ==
  ASSUME Typed, NEW i \in Imports, import[i].step # "idle"
  PROVE  import[i] \in ImportRow /\ import[i] # Idle
  BY ImportsAre DEF Typed

LEMMA OnlyStep ==
  ASSUME NEW i \in Imports, import[i] \in ImportRow, NEW step \in Running \cup {"done", "stopped"},
         import' = [import EXCEPT ![i].step = step], UNCHANGED overlap
  PROVE  \E new : Does(i, new) /\ new.step = step /\ new.at = import[i].at
  <1> DEFINE next == [import[i] EXCEPT !.step = step]
  <1>1. Goes(import[i], next) /\ next.step = step /\ next.at = import[i].at
    BY SetStep
  <1>2. import' = [import EXCEPT ![i] = next]
    OBVIOUS
  <1> HIDE DEF next
  <1>3. QED
    BY <1>1, <1>2 DEF Does

LEMMA PassesRow ==
  ASSUME Typed, NEW i \in Imports,
         SkipIncomplete(i) \/ SkipKnown(i) \/ InsertRefused(i) \/ InsertFails(i)
  PROVE  \E new : /\ Does(i, new) /\ new.step = "check" /\ new.at = import[i].at + 1
                  /\ import[i].step \in {"check", "insert", "consent"}
                  /\ UNCHANGED <<made, job>>
  <1>1. import[i].step \in {"check", "insert", "consent"} /\ UNCHANGED <<made, job, overlap>>
    BY DEF SkipIncomplete, SkipKnown, InsertRefused, InsertFails, Checking, Step, Report
  <1>2. import[i] \in ImportRow
    BY <1>1, AtWork
  <1>3. CASE SkipIncomplete(i) \/ SkipKnown(i)
    <2>1. PICK counter \in {"failed", "skipped"} : Count(i, counter)
      BY <1>3 DEF SkipIncomplete, SkipKnown
    <2> DEFINE new == [import[i] EXCEPT !.at = @ + 1, !.step = "check", ![counter] = @ + 1]
    <2>2. import' = [import EXCEPT ![i] = new]
      BY <2>1 DEF Count
    <2>3. Goes(import[i], new) /\ new.step = "check" /\ new.at = import[i].at + 1
      BY <1>2, Counted
    <2> HIDE DEF new
    <2>4. QED
      BY <1>1, <1>2, <2>2, <2>3 DEF Does
  <1>4. CASE InsertRefused(i) \/ InsertFails(i)
    <2>1. PICK reached \in BOOLEAN : Report(i, reached)
      BY <1>4 DEF InsertRefused, InsertFails
    <2> DEFINE c   == import[i].broken \/ (reached /\ IsShort(i))
               new == [import[i] EXCEPT !.at = @ + 1, !.step = "check", !.failed = @ + 1, !.broken = c]
    <2>2. import' = [import EXCEPT ![i] = new]
      BY <2>1 DEF Report
    <2>3. c \in BOOLEAN
      OBVIOUS
    <2> HIDE DEF c
    <2>4. Goes(import[i], new) /\ new.step = "check" /\ new.at = import[i].at + 1
      BY <1>2, <2>3, Reported
    <2> HIDE DEF new
    <2>5. QED
      BY <1>1, <1>2, <2>2, <2>4 DEF Does
  <1>5. QED
    BY <1>3, <1>4

LEMMA TakesRow ==
  ASSUME Typed, NEW i \in Imports, Take(i)
  PROVE  \E new : /\ Does(i, new) /\ new.step = "insert" /\ new.at = import[i].at
                  /\ Step(i, "check") /\ import[i].at <= Len(import[i].file)
                  /\ Row(i).phone # NoPhone => ~Known(i, Row(i).phone)
                  /\ UNCHANGED <<made, job>>
  <1>1. import[i] \in ImportRow
    BY AtWork DEF Take, Checking, Step
  <1>2. "insert" \in Running
    BY DEF Running
  <1>3. \E new : Does(i, new) /\ new.step = "insert" /\ new.at = import[i].at
    BY <1>1, <1>2, OnlyStep DEF Take, Checking
  <1>4. QED
    BY <1>3 DEF Take, Checking

LEMMA InsertsRow ==
  ASSUME Typed, NEW i \in Imports, Insert(i)
  PROVE  \E new : /\ Does(i, new) /\ new.step = "consent" /\ new.at = import[i].at
                  /\ Step(i, "insert") /\ Marks(i, "person") /\ UNCHANGED job
  <1>1. import[i] \in ImportRow
    BY AtWork DEF Insert, Step
  <1>2. "consent" \in Running
    BY DEF Running
  <1>3. \E new : Does(i, new) /\ new.step = "consent" /\ new.at = import[i].at
    BY <1>1, <1>2, OnlyStep DEF Insert, Goto
  <1>4. QED
    BY <1>3 DEF Insert, Marks

LEMMA ConsentsRow ==
  ASSUME Typed, NEW i \in Imports, Consent(i)
  PROVE  \E new : /\ Does(i, new) /\ new.step = "check" /\ new.at = import[i].at + 1
                  /\ Step(i, "consent") /\ Marks(i, "consented") /\ UNCHANGED job
  <1> DEFINE new == [import[i] EXCEPT !.at = @ + 1, !.step = "check", !["imported"] = @ + 1]
  <1>1. import[i] \in ImportRow
    BY AtWork DEF Consent, Step
  <1>2. import' = [import EXCEPT ![i] = new] /\ UNCHANGED <<job, overlap>>
        /\ Step(i, "consent") /\ Marks(i, "consented")
    BY DEF Consent, Count, Marks
  <1>3. Goes(import[i], new) /\ new.step = "check" /\ new.at = import[i].at + 1
    BY <1>1, Counted
  <1> HIDE DEF new
  <1>4. QED
    BY <1>1, <1>2, <1>3 DEF Does

\* An import ends, but for what its job says: rows are kept, or rolled back.
LEMMA EndsRows ==
  ASSUME Typed, NEW i \in Imports, CheckRefused(i) \/ CheckFails(i) \/ AnswerShort(i)
  PROVE  \E new : /\ Does(i, new) /\ new.at = import[i].at /\ Step(i, "check")
                  /\ UNCHANGED job
                  /\ \/ ~IsShort(i) /\ new.step = "fail" /\ UNCHANGED made
                     \/ /\ IsShort(i) /\ new.step \in {"done", "stopped"}
                        /\ \/ made' = [made EXCEPT ![i] = Nothing(import[i].file)]
                           \/ new.step = "done" /\ UNCHANGED made
  <1>1. Step(i, "check") /\ import[i] \in ImportRow /\ UNCHANGED <<job, overlap>>
    BY AtWork DEF CheckRefused, CheckFails, AnswerShort, AllRows, Throw, Goto, Step
  <1>2. "fail" \in Running /\ made = [j \in Imports |-> made[j]]
    BY DEF Running, Typed
  <1>3. CASE AnswerShort(i)
    <2>1. IsShort(i) /\ (made' = [made EXCEPT ![i] = Nothing(import[i].file)] \/ UNCHANGED made)
      BY <1>2, <1>3 DEF AnswerShort
    <2>2. \E new : Does(i, new) /\ new.step = "done" /\ new.at = import[i].at
      BY <1>1, <1>3, OnlyStep DEF AnswerShort, Goto
    <2>3. QED
      BY <1>1, <2>1, <2>2
  <1>4. CASE CheckRefused(i) \/ CheckFails(i)
    <2>1. Throw(i)
      BY <1>4 DEF CheckRefused, CheckFails
    <2>2. CASE IsShort(i)
      <3>1. Goto(i, "stopped") /\ made' = [made EXCEPT ![i] = Nothing(import[i].file)]
        BY <2>1, <2>2 DEF Throw
      <3>2. \E new : Does(i, new) /\ new.step = "stopped" /\ new.at = import[i].at
        BY <1>1, <3>1, OnlyStep DEF Goto
      <3>3. QED
        BY <1>1, <2>2, <3>1, <3>2
    <2>3. CASE ~IsShort(i)
      <3>1. Goto(i, "fail") /\ UNCHANGED made
        BY <1>2, <2>1, <2>3 DEF Throw
      <3>2. \E new : Does(i, new) /\ new.step = "fail" /\ new.at = import[i].at
        BY <1>1, <1>2, <3>1, OnlyStep DEF Goto
      <3>3. QED
        BY <1>1, <2>3, <3>1, <3>2
    <2>4. QED
      BY <2>2, <2>3
  <1>5. QED
    BY <1>3, <1>4

\* How a step of the worker, or of the request that accepts it, moves the job.
Moves(i, to) ==
  \/ to = "queued" /\ job[i] = "none" /\ job' = [job EXCEPT ![i] = "pending"]
  \/ to = "stopped" /\ job[i] = "none" /\ job' = [job EXCEPT ![i] = "pending"]
  \/ to = "stopped" /\ UNCHANGED job
  \/ to = "check" /\ job[i] = "pending" /\ job' = [job EXCEPT ![i] = "processing"]
  \/ /\ to = "done" /\ job[i] = "processing" /\ job' = [job EXCEPT ![i] = "done"]
     /\ import[i].at > Len(import[i].file)
  \/ to = "stopped" /\ job[i] = "processing" /\ job' = [job EXCEPT ![i] = "error"]

LEMMA MovesJob ==
  ASSUME Typed, JobsTell, NEW i \in Imports,
         CommitJob(i) \/ StartTooEarly(i) \/ MarkProcessing(i) \/ MarkDone(i) \/ MarkError(i)
  PROVE  \E new : /\ Does(i, new) /\ new.at = import[i].at /\ Long(i) /\ UNCHANGED made
                  /\ Moves(i, new.step)
                  /\ import[i].step \in {"accepted", "queued", "check", "fail"}
  <1>1. import[i] \in ImportRow /\ import[i] # Idle /\ UNCHANGED made
    BY AtWork DEF CommitJob, StartTooEarly, MarkProcessing, MarkDone, MarkError, AllRows, Step
  <1>2. {"queued", "check", "done", "stopped"} \subseteq Running \cup {"done", "stopped"}
    BY DEF Running
  <1>3. Long(i)
    BY <1>1 DEF JobsTell, Long, Short, CommitJob, StartTooEarly, MarkProcessing, MarkDone, MarkError, Step
  <1>4. PICK to \in {"queued", "check", "done", "stopped"} : Goto(i, to) /\ Moves(i, to)
    <2>1. CASE CommitJob(i)
      BY <1>3, <2>1 DEF CommitJob, JobsTell, Moves
    <2>2. CASE StartTooEarly(i)
      <3>1. PICK status \in {"none", "pending"} : job' = [job EXCEPT ![i] = status]
        BY <2>2 DEF StartTooEarly
      <3>2. Goto(i, "stopped") /\ job[i] = "none"
        BY <1>3, <2>2 DEF StartTooEarly, JobsTell
      <3>3. CASE status = "none"
        <4>1. job' = job
          BY <3>1, <3>2, <3>3 DEF Typed
        <4>2. QED
          BY <3>2, <4>1 DEF Moves
      <3>4. CASE status = "pending"
        BY <3>1, <3>2, <3>4 DEF Moves
      <3>5. QED
        BY <3>3, <3>4
    <2>3. CASE MarkProcessing(i)
      BY <1>3, <2>3 DEF MarkProcessing, JobsTell, Moves
    <2>4. CASE MarkDone(i)
      BY <1>3, <2>4 DEF MarkDone, AllRows, JobsTell, Moves, Step
    <2>5. CASE MarkError(i)
      BY <1>3, <2>5 DEF MarkError, JobsTell, Moves, Step
    <2>6. QED
      BY <2>1, <2>2, <2>3, <2>4, <2>5
  <1>5. PICK new : Does(i, new) /\ new.step = to /\ new.at = import[i].at
    BY <1>1, <1>2, <1>4, OnlyStep DEF Goto
  <1>6. import[i].step \in {"accepted", "queued", "check", "fail"}
    BY DEF CommitJob, StartTooEarly, MarkProcessing, MarkDone, MarkError, AllRows, Step
  <1>7. QED
    BY <1>1, <1>3, <1>4, <1>5, <1>6

-----------------------------------------------------------------------------
(* Every step of one import that is under way has one form: new is its       *)
(* record and m its rows afterwards.                                         *)

\* The rows: what new is about to insert nobody has been seen to have.
Keeps(i, new, m) ==
  /\ Active(i)
  /\ m \in [DOMAIN import[i].file -> {"none", "person", "consented"}]
  /\ made' = [made EXCEPT ![i] = m]
  /\ \A k \in DOMAIN m : m[k] # "none" =>
       made[i][k] # "none" \/ (Step(i, "insert") /\ k = import[i].at)
  /\ new.step \in Running =>
       /\ \A k \in DOMAIN m : m[k] # "none" => k < new.at \/ (k = new.at /\ new.step = "consent")
       /\ new.step \in {"insert", "consent"} => new.at \in DOMAIN m
       /\ new.step = "consent" => m[new.at] # "none"
  /\ IsShort(i) /\ new.step = "stopped" => \A k \in DOMAIN m : m[k] = "none"
  /\ new.step = "insert" =>
       /\ Step(i, "check") /\ new.at = import[i].at
       /\ Row(i).phone # NoPhone => ~Known(i, Row(i).phone)

\* The job.
Tells(i, new) ==
  \/ /\ UNCHANGED job
     /\ import[i].step \in {"check", "insert", "consent"}
     /\ \/ new.step \in {"check", "insert", "consent", "done", "stopped"}
        \/ ~IsShort(i) /\ new.step = "fail"
  \/ new.at = import[i].at /\ Long(i) /\ Moves(i, new.step)

Steps(i, new, m) == Does(i, new) /\ Keeps(i, new, m) /\ Tells(i, new)

LEMMA After ==
  ASSUME Typed, NEW i \in Imports, NEW new, NEW m, Steps(i, new, m)
  PROVE  /\ import'[i] = new /\ \A j \in Imports : j # i => import'[j] = import[j]
         /\ made'[i] = m /\ \A j \in Imports : j # i => made'[j] = made[j]
         /\ DOMAIN m = DOMAIN import[i].file /\ DOMAIN made[i] = DOMAIN m
         /\ new.file = import[i].file /\ import[i] \in ImportRow /\ new \in ImportRow
         /\ overlap' = overlap /\ Active(i)
  <1>1. import' = [import EXCEPT ![i] = new] /\ import \in [Imports -> {Idle} \cup ImportRow]
    BY DEF Steps, Does, Typed
  <1>2. made' = [made EXCEPT ![i] = m] /\ made = [j \in Imports |-> made[j]]
    BY DEF Steps, Keeps, Typed
  <1>3. made'[i] = m /\ \A j \in Imports : j # i => made'[j] = made[j]
    BY <1>2
  <1>4. DOMAIN m = DOMAIN import[i].file /\ Active(i)
    BY DEF Steps, Keeps
  <1>5. new.file = import[i].file /\ new \in ImportRow /\ import[i] \in ImportRow /\ overlap' = overlap
    BY DEF Steps, Does, Goes
  <1>6. DOMAIN made[i] = DOMAIN import[i].file
    BY <1>5 DEF Typed
  <1>7. QED
    BY <1>1, <1>3, <1>4, <1>5, <1>6

LEMMA StepTyped ==
  ASSUME Typed, NEW i \in Imports, NEW new, NEW m, Steps(i, new, m)
  PROVE  Typed'
  <1>1. import' \in [Imports -> {Idle} \cup ImportRow]
    BY After DEF Steps, Does, Typed
  <1>2. job' \in [Imports -> {"none", "pending", "processing", "done", "error"}]
    BY DEF Steps, Tells, Moves, Typed
  <1>3. made' = [j \in Imports |-> made'[j]]
    BY DEF Steps, Keeps, Typed
  <1>4. \A j \in Imports : import'[j] \in ImportRow =>
          made'[j] \in [DOMAIN import'[j].file -> {"none", "person", "consented"}]
    <2> TAKE j \in Imports
    <2> HAVE import'[j] \in ImportRow
    <2>1. CASE j = i
      <3>1. m \in [DOMAIN import[i].file -> {"none", "person", "consented"}]
        BY DEF Steps, Keeps
      <3>2. QED
        BY <2>1, <3>1, After
    <2>2. CASE j # i
      BY <2>2, After DEF Typed
    <2>3. QED
      BY <2>1, <2>2
  <1>5. \A j \in Imports : import'[j] = Idle => made'[j] = <<>>
    BY After, ImportsAre DEF Typed
  <1>6. overlap' \subseteq Imports \X Imports
    BY After DEF Typed
  <1>7. QED
    BY <1>1, <1>2, <1>3, <1>4, <1>5, <1>6 DEF Typed

LEMMA StepRows ==
  ASSUME Typed, RowsInTurn, StoppedLeftNothing, ActiveOverlap,
         NEW i \in Imports, NEW new, NEW m, Steps(i, new, m)
  PROVE  RowsInTurn' /\ StoppedLeftNothing' /\ ActiveOverlap'
  <1>1. RowsInTurn'
    <2> SUFFICES ASSUME NEW j \in Imports, Active(j)'
        PROVE  /\ \A k \in DOMAIN made'[j] :
                    made'[j][k] # "none" =>
                      k < import'[j].at \/ (k = import'[j].at /\ import'[j].step = "consent")
               /\ import'[j].step \in {"insert", "consent"} => import'[j].at \in DOMAIN made'[j]
               /\ import'[j].step = "consent" => made'[j][import'[j].at] # "none"
      BY DEF RowsInTurn, Step
    <2>1. CASE j = i
      <3>1. import'[j] = new /\ made'[j] = m /\ new.step \in Running
        BY <2>1, After DEF Active
      <3>2. QED
        BY <3>1 DEF Steps, Keeps
    <2>2. CASE j # i
      <3>1. import'[j] = import[j] /\ made'[j] = made[j] /\ Active(j)
        BY <2>2, After DEF Active
      <3>2. QED
        BY <3>1 DEF RowsInTurn, Step
    <2>3. QED
      BY <2>1, <2>2
  <1>2. StoppedLeftNothing'
    <2> SUFFICES ASSUME NEW j \in Imports, Short(j)', import'[j].step = "stopped"
        PROVE  \A k \in DOMAIN made'[j] : made'[j][k] = "none"
      BY DEF StoppedLeftNothing, Step
    <2>1. CASE j = i
      <3>1. made'[j] = m /\ new.step = "stopped" /\ IsShort(i)
        BY <2>1, After DEF Short, IsShort
      <3>2. QED
        BY <3>1 DEF Steps, Keeps
    <2>2. CASE j # i
      <3>1. import'[j] = import[j] /\ made'[j] = made[j] /\ Short(j)
        BY <2>2, After DEF Short, IsShort
      <3>2. QED
        BY <3>1 DEF StoppedLeftNothing, Step
    <2>3. QED
      BY <2>1, <2>2
  <1>3. \A j \in Imports : Active(j)' => Active(j)
    BY After DEF Active
  <1>4. ActiveOverlap'
    BY <1>3, After DEF ActiveOverlap
  <1>5. QED
    BY <1>1, <1>2, <1>4

LEMMA StepJobs ==
  ASSUME Typed, JobsTell, NEW i \in Imports, NEW new, NEW m, Steps(i, new, m)
  PROVE  JobsTell'
  <1>1. import[i] # Idle /\ new # Idle /\ (IsShort(i)' <=> IsShort(i))
    BY After, ImportsAre DEF IsShort
  <1>2. (Long(i)' <=> Long(i)) /\ (Short(i)' <=> Short(i)) /\ (Long(i) <=> ~Short(i))
    BY <1>1, After DEF Long, Short
  <1>3. \A j \in Imports : j # i => job'[j] = job[j]
    BY DEF Steps, Tells, Moves, Typed
  <1>4. ASSUME NEW j \in Imports, j # i
        PROVE  (Long(j)' <=> Long(j)) /\ (Short(j)' <=> Short(j)) /\ import'[j] = import[j]
    BY <1>4, After DEF Long, Short, IsShort
  <1>5. /\ ~Long(i) => job'[i] = "none"
        /\ Short(i) => new.step \notin {"accepted", "queued", "fail"}
        /\ Long(i) => /\ new.step = "accepted" => job'[i] = "none"
                      /\ new.step = "queued" => job'[i] = "pending"
                      /\ new.step \in {"check", "insert", "consent", "fail"} => job'[i] = "processing"
    <2>1. CASE /\ UNCHANGED job
               /\ import[i].step \in {"check", "insert", "consent"}
               /\ \/ new.step \in {"check", "insert", "consent", "done", "stopped"}
                  \/ ~IsShort(i) /\ new.step = "fail"
      BY <2>1 DEF JobsTell, Short
    <2>2. CASE Long(i) /\ Moves(i, new.step)
      <3>1. \A s \in {"none", "pending", "processing", "done", "error"} :
              job' = [job EXCEPT ![i] = s] => job'[i] = s
        BY DEF Typed
      <3>2. QED
        BY <1>2, <2>2, <3>1 DEF Moves
    <2>3. QED
      BY <2>1, <2>2 DEF Steps, Tells
  <1>6. \A j \in Imports :
          /\ ~Long(j)' => job'[j] = "none"
          /\ Short(j)' => import'[j].step \notin {"accepted", "queued", "fail"}
          /\ Long(j)' =>
               /\ import'[j].step = "accepted" => job'[j] = "none"
               /\ import'[j].step = "queued" => job'[j] = "pending"
               /\ import'[j].step \in {"check", "insert", "consent", "fail"} => job'[j] = "processing"
    BY <1>2, <1>3, <1>4, <1>5, After DEF JobsTell, Step
  <1>7. QED
    BY <1>6 DEF JobsTell, Step

\* Whoever has a phone that import i did not find runs at the same time.
LEMMA Unseen ==
  ASSUME Typed, StoppedLeftNothing, ActiveOverlap, NEW i \in Imports, Active(i),
         NEW phone, ~Known(i, phone),
         NEW j \in Imports, NEW l \in DOMAIN made[j],
         made[j][l] # "none", import[j].file[l].phone = phone
  PROVE  <<i, j>> \in overlap
  <1>1. import[j] # Idle
    <2>1. DOMAIN <<>> = {}
      OBVIOUS
    <2>2. QED
      BY <2>1 DEF Typed
  <1>2. ~Sees(i, j)
    BY <1>1 DEF Known
  <1>3. import[j] \in ImportRow /\ i # j /\ Short(j) /\ import[j].step # "done"
    BY <1>1, <1>2 DEF Typed, Sees, Short, Step
  <1>4. import[j].step # "stopped"
    BY <1>3 DEF StoppedLeftNothing, Step
  <1>5. Active(j)
    BY <1>3, <1>4, ImportsAre DEF Active
  <1>6. QED
    BY <1>3, <1>5 DEF ActiveOverlap

LEMMA StepSeen ==
  ASSUME ImportInv, NEW i \in Imports, NEW new, NEW m, Steps(i, new, m)
  PROVE  TakenUnseen' /\ DuplicateOnlyByOverlap'
  <1> USE DEF ImportInv
  <1>1. TakenUnseen'
    <2> SUFFICES ASSUME NEW x \in Imports, import'[x].step = "insert",
                        import'[x].file[import'[x].at].phone # NoPhone,
                        NEW j \in Imports, NEW l \in DOMAIN made'[j], made'[j][l] # "none",
                        import'[j].file[l].phone = import'[x].file[import'[x].at].phone
                 PROVE  <<x, j>> \in overlap
      BY After DEF TakenUnseen, Step, Row
    <2>1. CASE x = i
      <3>1. new.step = "insert" /\ import'[x] = new
        BY <2>1, After
      <3>2. Step(i, "check") /\ new.at = import[i].at
        BY <3>1 DEF Steps, Keeps
      <3>3. import'[x].file[import'[x].at].phone = Row(i).phone
        BY <3>1, <3>2, After DEF Row
      <3>4. ~Known(i, Row(i).phone)
        BY <3>1, <3>3 DEF Steps, Keeps
      <3>5. import[j].file = import'[j].file /\ l \in DOMAIN made[j] /\ made[j][l] # "none"
        <4>1. CASE j = i
          <5>1. made'[j] = m /\ import'[j] = new /\ l \in DOMAIN m /\ m[l] # "none"
            BY <4>1, After
          <5>2. made[i][l] # "none"
            BY <3>2, <5>1 DEF Steps, Keeps, Step
          <5>3. QED
            BY <4>1, <5>1, <5>2, After
        <4>2. CASE j # i
          BY <4>2, After
        <4>3. QED
          BY <4>1, <4>2
      <3>6. QED
        BY <2>1, <3>3, <3>4, <3>5, Unseen, After
    <2>2. CASE x # i
      <3>1. import'[x] = import[x]
        BY <2>2, After
      <3>2. Active(x) /\ Step(x, "insert")
        BY <3>1 DEF Active, Running, Step
      <3>3. CASE j = i
        BY <2>2, <3>2, <3>3, After DEF ActiveOverlap
      <3>4. CASE j # i
        BY <3>1, <3>2, <3>4, After DEF TakenUnseen, Row
      <3>5. QED
        BY <3>3, <3>4
    <2>3. QED
      BY <2>1, <2>2
  <1>2. ASSUME NEW j \in Imports, NEW l \in DOMAIN made'[j], made'[j][l] # "none"
        PROVE  /\ import'[j].file = import[j].file /\ l \in DOMAIN made[j]
               /\ \/ made[j][l] # "none"
                  \/ j = i /\ Step(i, "insert") /\ l = import[i].at
    <2>1. CASE j = i
      <3>1. made'[j] = m /\ import'[j] = new /\ l \in DOMAIN m /\ m[l] # "none"
        BY <1>2, <2>1, After
      <3>2. made[i][l] # "none" \/ (Step(i, "insert") /\ l = import[i].at)
        BY <3>1 DEF Steps, Keeps
      <3>3. QED
        BY <2>1, <3>1, <3>2, After
    <2>2. CASE j # i
      BY <1>2, <2>2, After
    <2>3. QED
      BY <2>1, <2>2
  <1>3. DuplicateOnlyByOverlap'
    <2> SUFFICES ASSUME NEW x \in Imports, NEW j \in Imports,
                        NEW k \in DOMAIN made'[x], NEW l \in DOMAIN made'[j],
                        <<x, k>> # <<j, l>>, made'[x][k] # "none", made'[j][l] # "none",
                        import'[x].file[k].phone # NoPhone,
                        import'[x].file[k].phone = import'[j].file[l].phone
                 PROVE  <<x, j>> \in overlap
      BY After DEF DuplicateOnlyByOverlap
    <2>1. /\ import'[x].file = import[x].file /\ k \in DOMAIN made[x]
          /\ import'[j].file = import[j].file /\ l \in DOMAIN made[j]
      BY <1>2
    <2>2. CASE made[x][k] # "none" /\ made[j][l] # "none"
      BY <2>1, <2>2 DEF DuplicateOnlyByOverlap
    <2>3. CASE made[x][k] # "none" /\ j = i /\ Step(i, "insert") /\ l = import[i].at
      <3>1. Row(i).phone = import[x].file[k].phone /\ Row(i).phone # NoPhone
        BY <2>1, <2>3 DEF Row
      <3>2. <<i, x>> \in overlap
        BY <2>1, <2>3, <3>1 DEF TakenUnseen
      <3>3. QED
        BY <2>3, <3>2 DEF ActiveOverlap
    <2>4. CASE made[j][l] # "none" /\ x = i /\ Step(i, "insert") /\ k = import[i].at
      <3>1. Row(i).phone = import[j].file[l].phone /\ Row(i).phone # NoPhone
        BY <2>1, <2>4 DEF Row
      <3>2. QED
        BY <2>1, <2>4, <3>1 DEF TakenUnseen
    <2>5. QED
      BY <1>2, <2>2, <2>3, <2>4
  <1>4. QED
    BY <1>1, <1>3

LEMMA StepKeeps ==
  ASSUME ImportInv, NEW i \in Imports, NEW new, NEW m, Steps(i, new, m)
  PROVE  ImportInv'
  <1> USE DEF ImportInv
  <1>1. Typed'
    BY StepTyped
  <1>2. JobsTell'
    BY StepJobs
  <1>3. RowsInTurn' /\ StoppedLeftNothing' /\ ActiveOverlap'
    BY StepRows
  <1>4. TakenUnseen' /\ DuplicateOnlyByOverlap'
    BY StepSeen
  <1>5. QED
    BY <1>1, <1>2, <1>3, <1>4

\* A step of an import is a step of its job, or none.
LEMMA StepRefines ==
  ASSUME ImportInv, NEW i \in Imports, NEW new, NEW m, Steps(i, new, m)
  PROVE  Job!Next \/ UNCHANGED Job!vars
  <1> DEFINE complete == {j \in Imports : import[j] # Idle /\ ~IsShort(j) /\
                                          import[j].at > Len(import[j].file)}
  <1> USE DEF ImportInv
  <1>1. import[i] # Idle /\ new # Idle /\ (IsShort(i)' <=> IsShort(i))
    BY After, ImportsAre DEF IsShort
  <1>2. \A j \in Imports : j # i => (j \in complete' <=> j \in complete)
    BY After DEF IsShort
  <1>3. i \in complete' <=> (Long(i) /\ new.at > Len(import[i].file))
    BY <1>1, After DEF IsShort, Long
  <1>4. i \in complete <=> (Long(i) /\ import[i].at > Len(import[i].file))
    BY DEF Long
  <1>5. CASE new.at = import[i].at /\ UNCHANGED job
    <2>1. complete' = complete
      BY <1>2, <1>3, <1>4, <1>5
    <2>2. QED
      BY <1>5, <2>1 DEF Job!vars
  <1>6. CASE new.at = import[i].at + 1 /\ UNCHANGED job /\ import[i].step \in {"check", "insert", "consent"}
    <2>1. CASE i \in complete' /\ i \notin complete
      <3>1. complete' = complete \cup {i}
        BY <1>2, <2>1
      <3>2. job[i] = "processing"
        BY <1>3, <1>6, <2>1 DEF JobsTell
      <3>3. Job!Store(i)
        BY <1>6, <3>1, <3>2 DEF Job!Store
      <3>4. QED
        BY <3>3 DEF Job!Next
    <2>2. CASE ~(i \in complete' /\ i \notin complete)
      <3>1. Len(import[i].file) \in Nat /\ import[i].at \in Nat
        BY After, RowsOfFiles DEF ImportRow
      <3>2. i \in complete => i \in complete'
        BY <1>3, <1>4, <1>6, <3>1
      <3>3. complete' = complete
        BY <1>2, <2>2, <3>2
      <3>4. QED
        BY <1>6, <3>3 DEF Job!vars
    <2>3. QED
      BY <2>1, <2>2
  <1>7. CASE new.at = import[i].at /\ Long(i) /\ Moves(i, new.step) /\ job' # job
    <2>1. complete' = complete
      BY <1>2, <1>3, <1>4, <1>7
    <2>2. \/ job[i] = "none" /\ job' = [job EXCEPT ![i] = "pending"]
          \/ job[i] = "pending" /\ job' = [job EXCEPT ![i] = "processing"]
          \/ job[i] = "processing" /\ job' = [job EXCEPT ![i] = "done"] /\ i \in complete
          \/ job[i] = "processing" /\ job' = [job EXCEPT ![i] = "error"]
      BY <1>4, <1>7 DEF Moves
    <2>3. Job!Submit(i) \/ Job!Start(i) \/ Job!Finish(i) \/ Job!Fail(i)
      BY <2>1, <2>2 DEF Job!Submit, Job!Start, Job!Finish, Job!Fail, Job!Move
    <2>4. QED
      BY <2>3 DEF Job!Next
  <1>8. new.at = import[i].at \/ new.at = import[i].at + 1
    BY DEF Steps, Does, Goes
  <1>9. QED
    BY <1>5, <1>6, <1>7, <1>8 DEF Steps, Tells

-----------------------------------------------------------------------------
(* The actions have that form.                                              *)

LEMMA Stays ==
  ASSUME Typed, NEW i \in Imports, import[i] \in ImportRow
  PROVE  /\ UNCHANGED made => made' = [made EXCEPT ![i] = made[i]]
         /\ made[i] \in [DOMAIN import[i].file -> {"none", "person", "consented"}]
         /\ import[i].at \in Nat \ {0} /\ Len(import[i].file) \in Nat
         /\ DOMAIN made[i] = 1..Len(import[i].file)
  <1>1. UNCHANGED made => made' = [made EXCEPT ![i] = made[i]]
    BY DEF Typed
  <1>2. made[i] \in [DOMAIN import[i].file -> {"none", "person", "consented"}]
    BY DEF Typed
  <1>3. import[i].at \in Nat \ {0} /\ import[i].file \in Files
    BY DEF ImportRow
  <1>4. QED
    BY <1>1, <1>2, <1>3, RowsOfFiles

LEMMA PassesSteps ==
  ASSUME ImportInv, NEW i \in Imports,
         SkipIncomplete(i) \/ SkipKnown(i) \/ InsertRefused(i) \/ InsertFails(i)
  PROVE  \E new, m : Steps(i, new, m)
  <1> USE DEF ImportInv
  <1>1. PICK new : /\ Does(i, new) /\ new.step = "check" /\ new.at = import[i].at + 1
                   /\ import[i].step \in {"check", "insert", "consent"}
                   /\ UNCHANGED <<made, job>>
    BY PassesRow
  <1>2. Active(i) /\ import[i] \in ImportRow
    BY <1>1 DEF Active, Running, Does
  <1>3. \A k \in DOMAIN made[i] : made[i][k] # "none" => k < new.at
    BY <1>1, <1>2, Stays DEF RowsInTurn
  <1>4. Keeps(i, new, made[i])
    BY <1>1, <1>2, <1>3, Stays DEF Keeps
  <1>5. Tells(i, new)
    BY <1>1 DEF Tells
  <1>6. Steps(i, new, made[i])
    BY <1>1, <1>4, <1>5 DEF Steps
  <1>7. QED
    BY <1>6

LEMMA TakesSteps ==
  ASSUME ImportInv, NEW i \in Imports, Take(i)
  PROVE  \E new, m : Steps(i, new, m)
  <1> USE DEF ImportInv
  <1>1. PICK new : /\ Does(i, new) /\ new.step = "insert" /\ new.at = import[i].at
                   /\ Step(i, "check") /\ import[i].at <= Len(import[i].file)
                   /\ Row(i).phone # NoPhone => ~Known(i, Row(i).phone)
                   /\ UNCHANGED <<made, job>>
    BY TakesRow
  <1>2. Active(i) /\ import[i] \in ImportRow
    BY <1>1 DEF Active, Running, Does, Step
  <1>3. \A k \in DOMAIN made[i] : made[i][k] # "none" => k < new.at
    BY <1>1, <1>2 DEF RowsInTurn, Step
  <1>4. new.at \in DOMAIN made[i]
    BY <1>1, <1>2, Stays
  <1>5. Keeps(i, new, made[i])
    BY <1>1, <1>2, <1>3, <1>4, Stays DEF Keeps
  <1>6. Tells(i, new)
    BY <1>1 DEF Tells, Step
  <1>7. Steps(i, new, made[i])
    BY <1>1, <1>5, <1>6 DEF Steps
  <1>8. QED
    BY <1>7

LEMMA MovesSteps ==
  ASSUME ImportInv, NEW i \in Imports,
         CommitJob(i) \/ StartTooEarly(i) \/ MarkProcessing(i) \/ MarkDone(i) \/ MarkError(i)
  PROVE  \E new, m : Steps(i, new, m)
  <1> USE DEF ImportInv
  <1>1. PICK new : /\ Does(i, new) /\ new.at = import[i].at /\ Long(i) /\ UNCHANGED made
                   /\ Moves(i, new.step)
                   /\ import[i].step \in {"accepted", "queued", "check", "fail"}
    BY MovesJob
  <1>2. Active(i) /\ import[i] \in ImportRow /\ new.step \in {"queued", "check", "done", "stopped"}
    BY <1>1 DEF Active, Running, Does, Moves
  <1>3. \A k \in DOMAIN made[i] : made[i][k] # "none" => k < new.at
    BY <1>1, <1>2 DEF RowsInTurn, Step
  <1>4. Keeps(i, new, made[i])
    BY <1>1, <1>2, <1>3, Stays DEF Keeps, Long
  <1>5. Tells(i, new)
    BY <1>1 DEF Tells
  <1>6. Steps(i, new, made[i])
    BY <1>1, <1>4, <1>5 DEF Steps
  <1>7. QED
    BY <1>6

LEMMA MarksSteps ==
  ASSUME ImportInv, NEW i \in Imports, Insert(i) \/ Consent(i)
  PROVE  \E new, m : Steps(i, new, m)
  <1> USE DEF ImportInv
  <1>0. PICK new : \E mark \in {"person", "consented"} :
          /\ Does(i, new) /\ Marks(i, mark) /\ UNCHANGED job
          /\ \/ Step(i, "insert") /\ new.step = "consent" /\ new.at = import[i].at
             \/ Step(i, "consent") /\ new.step = "check" /\ new.at = import[i].at + 1
    <2>1. CASE Insert(i)
      BY <2>1, InsertsRow
    <2>2. CASE Consent(i)
      BY <2>2, ConsentsRow
    <2>3. QED
      BY <2>1, <2>2
  <1>1. PICK mark \in {"person", "consented"} :
          /\ Does(i, new) /\ Marks(i, mark) /\ UNCHANGED job
          /\ \/ Step(i, "insert") /\ new.step = "consent" /\ new.at = import[i].at
             \/ Step(i, "consent") /\ new.step = "check" /\ new.at = import[i].at + 1
    BY <1>0
  <1> DEFINE at == import[i].at
             m  == [made[i] EXCEPT ![at] = mark]
  <1>2. Active(i) /\ import[i] \in ImportRow
    BY <1>1 DEF Active, Running, Does, Step
  <1>3. at \in DOMAIN made[i]
    BY <1>1, <1>2 DEF RowsInTurn, Step
  <1>4. /\ \A k \in DOMAIN made[i] :
             made[i][k] # "none" => k < at \/ (k = at /\ Step(i, "consent"))
        /\ Step(i, "consent") => made[i][at] # "none"
    BY <1>2 DEF RowsInTurn
  <1>5. /\ m \in [DOMAIN import[i].file -> {"none", "person", "consented"}]
        /\ made' = [made EXCEPT ![i] = m]
        /\ DOMAIN m = DOMAIN made[i] /\ m[at] = mark
        /\ \A k \in DOMAIN m : k # at => m[k] = made[i][k]
    BY <1>1, <1>2, <1>3, Stays DEF Marks
  <1> HIDE DEF m
  <1>6. \A k \in DOMAIN m : m[k] # "none" => k < at \/ k = at
    BY <1>4, <1>5
  <1>7. \A k \in DOMAIN m : m[k] # "none" => made[i][k] # "none" \/ (Step(i, "insert") /\ k = at)
    BY <1>1, <1>3, <1>4, <1>5
  <1>8. Keeps(i, new, m)
    <2>1. CASE Step(i, "insert") /\ new.step = "consent" /\ new.at = at
      BY <1>2, <1>3, <1>5, <1>6, <1>7, <2>1 DEF Keeps
    <2>2. CASE Step(i, "consent") /\ new.step = "check" /\ new.at = at + 1
      <3>1. \A k \in DOMAIN m : m[k] # "none" => k < new.at
        <4>1. at \in Nat /\ \A k \in DOMAIN m : k \in Nat
          <5>1. import[i].at \in Nat \ {0} /\ DOMAIN made[i] = 1..Len(import[i].file)
            BY <1>2, Stays
          <5>2. QED
            BY <1>5, <5>1
        <4>2. QED
          BY <1>6, <2>2, <4>1
      <3>2. QED
        BY <1>2, <1>5, <1>7, <2>2, <3>1 DEF Keeps
    <2>3. QED
      BY <1>1, <2>1, <2>2
  <1>9. Tells(i, new)
    BY <1>1 DEF Tells, Step
  <1>10. Steps(i, new, m)
    BY <1>1, <1>8, <1>9 DEF Steps
  <1>11. QED
    BY <1>10

LEMMA EndsSteps ==
  ASSUME ImportInv, NEW i \in Imports, CheckRefused(i) \/ CheckFails(i) \/ AnswerShort(i)
  PROVE  \E new, m : Steps(i, new, m)
  <1> USE DEF ImportInv
  <1>1. PICK new :
          /\ Does(i, new) /\ new.at = import[i].at /\ Step(i, "check")
          /\ UNCHANGED job
          /\ \/ ~IsShort(i) /\ new.step = "fail" /\ UNCHANGED made
             \/ /\ IsShort(i) /\ new.step \in {"done", "stopped"}
                /\ \/ made' = [made EXCEPT ![i] = Nothing(import[i].file)]
                   \/ new.step = "done" /\ UNCHANGED made
    BY EndsRows
  <1>2. Active(i) /\ import[i] \in ImportRow
    BY <1>1 DEF Active, Running, Does, Step
  <1>3. \A k \in DOMAIN made[i] : made[i][k] # "none" => k < new.at
    BY <1>1, <1>2 DEF RowsInTurn, Step
  <1>4. Tells(i, new)
    BY <1>1 DEF Tells, Step
  <1>5. "done" \notin Running /\ "stopped" \notin Running
    BY DEF Running
  <1>6. CASE UNCHANGED made /\ (new.step = "done" \/ (~IsShort(i) /\ new.step = "fail"))
    <2>1. Keeps(i, new, made[i])
      BY <1>2, <1>3, <1>5, <1>6, Stays DEF Keeps
    <2>2. Steps(i, new, made[i])
      BY <1>1, <1>4, <2>1 DEF Steps
    <2>3. QED
      BY <2>2
  <1>7. CASE made' = [made EXCEPT ![i] = Nothing(import[i].file)] /\ new.step \in {"done", "stopped"}
    <2> DEFINE m == Nothing(import[i].file)
    <2>1. /\ m \in [DOMAIN import[i].file -> {"none", "person", "consented"}]
          /\ \A k \in DOMAIN m : m[k] = "none"
      BY DEF Nothing
    <2> HIDE DEF m
    <2>2. made' = [made EXCEPT ![i] = m]
      BY <1>7 DEF m
    <2>3. Keeps(i, new, m)
      BY <1>2, <1>5, <1>7, <2>1, <2>2 DEF Keeps
    <2>4. Steps(i, new, m)
      BY <1>1, <1>4, <2>3 DEF Steps
    <2>5. QED
      BY <2>4
  <1>8. QED
    BY <1>1, <1>6, <1>7

LEMMA WorkSteps ==
  ASSUME ImportInv, NEW i \in Imports, Work(i) \/ InsertFails(i) \/ CheckFails(i)
  PROVE  \E new, m : Steps(i, new, m)
  BY PassesSteps, TakesSteps, MovesSteps, MarksSteps, EndsSteps DEF Work

-----------------------------------------------------------------------------
(* A new import, and a crash.                                               *)

LEMMA Confirms ==
  ASSUME ImportInv, NEW i \in Imports, NEW file \in Files, Confirm(i, file)
  PROVE  ImportInv' /\ UNCHANGED Job!vars
  <1> DEFINE new == [step |-> IF Len(file) <= SyncLimit THEN "check" ELSE "accepted", file |-> file, at |-> 1,
                     imported |-> 0, skipped |-> 0, failed |-> 0, broken |-> FALSE]
             m   == Nothing(file)
  <1> USE DEF ImportInv
  <1>1. /\ new \in ImportRow /\ new.file = file /\ new.at = 1
        /\ new.step = IF Len(file) <= SyncLimit THEN "check" ELSE "accepted"
    BY DEF ImportRow, Running
  <1>2. m \in [DOMAIN file -> {"none", "person", "consented"}] /\ \A k \in DOMAIN m : m[k] = "none"
    BY DEF Nothing
  <1>3. import' = [import EXCEPT ![i] = new] /\ made' = [made EXCEPT ![i] = m] /\ UNCHANGED job
        /\ import[i] = Idle /\ job[i] = "none"
    BY DEF Confirm, JobsTell, Long
  <1>4. /\ overlap \subseteq overlap' /\ overlap' \subseteq Imports \X Imports
        /\ \A j \in Imports : Active(j) => <<i, j>> \in overlap' /\ <<j, i>> \in overlap'
        /\ \A j, k \in Imports : <<j, k>> \in overlap' => <<k, j>> \in overlap'
    <2>1. overlap' = overlap \cup UNION {{<<i, j>>, <<j, i>>} : j \in {o \in Imports : Active(o)}}
      BY DEF Confirm
    <2>2. \A j, k \in Imports :
            <<j, k>> \in overlap' <=> <<j, k>> \in overlap \/ (j = i /\ Active(k)) \/ (k = i /\ Active(j))
      BY <2>1
    <2>3. overlap \subseteq overlap' /\ overlap' \subseteq Imports \X Imports
      BY <2>1 DEF Typed
    <2>4. QED
      BY <2>2, <2>3 DEF ActiveOverlap
  <1> HIDE DEF new, m
  <1>5. /\ import'[i] = new /\ \A j \in Imports : j # i => import'[j] = import[j]
        /\ made'[i] = m /\ \A j \in Imports : j # i => made'[j] = made[j]
    <2>1. made = [j \in Imports |-> made[j]]
      BY DEF Typed
    <2>2. QED
      BY <1>3, <2>1 DEF Typed
  <1>6. new # Idle /\ (Active(i)' <=> new.step \in Running)
        /\ \A j \in Imports : j # i => /\ Active(j)' <=> Active(j)
                                       /\ Long(j)' <=> Long(j)
                                       /\ Short(j)' <=> Short(j)
    BY <1>1, <1>5, ImportsAre DEF Active, Long, Short, IsShort
  <1>7. Typed'
    <2>1. import' \in [Imports -> {Idle} \cup ImportRow]
      BY <1>1, <1>3 DEF Typed
    <2>2. made' = [j \in Imports |-> made'[j]] /\ job' \in [Imports -> {"none", "pending", "processing", "done", "error"}]
      BY <1>3 DEF Typed
    <2>3. \A j \in Imports : import'[j] \in ImportRow =>
            made'[j] \in [DOMAIN import'[j].file -> {"none", "person", "consented"}]
      BY <1>1, <1>2, <1>5 DEF Typed
    <2>4. \A j \in Imports : import'[j] = Idle => made'[j] = <<>>
      BY <1>5, <1>6 DEF Typed
    <2>5. QED
      BY <1>4, <2>1, <2>2, <2>3, <2>4 DEF Typed
  <1>8. JobsTell'
    <2>1. /\ Short(i)' => new.step = "check"
          /\ Long(i)' => new.step = "accepted"
      BY <1>1, <1>5 DEF Long, Short, IsShort
    <2>2. \A j \in Imports :
            /\ ~Long(j)' => job'[j] = "none"
            /\ Short(j)' => import'[j].step \notin {"accepted", "queued", "fail"}
            /\ Long(j)' =>
                 /\ import'[j].step = "accepted" => job'[j] = "none"
                 /\ import'[j].step = "queued" => job'[j] = "pending"
                 /\ import'[j].step \in {"check", "insert", "consent", "fail"} => job'[j] = "processing"
      BY <1>3, <1>5, <1>6, <2>1 DEF JobsTell, Step
    <2>3. QED
      BY <2>2 DEF JobsTell, Step
  <1>9. \A j \in Imports : \A k \in DOMAIN made'[j] : made'[j][k] # "none" =>
          j # i /\ import'[j] = import[j] /\ made'[j] = made[j]
    BY <1>2, <1>5
  <1>10. RowsInTurn' /\ StoppedLeftNothing'
    <2>1. new.step \notin {"insert", "consent", "stopped"}
      BY <1>1
    <2>2. RowsInTurn'
      BY <1>5, <1>6, <1>9, <2>1 DEF RowsInTurn, Step
    <2>3. StoppedLeftNothing'
      BY <1>5, <1>6, <1>9 DEF StoppedLeftNothing, Step
    <2>4. QED
      BY <2>2, <2>3
  <1>11. ActiveOverlap'
    <2>1. ASSUME NEW x \in Imports, NEW y \in Imports, x # y, Active(x)', Active(y)'
          PROVE  <<x, y>> \in overlap'
      BY <1>4, <1>6, <2>1 DEF ActiveOverlap
    <2>2. QED
      BY <1>4, <2>1 DEF ActiveOverlap
  <1>12. TakenUnseen'
    <2>1. new.step # "insert"
      BY <1>1
    <2>2. QED
      BY <1>4, <1>5, <1>9, <2>1 DEF TakenUnseen, Step, Row
  <1>13. DuplicateOnlyByOverlap'
    <2> SUFFICES ASSUME NEW j \in Imports, NEW l \in Imports, NEW k \in DOMAIN made'[j], NEW n \in DOMAIN made'[l],
                        <<j, k>> # <<l, n>>, made'[j][k] # "none", made'[l][n] # "none",
                        import'[j].file[k].phone # NoPhone,
                        import'[j].file[k].phone = import'[l].file[n].phone
        PROVE  <<j, l>> \in overlap'
      BY DEF DuplicateOnlyByOverlap
    <2>1. /\ import'[j] = import[j] /\ made'[j] = made[j]
          /\ import'[l] = import[l] /\ made'[l] = made[l]
      BY <1>9
    <2>2. <<j, l>> \in overlap
      BY <2>1 DEF DuplicateOnlyByOverlap
    <2>3. QED
      BY <1>4, <2>2
  <1>14. UNCHANGED Job!vars
    <2> DEFINE complete == {j \in Imports : import[j] # Idle /\ ~IsShort(j) /\
                                            import[j].at > Len(import[j].file)}
    <2>1. i \notin complete
      BY <1>3
    <2>2. i \notin complete'
      <3>1. Len(file) \in Nat /\ SyncLimit \in Nat
        BY RowsOfFiles, LimitsAssumption
      <3>2. ~(Len(file) > SyncLimit /\ 1 > Len(file))
        BY <3>1
      <3>3. ~(~(Len(file) <= SyncLimit) /\ 1 > Len(file))
        BY <3>1, <3>2
      <3>4. QED
        BY <1>1, <1>5, <3>3 DEF IsShort
    <2>3. \A j \in Imports : j # i => (j \in complete' <=> j \in complete)
      BY <1>5 DEF IsShort
    <2>4. complete' = complete
      BY <2>1, <2>2, <2>3
    <2>5. QED
      BY <1>3, <2>4 DEF Job!vars
  <1>15. QED
    BY <1>7, <1>8, <1>10, <1>11, <1>12, <1>13, <1>14

LEMMA Crashes ==
  ASSUME ImportInv, Crash
  PROVE  ImportInv' /\ UNCHANGED Job!vars
  <1> USE DEF ImportInv
  <1>1. UNCHANGED <<job, overlap>>
        /\ made' = [i \in Imports |-> IF Active(i) /\ IsShort(i) THEN Nothing(import[i].file) ELSE made[i]]
        /\ import' = [i \in Imports |-> IF Active(i) THEN [import[i] EXCEPT !.step = "stopped"]
                                                     ELSE import[i]]
    BY DEF Crash
  <1>2. ASSUME NEW i \in Imports
        PROVE  /\ import[i] = Idle => import'[i] = Idle /\ made'[i] = <<>>
               /\ import[i] \in ImportRow =>
                    /\ import'[i] \in ImportRow /\ import'[i].file = import[i].file /\ import'[i].at = import[i].at
                    /\ made'[i] \in [DOMAIN import[i].file -> {"none", "person", "consented"}]
                    /\ \A k \in DOMAIN made'[i] : made'[i][k] # "none" => k \in DOMAIN made[i] /\ made[i][k] # "none"
               /\ Active(i) => import'[i].step = "stopped"
               /\ ~Active(i) => import'[i] = import[i] /\ made'[i] = made[i]
               /\ Active(i) /\ IsShort(i) => \A k \in DOMAIN made'[i] : made'[i][k] = "none"
    <2>1. CASE Active(i)
      <3>1. import[i] \in ImportRow /\ import[i] # Idle
        BY <2>1, AtWork, ImportsAre DEF Active
      <3>2. import'[i] = [import[i] EXCEPT !.step = "stopped"]
            /\ made'[i] = IF IsShort(i) THEN Nothing(import[i].file) ELSE made[i]
        BY <1>1, <2>1
      <3>3. import'[i] \in ImportRow /\ import'[i].file = import[i].file /\ import'[i].at = import[i].at
            /\ import'[i].step = "stopped"
        BY <3>1, <3>2 DEF ImportRow
      <3>4. \/ ~IsShort(i) /\ made'[i] = made[i]
            \/ /\ made'[i] \in [DOMAIN import[i].file -> {"none", "person", "consented"}]
               /\ \A k \in DOMAIN made'[i] : made'[i][k] = "none"
        BY <3>2 DEF Nothing
      <3>5. QED
        BY <2>1, <3>1, <3>3, <3>4, Stays
    <2>2. CASE ~Active(i)
      <3>1. import'[i] = import[i] /\ made'[i] = made[i]
        BY <1>1, <2>2
      <3>2. QED
        BY <2>2, <3>1 DEF Typed
    <2>3. QED
      BY <2>1, <2>2
  <1>3. \A i \in Imports : import[i] = Idle \/ import[i] \in ImportRow
    BY DEF Typed
  <1>4. Typed'
    <2>1. import' \in [Imports -> {Idle} \cup ImportRow]
      <3>1. \A i \in Imports : import'[i] \in {Idle} \cup ImportRow
        BY <1>2, <1>3
      <3>2. import' = [i \in Imports |-> import'[i]]
        BY <1>1
      <3>3. QED
        BY <3>1, <3>2
    <2>2. made' = [j \in Imports |-> made'[j]]
      BY <1>1
    <2>3. \A j \in Imports : import'[j] \in ImportRow =>
            made'[j] \in [DOMAIN import'[j].file -> {"none", "person", "consented"}]
      BY <1>2, <1>3, ImportsAre
    <2>4. \A j \in Imports : import'[j] = Idle => made'[j] = <<>>
      BY <1>2, <1>3, ImportsAre
    <2>5. QED
      BY <1>1, <2>1, <2>2, <2>3, <2>4 DEF Typed
  <1>5. \A i \in Imports :
          /\ ~Active(i)'
          /\ Long(i)' <=> Long(i)
          /\ Short(i)' <=> Short(i)
    BY <1>2, <1>3, ImportsAre DEF Active, Long, Short, IsShort, Running
  <1>6. JobsTell'
    BY <1>1, <1>2, <1>5 DEF JobsTell, Step
  <1>7. RowsInTurn' /\ ActiveOverlap'
    BY <1>1, <1>5 DEF RowsInTurn, ActiveOverlap
  <1>8. StoppedLeftNothing'
    BY <1>2, <1>5 DEF StoppedLeftNothing, Step, Short
  <1>9. TakenUnseen'
    BY <1>5 DEF TakenUnseen, Active, Step, Running
  <1>10. DuplicateOnlyByOverlap'
    <2>1. ASSUME NEW i \in Imports, NEW k \in DOMAIN made'[i], made'[i][k] # "none"
          PROVE  k \in DOMAIN made[i] /\ made[i][k] # "none" /\ import'[i].file = import[i].file
      <3>1. DOMAIN <<>> = {}
        OBVIOUS
      <3>2. import[i] \in ImportRow
        BY <1>2, <1>3, <2>1, <3>1
      <3>3. QED
        BY <1>2, <2>1, <3>2
    <2>2. QED
      BY <1>1, <2>1 DEF DuplicateOnlyByOverlap
  <1>11. UNCHANGED Job!vars
    <2> DEFINE complete == {j \in Imports : import[j] # Idle /\ ~IsShort(j) /\
                                            import[j].at > Len(import[j].file)}
    <2>1. complete' = complete
      BY <1>2, <1>3, ImportsAre DEF IsShort
    <2>2. QED
      BY <1>1, <2>1 DEF Job!vars
  <1>12. QED
    BY <1>4, <1>6, <1>7, <1>8, <1>9, <1>10, <1>11

LEMMA Registers ==
  ASSUME ImportInv, UNCHANGED <<import, made, job, overlap>>
  PROVE  ImportInv' /\ UNCHANGED Job!vars
  <1>1. ImportInv'
    BY DEF ImportInv, Typed, JobsTell, RowsInTurn, StoppedLeftNothing, ActiveOverlap, TakenUnseen,
           DuplicateOnlyByOverlap, Long, Short, IsShort, Step, Active, Row
  <1>2. UNCHANGED Job!vars
    BY DEF Job!vars, IsShort
  <1>3. QED
    BY <1>1, <1>2

-----------------------------------------------------------------------------
LEMMA ImportInvStep ==
  ASSUME ImportInv, [Next]_importVars
  PROVE  ImportInv' /\ (Job!Next \/ UNCHANGED Job!vars)
  <1>1. CASE UNCHANGED importVars
    BY <1>1, Registers DEF importVars
  <1>2. CASE \E i \in Imports, file \in Files : Confirm(i, file)
    BY <1>2, Confirms
  <1>3. CASE \E i \in Imports : Work(i) \/ InsertFails(i) \/ CheckFails(i)
    <2>1. PICK i \in Imports : \E new, m : Steps(i, new, m)
      BY <1>3, WorkSteps
    <2>2. QED
      BY <2>1, StepKeeps, StepRefines
  <1>4. CASE Crash
    BY <1>4, Crashes
  <1>5. CASE \E phone \in Phones : RegisterElsewhere(phone)
    BY <1>5, Registers DEF RegisterElsewhere
  <1>6. QED
    BY <1>1, <1>2, <1>3, <1>4, <1>5 DEF Next

LEMMA ImportInvInit ==
  ASSUME Init
  PROVE  ImportInv /\ Job!Init
  <1>1. /\ import = [i \in Imports |-> Idle] /\ made = [i \in Imports |-> <<>>]
        /\ job = [i \in Imports |-> "none"] /\ overlap = {}
    BY DEF Init
  <1>2. DOMAIN <<>> = {} /\ Idle \notin ImportRow /\ \A i \in Imports : ~Active(i)
    BY <1>1, ImportsAre DEF Active
  <1>3. Typed
    BY <1>1, <1>2 DEF Typed
  <1>4. JobsTell /\ RowsInTurn /\ StoppedLeftNothing /\ ActiveOverlap
    BY <1>1, <1>2 DEF JobsTell, RowsInTurn, StoppedLeftNothing, ActiveOverlap, Long, Short
  <1>5. TakenUnseen /\ DuplicateOnlyByOverlap
    BY <1>1, <1>2, ImportsAre DEF TakenUnseen, DuplicateOnlyByOverlap, Step
  <1>6. Job!Init
    BY <1>1 DEF Job!Init
  <1>7. QED
    BY <1>3, <1>4, <1>5, <1>6 DEF ImportInv

LEMMA ImportInvariant == Spec => []ImportInv
  <1>1. ImportInv /\ [Next]_importVars => ImportInv'
    BY ImportInvStep
  <1>2. QED
    BY <1>1, ImportInvInit, PTL DEF Spec

\* Two persons with one phone come from imports that ran at the same time:
\* findFirst of processRows (persons-import.service.ts) misses only what a
\* request has not committed.
THEOREM DuplicatesComeFromOverlap == Spec => []DuplicateOnlyByOverlap
  BY ImportInvariant, PTL DEF ImportInv

\* The import_jobs row of a long import is a background job as those of the
\* exports are: pending, processing, and done only when the worker has gone
\* through the whole spreadsheet, whatever fails or crashes.
THEOREM ImportJobRefinement == Spec => Implements
  <1>1. ImportInv /\ [Next]_importVars => [Job!Next]_(Job!vars)
    BY ImportInvStep
  <1>2. Init => Job!Init
    BY ImportInvInit
  <1>3. QED
    BY <1>1, <1>2, ImportInvariant, PTL DEF Spec, Implements, Job!Spec

-----------------------------------------------------------------------------
(* An import counts its rows, and the consents that are owed.               *)

Marks3 == {"none", "person", "consented"}

Consents(m) == {k \in DOMAIN m : m[k] = "consented"}

\* The persons without a consent, but for the one that is being registered.
Owing(r, m) == {k \in DOMAIN m : m[k] = "person" /\ ~(r.step = "consent" /\ k = r.at)}

\* An import with record r has made m, and at most n of it failed.
CountsOK(r, m, n) ==
  /\ r.at <= Len(r.file) + 1
  /\ r.imported + r.skipped + r.failed + 1 = r.at
  /\ r.step = "consent" => r.at \in DOMAIN m /\ m[r.at] = "person"
  /\ r.step \in Running => Cardinality(Consents(m)) = r.imported
  /\ r.step = "done" =>
       r.at = Len(r.file) + 1 /\ Cardinality(Consents(m)) = IF r.broken THEN 0 ELSE r.imported
  /\ Len(r.file) > SyncLimit => ~r.broken
  /\ Cardinality(Owing(r, m)) <= n

CountsInv ==
  /\ \A i \in Imports : import[i] # Idle => CountsOK(import[i], made[i], faults)
  /\ taken \subseteq Phones
  /\ faults \in 0..MaxFaults

\* What an import has made of a file is finite.
LEMMA MadeIsFinite ==
  ASSUME NEW file \in Files, NEW m \in [DOMAIN file -> Marks3], NEW S \in SUBSET DOMAIN m
  PROVE  IsFiniteSet(S) /\ Cardinality(S) \in Nat
  <1>1. Len(file) \in Nat /\ DOMAIN m = 1..Len(file)
    BY RowsOfFiles
  <1>2. IsFiniteSet(1..Len(file))
    BY <1>1, FS_Interval
  <1>3. IsFiniteSet(S)
    BY <1>1, <1>2, FS_Subset
  <1>4. QED
    BY <1>3, FS_CardinalityType

LEMMA CountsGrow ==
  ASSUME NEW r \in ImportRow, NEW m \in [DOMAIN r.file -> Marks3], NEW n \in Nat, NEW o \in Nat,
         n <= o, CountsOK(r, m, n)
  PROVE  CountsOK(r, m, o)
  <1>1. Cardinality(Owing(r, m)) \in Nat
    BY MadeIsFinite DEF ImportRow, Owing
  <1>2. QED
    BY <1>1 DEF CountsOK

\* A step of the import that makes nothing, or the end of one that stopped.
LEMMA CountsMove ==
  ASSUME NEW r \in ImportRow, NEW m \in [DOMAIN r.file -> Marks3], NEW n \in Nat, CountsOK(r, m, n),
         r.step \in Running \ {"consent"}, NEW step \in {"queued", "check", "insert", "fail", "stopped"}
  PROVE  CountsOK([r EXCEPT !.step = step], m, n)
  <1> DEFINE new == [r EXCEPT !.step = step]
  <1>1. /\ new.step = step /\ new.at = r.at /\ new.file = r.file /\ new.imported = r.imported
        /\ new.skipped = r.skipped /\ new.failed = r.failed /\ new.broken = r.broken
    BY DEF ImportRow
  <1> HIDE DEF new
  <1>2. Owing(new, m) = Owing(r, m)
    BY <1>1 DEF Owing
  <1>3. new.step \notin {"consent", "done"} /\ r.step \in Running
    BY <1>1
  <1>4. CountsOK(new, m, n)
    BY <1>1, <1>2, <1>3 DEF CountsOK
  <1>5. QED
    BY <1>4 DEF new

\* A row is passed: it is skipped, refused or its insert fails.
LEMMA CountsPass ==
  ASSUME NEW r \in ImportRow, NEW m \in [DOMAIN r.file -> Marks3], NEW n \in Nat, CountsOK(r, m, n),
         r.step \in {"check", "insert"}, r.at <= Len(r.file),
         NEW new, new.file = r.file, new.at = r.at + 1, new.step = "check", new.imported = r.imported,
         new.skipped + new.failed = r.skipped + r.failed + 1, new.skipped \in Nat, new.failed \in Nat,
         Len(r.file) > SyncLimit => ~new.broken
  PROVE  CountsOK(new, m, n)
  <1>1. r.file \in Files /\ r.at \in Nat /\ r.imported \in Nat /\ r.skipped \in Nat /\ r.failed \in Nat
    BY DEF ImportRow
  <1>2. Len(r.file) \in Nat
    BY <1>1, RowsOfFiles
  <1>3. Owing(new, m) = Owing(r, m)
    BY DEF Owing
  <1>4. /\ r.at <= Len(r.file) /\ new.at = r.at + 1 /\ new.file = r.file
        /\ r.imported + r.skipped + r.failed + 1 = r.at
        /\ new.skipped + new.failed = r.skipped + r.failed + 1 /\ new.imported = r.imported
        /\ new.skipped \in Nat /\ new.failed \in Nat
    BY DEF CountsOK
  <1>5. new.at <= Len(new.file) + 1
    BY <1>1, <1>2, <1>4
  <1>6. new.imported + new.skipped + new.failed + 1 = new.at
    <2> DEFINE a == r.imported
               b == r.skipped
               c == r.failed
               d == new.skipped
               e == new.failed
               at == r.at
    <2>1. /\ a \in Nat /\ b \in Nat /\ c \in Nat /\ d \in Nat /\ e \in Nat /\ at \in Nat
          /\ d + e = b + c + 1 /\ a + b + c + 1 = at
      BY <1>1, <1>4
    <2> HIDE DEF a, b, c, d, e, at
    <2>2. a + d + e + 1 = at + 1
      BY <2>1
    <2>3. QED
      BY <1>4, <2>2 DEF a, d, e, at
  <1>7. QED
    BY <1>3, <1>5, <1>6 DEF CountsOK, Running

\* The person of a row is inserted.
LEMMA CountsInsert ==
  ASSUME NEW r \in ImportRow, NEW m \in [DOMAIN r.file -> Marks3], NEW n \in Nat, CountsOK(r, m, n),
         r.step = "insert", r.at \in DOMAIN m, m[r.at] = "none"
  PROVE  CountsOK([r EXCEPT !.step = "consent"], [m EXCEPT ![r.at] = "person"], n)
  <1> DEFINE new == [r EXCEPT !.step = "consent"]
             mn  == [m EXCEPT ![r.at] = "person"]
  <1>1. /\ new.step = "consent" /\ new.at = r.at /\ new.file = r.file /\ new.imported = r.imported
        /\ new.skipped = r.skipped /\ new.failed = r.failed /\ new.broken = r.broken
    BY DEF ImportRow
  <1>2. DOMAIN mn = DOMAIN m /\ \A k \in DOMAIN m : mn[k] = IF k = r.at THEN "person" ELSE m[k]
    OBVIOUS
  <1> HIDE DEF new, mn
  <1>3. Owing(new, mn) = Owing(r, m)
    BY <1>1, <1>2 DEF Owing
  <1>4. Consents(mn) = Consents(m)
    BY <1>2 DEF Consents
  <1>5. CountsOK(new, mn, n)
    BY <1>1, <1>2, <1>3, <1>4 DEF CountsOK, Running
  <1>6. QED
    BY <1>5 DEF new, mn

\* Its consent is stored.
LEMMA CountsConsent ==
  ASSUME NEW r \in ImportRow, NEW m \in [DOMAIN r.file -> Marks3], NEW n \in Nat, CountsOK(r, m, n),
         r.step = "consent",
         NEW new, new.file = r.file, new.at = r.at + 1, new.step = "check", new.imported = r.imported + 1,
         new.skipped = r.skipped, new.failed = r.failed, new.broken = r.broken
  PROVE  CountsOK(new, [m EXCEPT ![r.at] = "consented"], n)
  <1> DEFINE mn == [m EXCEPT ![r.at] = "consented"]
  <1>1. r.file \in Files /\ r.at \in Nat /\ r.imported \in Nat /\ r.skipped \in Nat /\ r.failed \in Nat
    BY DEF ImportRow
  <1>2. Len(r.file) \in Nat /\ DOMAIN m = 1..Len(r.file)
    BY <1>1, RowsOfFiles
  <1>3. DOMAIN mn = DOMAIN m /\ \A k \in DOMAIN m : mn[k] = IF k = r.at THEN "consented" ELSE m[k]
    OBVIOUS
  <1>4. r.at \in DOMAIN m /\ m[r.at] = "person" /\ Cardinality(Consents(m)) = r.imported
        /\ r.imported + r.skipped + r.failed + 1 = r.at /\ Cardinality(Owing(r, m)) <= n
        /\ (Len(r.file) > SyncLimit => ~r.broken)
    BY DEF CountsOK, Running
  <1> HIDE DEF mn
  <1>5. Owing(new, mn) = Owing(r, m)
    BY <1>3, <1>4 DEF Owing
  <1>6. Consents(mn) = Consents(m) \cup {r.at} /\ r.at \notin Consents(m)
    BY <1>3, <1>4 DEF Consents
  <1>7. IsFiniteSet(Consents(m))
    BY <1>1, MadeIsFinite DEF Consents
  <1>8. Cardinality(Consents(mn)) = r.imported + 1
    BY <1>4, <1>6, <1>7, FS_AddElement
  <1>9. new.at <= Len(new.file) + 1
    BY <1>1, <1>2, <1>4
  <1>10. new.imported + new.skipped + new.failed + 1 = new.at
    BY SMTT(20), <1>1, <1>4
  <1>11. CountsOK(new, mn, n)
    BY <1>4, <1>5, <1>8, <1>9, <1>10 DEF CountsOK, Running
  <1>12. QED
    BY <1>11 DEF mn

\* The consent is not stored: one person more is without.
LEMMA CountsOwe ==
  ASSUME NEW r \in ImportRow, NEW m \in [DOMAIN r.file -> Marks3], NEW n \in Nat, CountsOK(r, m, n),
         r.step = "consent", NEW new, new.step # "consent"
  PROVE  Cardinality(Owing(new, m)) <= n + 1
  <1>1. Owing(new, m) = Owing(r, m) \cup {r.at} /\ r.at \notin Owing(r, m)
    BY DEF Owing, CountsOK
  <1>2. IsFiniteSet(Owing(r, m)) /\ Cardinality(Owing(r, m)) \in Nat
    BY MadeIsFinite DEF ImportRow, Owing
  <1>3. Cardinality(Owing(new, m)) = Cardinality(Owing(r, m)) + 1
    BY <1>1, <1>2, FS_AddElement
  <1>4. QED
    BY <1>2, <1>3 DEF CountsOK

\* Nothing remains of what was made.
LEMMA NothingCounts ==
  ASSUME NEW r, NEW m, \A k \in DOMAIN m : m[k] = "none"
  PROVE  Cardinality(Owing(r, m)) = 0 /\ Cardinality(Consents(m)) = 0
  <1>1. Owing(r, m) = {} /\ Consents(m) = {}
    BY DEF Owing, Consents
  <1>2. QED
    BY <1>1, FS_EmptySet

\* An import comes to its end.
LEMMA CountsDone ==
  ASSUME NEW r \in ImportRow, NEW m \in [DOMAIN r.file -> Marks3], NEW n \in Nat, CountsOK(r, m, n),
         r.step = "check", r.at > Len(r.file), NEW mn,
         \/ mn = m /\ ~r.broken
         \/ r.broken /\ \A k \in DOMAIN mn : mn[k] = "none"
  PROVE  CountsOK([r EXCEPT !.step = "done"], mn, n)
  <1> DEFINE new == [r EXCEPT !.step = "done"]
  <1>1. /\ new.step = "done" /\ new.at = r.at /\ new.file = r.file /\ new.imported = r.imported
        /\ new.skipped = r.skipped /\ new.failed = r.failed /\ new.broken = r.broken
        /\ r.file \in Files /\ r.at \in Nat
    BY DEF ImportRow
  <1>2. Len(r.file) \in Nat
    BY <1>1, RowsOfFiles
  <1> HIDE DEF new
  <1>3. new.at = Len(new.file) + 1 /\ r.step \in Running /\ new.step \notin Running
    BY <1>1, <1>2 DEF CountsOK, Running
  <1>4. CASE mn = m /\ ~r.broken
    <2>1. Owing(new, mn) = Owing(r, m)
      BY <1>1, <1>4 DEF Owing
    <2>2. CountsOK(new, mn, n)
      BY <1>1, <1>3, <1>4, <2>1 DEF CountsOK
    <2>3. QED
      BY <2>2 DEF new
  <1>5. CASE r.broken /\ \A k \in DOMAIN mn : mn[k] = "none"
    <2>1. Cardinality(Owing(new, mn)) = 0 /\ Cardinality(Consents(mn)) = 0
      BY <1>5, NothingCounts
    <2>2. CountsOK(new, mn, n)
      BY <1>1, <1>3, <1>5, <2>1 DEF CountsOK
    <2>3. QED
      BY <2>2 DEF new
  <1>6. QED
    BY <1>4, <1>5

\* A short import stops, and nothing remains of it.
LEMMA CountsNothing ==
  ASSUME NEW r \in ImportRow, NEW m, NEW n \in Nat, CountsOK(r, m, n),
         NEW mn, \A k \in DOMAIN mn : mn[k] = "none"
  PROVE  CountsOK([r EXCEPT !.step = "stopped"], mn, n)
  <1> DEFINE new == [r EXCEPT !.step = "stopped"]
  <1>1. /\ new.step = "stopped" /\ new.at = r.at /\ new.file = r.file /\ new.imported = r.imported
        /\ new.skipped = r.skipped /\ new.failed = r.failed /\ new.broken = r.broken
    BY DEF ImportRow
  <1> HIDE DEF new
  <1>2. Cardinality(Owing(new, mn)) = 0 /\ new.step \notin Running
    BY <1>1, NothingCounts DEF Running
  <1>3. CountsOK(new, mn, n)
    BY <1>1, <1>2 DEF CountsOK
  <1>4. QED
    BY <1>3 DEF new

\* An import dies or fails where it is.
LEMMA CountsFail ==
  ASSUME NEW r \in ImportRow, NEW m \in [DOMAIN r.file -> Marks3], NEW n \in Nat, CountsOK(r, m, n),
         r.step \in Running
  PROVE  CountsOK([r EXCEPT !.step = "stopped"], m, n + 1)
  <1> DEFINE new == [r EXCEPT !.step = "stopped"]
  <1>1. CASE r.step # "consent"
    <2>1. CountsOK(new, m, n) /\ new \in ImportRow /\ new.file = r.file
      BY <1>1, CountsMove DEF ImportRow
    <2> HIDE DEF new
    <2>2. m \in [DOMAIN new.file -> Marks3]
      BY <2>1
    <2>3. CountsOK(new, m, n + 1)
      BY <2>1, <2>2, CountsGrow
    <2>4. QED
      BY <2>3 DEF new
  <1>2. CASE r.step = "consent"
    <2>1. /\ new.step = "stopped" /\ new.at = r.at /\ new.file = r.file /\ new.imported = r.imported
          /\ new.skipped = r.skipped /\ new.failed = r.failed /\ new.broken = r.broken
      BY DEF ImportRow
    <2> HIDE DEF new
    <2>2. Cardinality(Owing(new, m)) <= n + 1 /\ new.step \notin Running
      BY <1>2, <2>1, CountsOwe DEF Running
    <2>3. CountsOK(new, m, n + 1)
      BY <2>1, <2>2 DEF CountsOK
    <2>4. QED
      BY <2>3 DEF new
  <1>3. QED
    BY <1>1, <1>2

\* The other imports are as they were.
OthersStay(i) == \A j \in Imports : j # i => import'[j] = import[j] /\ made'[j] = made[j]

\* One import takes a step.
LEMMA CountsStep ==
  ASSUME ImportInv, CountsInv, NEW i \in Imports, OthersStay(i), taken' = taken,
         faults' \in 0..MaxFaults, faults <= faults', CountsOK(import'[i], made'[i], faults')
  PROVE  CountsInv'
  <1>1. faults \in Nat /\ faults' \in Nat
    BY LimitsAssumption DEF CountsInv
  <1>2. ASSUME NEW j \in Imports, import'[j] # Idle PROVE CountsOK(import'[j], made'[j], faults')
    <2>1. CASE j = i
      BY <2>1
    <2>2. CASE j # i
      <3>1. import'[j] = import[j] /\ made'[j] = made[j] /\ import[j] # Idle
        BY <1>2, <2>2 DEF OthersStay
      <3>2. import[j] \in ImportRow
        BY <3>1, ImportsAre DEF ImportInv, Typed
      <3>3. made[j] \in [DOMAIN import[j].file -> Marks3] /\ CountsOK(import[j], made[j], faults)
        BY <3>1 DEF ImportInv, Typed, CountsInv, Marks3
      <3>4. CountsOK(import[j], made[j], faults')
        BY <1>1, <3>2, <3>3, CountsGrow
      <3>5. QED
        BY <3>1, <3>4
    <2>3. QED
      BY <2>1, <2>2
  <1>3. QED
    BY <1>2 DEF CountsInv

\* An import that is under way.
LEMMA UnderWay ==
  ASSUME ImportInv, CountsInv, NEW i \in Imports, import[i].step \in Running
  PROVE  /\ import[i] \in ImportRow /\ import[i] # Idle
         /\ made[i] \in [DOMAIN import[i].file -> Marks3]
         /\ CountsOK(import[i], made[i], faults)
         /\ made = [made EXCEPT ![i] = made[i]]
         /\ faults \in Nat /\ faults \in 0..MaxFaults
         /\ import[i].file \in Files /\ Len(import[i].file) \in Nat
         /\ DOMAIN made[i] = 1..Len(import[i].file)
  <1>1. import[i] \in ImportRow /\ import[i] # Idle
    BY AtWork, ImportsAre DEF ImportInv
  <1>2. made[i] \in [DOMAIN import[i].file -> Marks3] /\ made = [made EXCEPT ![i] = made[i]]
    BY <1>1 DEF ImportInv, Typed, Marks3
  <1>3. import[i].file \in Files
    BY <1>1 DEF ImportRow
  <1>4. DOMAIN made[i] = 1..Len(import[i].file) /\ Len(import[i].file) \in Nat
    BY <1>2, <1>3, RowsOfFiles
  <1>5. QED
    BY <1>1, <1>2, <1>3, <1>4, LimitsAssumption DEF CountsInv

LEMMA CountsPasses ==
  ASSUME ImportInv, CountsInv, NEW i \in Imports,
         SkipIncomplete(i) \/ SkipKnown(i) \/ InsertRefused(i) \/ InsertFails(i)
  PROVE  CountsInv'
  <1> DEFINE r == import[i]
  <1>1. r.step \in {"check", "insert", "consent"} /\ UNCHANGED <<made, taken>>
    BY DEF SkipIncomplete, SkipKnown, InsertRefused, InsertFails, Checking, Step, Report
  <1>2. r.step \in Running
    BY <1>1 DEF Running
  <1>3. /\ r \in ImportRow /\ made[i] \in [DOMAIN r.file -> Marks3] /\ CountsOK(r, made[i], faults)
        /\ made' = [made EXCEPT ![i] = made[i]] /\ faults \in Nat /\ faults \in 0..MaxFaults
        /\ Len(r.file) \in Nat /\ DOMAIN made[i] = 1..Len(r.file)
    BY <1>1, <1>2, UnderWay
  <1>4. /\ r.at \in Nat \ {0} /\ r.skipped \in Nat /\ r.failed \in Nat /\ r.imported \in Nat
        /\ r.broken \in BOOLEAN
    BY <1>3 DEF ImportRow
  <1>5. r.step \in {"insert", "consent"} => r.at \in DOMAIN made[i]
    BY <1>2 DEF ImportInv, RowsInTurn, Active
  <1>6. CASE SkipIncomplete(i) \/ SkipKnown(i)
    <2>1. PICK counter \in {"failed", "skipped"} : Count(i, counter)
      BY <1>6 DEF SkipIncomplete, SkipKnown
    <2>2. r.step = "check" /\ r.at <= Len(r.file) /\ UNCHANGED faults
      BY <1>6 DEF SkipIncomplete, SkipKnown, Checking, Step
    <2> DEFINE new == [r EXCEPT !.at = r.at + 1, !.step = "check", ![counter] = r[counter] + 1]
    <2>3. import' = [import EXCEPT ![i] = new]
      BY <2>1 DEF Count
    <2>4. /\ new.file = r.file /\ new.at = r.at + 1 /\ new.step = "check" /\ new.imported = r.imported
          /\ new.broken = r.broken
      BY <1>3 DEF ImportRow
    <2>5. \/ new.skipped = r.skipped + 1 /\ new.failed = r.failed
          \/ new.skipped = r.skipped /\ new.failed = r.failed + 1
      BY <1>3 DEF ImportRow
    <2> HIDE DEF new
    <2>6. new.skipped + new.failed = r.skipped + r.failed + 1 /\ new.skipped \in Nat /\ new.failed \in Nat
      BY <1>4, <2>5
    <2>7. Len(r.file) > SyncLimit => ~new.broken
      BY <1>3, <2>4 DEF CountsOK
    <2>8. CountsOK(new, made[i], faults)
      BY <1>3, <2>2, <2>4, <2>6, <2>7, CountsPass
    <2>9. OthersStay(i) /\ import'[i] = new /\ made'[i] = made[i]
      BY <1>1, <2>3 DEF OthersStay, ImportInv, Typed
    <2>10. CountsOK(import'[i], made'[i], faults')
      BY <2>2, <2>8, <2>9
    <2>11. taken' = taken /\ faults' \in 0..MaxFaults /\ faults <= faults'
      BY <1>1, <1>3, <2>2
    <2>12. QED
      BY <2>9, <2>10, <2>11, CountsStep
  <1>7. ASSUME InsertRefused(i) \/ InsertFails(i) PROVE CountsInv'
    <2>1. PICK reached \in BOOLEAN : Report(i, reached)
      BY <1>7 DEF InsertRefused, InsertFails
    <2> DEFINE c   == r.broken \/ (reached /\ IsShort(i))
               new == [r EXCEPT !.at = r.at + 1, !.step = "check", !.failed = r.failed + 1, !.broken = c]
    <2>2. import' = [import EXCEPT ![i] = new]
      BY <2>1 DEF Report
    <2> DEFINE d == c
    <2>3. Len(r.file) > SyncLimit => ~d
      BY <1>3, LimitsAssumption DEF CountsOK, IsShort
    <2> HIDE DEF c
    <2>4. /\ new.file = r.file /\ new.at = r.at + 1 /\ new.step = "check" /\ new.imported = r.imported
          /\ new.skipped = r.skipped /\ new.failed = r.failed + 1 /\ new.broken = c
      BY <1>3 DEF ImportRow
    <2> HIDE DEF new
    <2>5. new.skipped + new.failed = r.skipped + r.failed + 1 /\ new.skipped \in Nat /\ new.failed \in Nat
      BY <1>4, <2>4
    <2>6. r.step \in {"insert", "consent"} /\ r.at <= Len(r.file)
      <3>1. r.step \in {"insert", "consent"}
        BY <1>7 DEF InsertRefused, InsertFails, Step
      <3>2. QED
        BY <1>3, <1>4, <1>5, <3>1
    <2>7. faults' \in 0..MaxFaults /\ faults' \in {faults, faults + 1}
          /\ (r.step = "consent" => faults' = faults + 1)
      <3>1. CASE InsertRefused(i)
        <4>1. faults' = faults /\ r.step = "insert"
          BY <3>1 DEF InsertRefused, Step
        <4>2. QED
          BY <1>3, <4>1
      <3>2. CASE InsertFails(i)
        <4>1. faults' = faults + 1 /\ faults < MaxFaults
          BY <3>2 DEF InsertFails
        <4>2. QED
          BY <1>3, <4>1, LimitsAssumption
      <3>3. QED
        BY <1>7, <3>1, <3>2
    <2>8. CASE r.step = "insert"
      <3>1. CountsOK(new, made[i], faults)
        BY <1>3, <2>3, <2>4, <2>5, <2>6, <2>8, CountsPass
      <3>2. Cardinality(Owing(new, made[i])) \in Nat
        BY <1>3, MadeIsFinite DEF ImportRow, Owing
      <3>3. CountsOK(new, made[i], faults')
        BY <1>3, <2>7, <3>1, <3>2 DEF CountsOK
      <3>4. OthersStay(i) /\ import'[i] = new /\ made'[i] = made[i]
        BY <1>1, <2>2 DEF OthersStay, ImportInv, Typed
      <3>5. CountsOK(import'[i], made'[i], faults')
        BY <3>3, <3>4
      <3>6. taken' = taken /\ faults' \in 0..MaxFaults /\ faults <= faults'
        BY <1>1, <1>3, <2>7
      <3>7. QED
        BY <3>4, <3>5, <3>6, CountsStep
    <2>9. CASE r.step = "consent"
      <3>1. faults' = faults + 1 /\ Cardinality(Owing(new, made[i])) <= faults + 1
        BY <1>3, <2>4, <2>7, <2>9, CountsOwe
      <3>2. /\ r.imported + r.skipped + r.failed + 1 = r.at
            /\ Cardinality(Consents(made[i])) = r.imported
        BY <1>2, <1>3 DEF CountsOK
      <3>3. new.at <= Len(new.file) + 1
        BY <1>3, <1>4, <2>4, <2>6
      <3>4. new.imported + new.skipped + new.failed + 1 = new.at
        BY <1>4, <2>4, <3>2
      <3>5. Len(new.file) > SyncLimit => ~new.broken
        BY <2>3, <2>4
      <3>6. CountsOK(new, made[i], faults')
        BY <2>4, <3>1, <3>2, <3>3, <3>4, <3>5 DEF CountsOK
      <3>7. OthersStay(i) /\ import'[i] = new /\ made'[i] = made[i]
        BY <1>1, <2>2 DEF OthersStay, ImportInv, Typed
      <3>8. CountsOK(import'[i], made'[i], faults')
        BY <3>6, <3>7
      <3>9. taken' = taken /\ faults' \in 0..MaxFaults /\ faults <= faults'
        BY <1>1, <1>3, <2>7
      <3>10. QED
        BY <3>7, <3>8, <3>9, CountsStep
    <2>10. QED
      BY <2>6, <2>8, <2>9
  <1>8. QED
    BY <1>6, <1>7

LEMMA CountsMoves ==
  ASSUME ImportInv, CountsInv, NEW i \in Imports,
         CommitJob(i) \/ StartTooEarly(i) \/ MarkProcessing(i) \/ Take(i) \/ MarkError(i)
  PROVE  CountsInv'
  <1> DEFINE r == import[i]
  <1>1. PICK step \in {"queued", "check", "insert", "fail", "stopped"} :
          /\ r.step \in {"accepted", "queued", "check", "fail"}
          /\ import' = [import EXCEPT ![i].step = step] /\ UNCHANGED <<made, taken, faults>>
    <2>1. CASE CommitJob(i)
      BY <2>1 DEF CommitJob, Step, Goto
    <2>2. CASE StartTooEarly(i)
      BY <2>2 DEF StartTooEarly, Step, Goto
    <2>3. CASE MarkProcessing(i)
      BY <2>3 DEF MarkProcessing, Step, Goto
    <2>4. CASE Take(i)
      BY <2>4 DEF Take, Checking, Step
    <2>5. CASE MarkError(i)
      BY <2>5 DEF MarkError, Step, Goto
    <2>6. QED
      BY <2>1, <2>2, <2>3, <2>4, <2>5
  <1>2. r.step \in Running \ {"consent"}
    BY <1>1 DEF Running
  <1>3. /\ r \in ImportRow /\ made[i] \in [DOMAIN r.file -> Marks3] /\ CountsOK(r, made[i], faults)
        /\ made' = [made EXCEPT ![i] = made[i]] /\ faults \in Nat /\ faults \in 0..MaxFaults
    BY <1>1, <1>2, UnderWay
  <1>4. CountsOK([r EXCEPT !.step = step], made[i], faults)
    BY <1>2, <1>3, CountsMove
  <1>5. import' = [import EXCEPT ![i] = [r EXCEPT !.step = step]]
    BY <1>1
  <1>6. OthersStay(i) /\ import'[i] = [r EXCEPT !.step = step] /\ made'[i] = made[i]
    BY <1>1, <1>5 DEF OthersStay, ImportInv, Typed
  <1>7. CountsOK(import'[i], made'[i], faults')
    BY <1>1, <1>4, <1>6
  <1>8. taken' = taken /\ faults' \in 0..MaxFaults /\ faults <= faults'
    BY <1>1, <1>3
  <1>9. QED
    BY <1>6, <1>7, <1>8, CountsStep

LEMMA CountsMarks ==
  ASSUME ImportInv, CountsInv, NEW i \in Imports, Insert(i) \/ Consent(i)
  PROVE  CountsInv'
  <1> DEFINE r == import[i]
  <1>1. r.step \in {"insert", "consent"} /\ UNCHANGED <<taken, faults>>
    BY DEF Insert, Consent, Step, Goto
  <1>2. r.step \in Running
    BY <1>1 DEF Running
  <1>3. /\ r \in ImportRow /\ made[i] \in [DOMAIN r.file -> Marks3] /\ CountsOK(r, made[i], faults)
        /\ faults \in Nat /\ faults \in 0..MaxFaults
    BY <1>2, UnderWay
  <1>4. CASE Insert(i)
    <2>1. r.step = "insert" /\ import' = [import EXCEPT ![i] = [r EXCEPT !.step = "consent"]]
          /\ made' = [made EXCEPT ![i] = [made[i] EXCEPT ![r.at] = "person"]]
      BY <1>4 DEF Insert, Step, Goto
    <2>2. r.at \in DOMAIN made[i] /\ made[i][r.at] = "none"
      <3>1. r.at \in DOMAIN made[i]
        BY <1>2, <2>1 DEF ImportInv, RowsInTurn, Active
      <3>2. made[i][r.at] # "none" => r.at < r.at
        BY <1>2, <2>1, <3>1 DEF ImportInv, RowsInTurn, Active, Step
      <3>3. r.at \in Nat
        BY <1>3 DEF ImportRow
      <3>4. QED
        BY <3>1, <3>2, <3>3
    <2>3. CountsOK([r EXCEPT !.step = "consent"], [made[i] EXCEPT ![r.at] = "person"], faults)
      BY <1>3, <2>1, <2>2, CountsInsert
    <2>4. OthersStay(i) /\ import'[i] = [r EXCEPT !.step = "consent"] /\ made'[i] = [made[i] EXCEPT ![r.at] = "person"]
      BY <2>1 DEF OthersStay, ImportInv, Typed
    <2>5. CountsOK(import'[i], made'[i], faults')
      BY <1>1, <2>3, <2>4
    <2>6. taken' = taken /\ faults' \in 0..MaxFaults /\ faults <= faults'
      BY <1>1, <1>3
    <2>7. QED
      BY <2>4, <2>5, <2>6, CountsStep
  <1>5. CASE Consent(i)
    <2> DEFINE new == [r EXCEPT !.at = r.at + 1, !.step = "check", !["imported"] = r.imported + 1]
    <2>1. r.step = "consent" /\ import' = [import EXCEPT ![i] = new]
          /\ made' = [made EXCEPT ![i] = [made[i] EXCEPT ![r.at] = "consented"]]
      BY <1>5 DEF Consent, Step, Count
    <2>2. /\ new.file = r.file /\ new.at = r.at + 1 /\ new.step = "check" /\ new.imported = r.imported + 1
          /\ new.skipped = r.skipped /\ new.failed = r.failed /\ new.broken = r.broken
      BY <1>3 DEF ImportRow
    <2> HIDE DEF new
    <2>3. CountsOK(new, [made[i] EXCEPT ![r.at] = "consented"], faults)
      BY <1>3, <2>1, <2>2, CountsConsent
    <2>4. OthersStay(i) /\ import'[i] = new /\ made'[i] = [made[i] EXCEPT ![r.at] = "consented"]
      BY <2>1 DEF OthersStay, ImportInv, Typed
    <2>5. CountsOK(import'[i], made'[i], faults')
      BY <1>1, <2>3, <2>4
    <2>6. taken' = taken /\ faults' \in 0..MaxFaults /\ faults <= faults'
      BY <1>1, <1>3
    <2>7. QED
      BY <2>4, <2>5, <2>6, CountsStep
  <1>6. QED
    BY <1>4, <1>5

LEMMA CountsEnds ==
  ASSUME ImportInv, CountsInv, NEW i \in Imports,
         CheckRefused(i) \/ CheckFails(i) \/ AnswerShort(i) \/ MarkDone(i)
  PROVE  CountsInv'
  <1> DEFINE r == import[i]
             m == Nothing(r.file)
  <1>1. r.step = "check" /\ UNCHANGED taken
    BY DEF CheckRefused, CheckFails, AnswerShort, MarkDone, AllRows, Step, Throw, Goto
  <1>2. /\ r \in ImportRow /\ made[i] \in [DOMAIN r.file -> Marks3] /\ CountsOK(r, made[i], faults)
        /\ made = [made EXCEPT ![i] = made[i]] /\ faults \in Nat /\ faults \in 0..MaxFaults
    BY <1>1, UnderWay DEF Running
  <1>3. \A k \in DOMAIN m : m[k] = "none"
    BY DEF Nothing
  <1> HIDE DEF m
  <1>4. CASE AnswerShort(i) \/ MarkDone(i)
    <2> DEFINE mn == IF AnswerShort(i) /\ r.broken THEN m ELSE made[i]
    <2>1. r.at > Len(r.file) /\ import' = [import EXCEPT ![i] = [r EXCEPT !.step = "done"]] /\ UNCHANGED faults
      BY <1>4 DEF AnswerShort, MarkDone, AllRows, Goto
    <2>2. r.broken => IsShort(i)
      <3>1. r.file \in Files /\ Len(r.file) \in Nat
        BY <1>2, RowsOfFiles DEF ImportRow
      <3>2. QED
        BY <1>2, <3>1, LimitsAssumption DEF CountsOK, IsShort
    <2>3. /\ made' = [made EXCEPT ![i] = mn]
          /\ \/ mn = made[i] /\ ~r.broken
             \/ r.broken /\ mn = m
      <3>1. CASE AnswerShort(i)
        BY <1>2, <3>1 DEF AnswerShort, m
      <3>2. CASE MarkDone(i) /\ ~AnswerShort(i)
        BY <1>2, <2>2, <3>2 DEF MarkDone
      <3>3. QED
        BY <1>4, <3>1, <3>2
    <2> HIDE DEF mn
    <2>4. \/ mn = made[i] /\ ~r.broken
          \/ r.broken /\ \A k \in DOMAIN mn : mn[k] = "none"
      BY <1>3, <2>3
    <2>5. CountsOK([r EXCEPT !.step = "done"], mn, faults)
      BY <1>1, <1>2, <2>1, <2>4, CountsDone
    <2>6. OthersStay(i) /\ import'[i] = [r EXCEPT !.step = "done"] /\ made'[i] = mn
      BY <2>1, <2>3 DEF OthersStay, ImportInv, Typed
    <2>7. CountsOK(import'[i], made'[i], faults')
      BY <2>1, <2>5, <2>6
    <2>8. taken' = taken /\ faults' \in 0..MaxFaults /\ faults <= faults'
      BY <1>1, <1>2, <2>1
    <2>9. QED
      BY <2>6, <2>7, <2>8, CountsStep
  <1>5. CASE CheckRefused(i) \/ CheckFails(i)
    <2>1. Throw(i) /\ faults' \in 0..MaxFaults /\ faults' \in {faults, faults + 1} /\ faults' \in Nat
      BY <1>2, <1>5, LimitsAssumption DEF CheckRefused, CheckFails
    <2>2. CASE IsShort(i)
      <3>1. import' = [import EXCEPT ![i] = [r EXCEPT !.step = "stopped"]] /\ made' = [made EXCEPT ![i] = m]
        BY <2>1, <2>2 DEF Throw, Goto, m
      <3>2. CountsOK(r, made[i], faults')
        BY <1>2, <2>1, CountsGrow
      <3>3. CountsOK([r EXCEPT !.step = "stopped"], m, faults')
        BY <1>2, <1>3, <2>1, <3>2, CountsNothing
      <3>4. OthersStay(i) /\ import'[i] = [r EXCEPT !.step = "stopped"] /\ made'[i] = m
        BY <3>1 DEF OthersStay, ImportInv, Typed
      <3>5. CountsOK(import'[i], made'[i], faults')
        BY <3>3, <3>4
      <3>6. taken' = taken /\ faults' \in 0..MaxFaults /\ faults <= faults'
        BY <1>1, <1>2, <2>1
      <3>7. QED
        BY <3>4, <3>5, <3>6, CountsStep
    <2>3. CASE ~IsShort(i)
      <3>1. import' = [import EXCEPT ![i] = [r EXCEPT !.step = "fail"]] /\ made' = [made EXCEPT ![i] = made[i]]
        BY <1>2, <2>1, <2>3 DEF Throw, Goto
      <3>2. CountsOK(r, made[i], faults')
        BY <1>2, <2>1, CountsGrow
      <3>3. CountsOK([r EXCEPT !.step = "fail"], made[i], faults')
        BY <1>1, <1>2, <2>1, <3>2, CountsMove DEF Running
      <3>4. OthersStay(i) /\ import'[i] = [r EXCEPT !.step = "fail"] /\ made'[i] = made[i]
        BY <3>1 DEF OthersStay, ImportInv, Typed
      <3>5. CountsOK(import'[i], made'[i], faults')
        BY <3>3, <3>4
      <3>6. taken' = taken /\ faults' \in 0..MaxFaults /\ faults <= faults'
        BY <1>1, <1>2, <2>1
      <3>7. QED
        BY <3>4, <3>5, <3>6, CountsStep
    <2>4. QED
      BY <2>2, <2>3
  <1>6. QED
    BY <1>4, <1>5

\* The process dies.
LEMMA CountsCrash ==
  ASSUME ImportInv, CountsInv, Crash
  PROVE  CountsInv'
  <1>1. faults \in Nat /\ faults' = faults + 1 /\ faults' \in Nat /\ faults' \in 0..MaxFaults /\ taken' = taken
    BY LimitsAssumption DEF Crash, CountsInv
  <1>2. ASSUME NEW i \in Imports, import'[i] # Idle PROVE CountsOK(import'[i], made'[i], faults')
    <2>1. CASE Active(i)
      <3>1. /\ import[i] \in ImportRow /\ made[i] \in [DOMAIN import[i].file -> Marks3]
            /\ CountsOK(import[i], made[i], faults) /\ import[i].step \in Running
        BY <2>1, UnderWay DEF Active
      <3>2. /\ import'[i] = [import[i] EXCEPT !.step = "stopped"]
            /\ made'[i] = IF IsShort(i) THEN Nothing(import[i].file) ELSE made[i]
        BY <2>1 DEF Crash
      <3>3. CASE IsShort(i)
        <4>1. CountsOK(import[i], made[i], faults')
          BY <1>1, <3>1, CountsGrow
        <4>2. \A k \in DOMAIN made'[i] : made'[i][k] = "none"
          BY <3>2, <3>3 DEF Nothing
        <4>3. CountsOK([import[i] EXCEPT !.step = "stopped"], made'[i], faults')
          BY <1>1, <3>1, <4>1, <4>2, CountsNothing
        <4>4. QED
          BY <3>2, <4>3
      <3>4. CASE ~IsShort(i)
        <4>1. CountsOK([import[i] EXCEPT !.step = "stopped"], made[i], faults + 1)
          BY <1>1, <3>1, CountsFail
        <4>2. QED
          BY <1>1, <3>2, <3>4, <4>1
      <3>5. QED
        BY <3>3, <3>4
    <2>2. CASE ~Active(i)
      <3>1. import'[i] = import[i] /\ made'[i] = made[i]
        BY <2>2 DEF Crash
      <3>2. import[i] \in ImportRow
        BY <1>2, <3>1 DEF ImportInv, Typed
      <3>3. made[i] \in [DOMAIN import[i].file -> Marks3] /\ CountsOK(import[i], made[i], faults)
        BY <1>2, <3>1, <3>2 DEF ImportInv, Typed, CountsInv, Marks3
      <3>4. CountsOK(import[i], made[i], faults')
        BY <1>1, <3>2, <3>3, CountsGrow
      <3>5. QED
        BY <3>1, <3>4
    <2>3. QED
      BY <2>1, <2>2
  <1>3. QED
    BY <1>1, <1>2 DEF CountsInv

\* An upload is confirmed.
LEMMA CountsConfirms ==
  ASSUME ImportInv, CountsInv, NEW i \in Imports, NEW file \in Files, Confirm(i, file)
  PROVE  CountsInv'
  <1> DEFINE r == [step |-> IF Len(file) <= SyncLimit THEN "check" ELSE "accepted", file |-> file, at |-> 1,
                   imported |-> 0, skipped |-> 0, failed |-> 0, broken |-> FALSE]
             m == Nothing(file)
  <1>1. import' = [import EXCEPT ![i] = r] /\ made' = [made EXCEPT ![i] = m]
    BY DEF Confirm
  <1>2. /\ r.step \in {"check", "accepted"} /\ r.file = file /\ r.at = 1 /\ r.imported = 0
        /\ r.skipped = 0 /\ r.failed = 0 /\ r.broken = FALSE
    OBVIOUS
  <1>3. \A k \in DOMAIN m : m[k] = "none"
    BY DEF Nothing
  <1> HIDE DEF r, m
  <1>4. Cardinality(Owing(r, m)) = 0 /\ Cardinality(Consents(m)) = 0
    BY <1>3, NothingCounts
  <1>5. faults \in Nat /\ faults \in 0..MaxFaults /\ faults' = faults /\ taken' = taken /\ Len(file) \in Nat
    BY LimitsAssumption, RowsOfFiles DEF CountsInv, Confirm
  <1>6. CountsOK(r, m, faults)
    BY <1>2, <1>4, <1>5 DEF CountsOK
  <1>7. OthersStay(i) /\ import'[i] = r /\ made'[i] = m
    BY <1>1 DEF OthersStay, ImportInv, Typed
  <1>8. CountsOK(import'[i], made'[i], faults')
    BY <1>5, <1>6, <1>7
  <1>9. QED
    BY <1>5, <1>7, <1>8, CountsStep

LEMMA CountsInvStep ==
  ASSUME ImportInv, CountsInv, [Next]_importVars
  PROVE  CountsInv'
  <1>1. CASE UNCHANGED importVars
    BY <1>1 DEF importVars, CountsInv
  <1>2. CASE \E i \in Imports, file \in Files : Confirm(i, file)
    BY <1>2, CountsConfirms
  <1>3. ASSUME NEW i \in Imports, Work(i) \/ InsertFails(i) \/ CheckFails(i)
        PROVE  CountsInv'
    BY <1>3, CountsPasses, CountsMoves, CountsMarks, CountsEnds DEF Work
  <1>4. CASE Crash
    BY <1>4, CountsCrash
  <1>5. ASSUME NEW phone \in Phones, RegisterElsewhere(phone) PROVE CountsInv'
    BY <1>5 DEF RegisterElsewhere, CountsInv
  <1>6. QED
    BY <1>1, <1>2, <1>3, <1>4, <1>5 DEF Next

LEMMA CountsInvInit ==
  ASSUME Init
  PROVE  CountsInv
  BY LimitsAssumption DEF Init, CountsInv

\* What the invariants say of the counters is what the runs check.
LEMMA CountsAreTrue ==
  ASSUME ImportInv, CountsInv
  PROVE  ImportsCohere
  <1>1. TypeOK
    BY DEF TypeOK, ImportInv, Typed, CountsInv, ImportRow
  <1>2. ASSUME NEW i \in Imports, Step(i, "done")
        PROVE  /\ import[i].imported + import[i].skipped + import[i].failed = Len(import[i].file)
               /\ Cardinality(Consented(i)) = IF import[i].broken THEN 0 ELSE import[i].imported
    <2>1. import[i] \in ImportRow /\ import[i] # Idle
      BY <1>2, AtWork DEF Step, ImportInv
    <2>2. CountsOK(import[i], made[i], faults) /\ import[i].step = "done"
      BY <1>2, <2>1 DEF CountsInv, Step
    <2>3. Consented(i) = Consents(made[i])
      BY DEF Consented, Consents
    <2>4. /\ import[i].imported \in Nat /\ import[i].skipped \in Nat /\ import[i].failed \in Nat
          /\ import[i].file \in Files /\ Len(import[i].file) \in Nat
      BY <2>1, RowsOfFiles DEF ImportRow
    <2>5. /\ import[i].imported + import[i].skipped + import[i].failed + 1 = import[i].at
          /\ import[i].at = Len(import[i].file) + 1
          /\ Cardinality(Consents(made[i])) = IF import[i].broken THEN 0 ELSE import[i].imported
      BY <2>2 DEF CountsOK
    <2>6. import[i].imported + import[i].skipped + import[i].failed = Len(import[i].file)
      BY <2>4, <2>5
    <2>7. QED
      BY <2>3, <2>5, <2>6
  <1>3. ASSUME NEW i \in Imports
        PROVE  Cardinality({k \in DOMAIN made[i] : made[i][k] = "person" /\ ~Step(i, "consent")}) <= faults
    <2> DEFINE Left == {k \in DOMAIN made[i] : made[i][k] = "person" /\ ~Step(i, "consent")}
    <2>1. faults \in Nat
      BY LimitsAssumption DEF CountsInv
    <2>2. CASE import[i] = Idle
      <3>1. Left = {}
        BY <2>2 DEF ImportInv, Typed
      <3>2. QED
        BY <2>1, <3>1, FS_EmptySet
    <2>3. CASE import[i] # Idle
      <3>1. import[i] \in ImportRow
        BY <2>3 DEF ImportInv, Typed
      <3>2. import[i].file \in Files /\ made[i] \in [DOMAIN import[i].file -> Marks3]
        BY <3>1 DEF ImportRow, ImportInv, Typed, Marks3
      <3>3. Left \subseteq Owing(import[i], made[i]) /\ Owing(import[i], made[i]) \in SUBSET DOMAIN made[i]
        BY DEF Owing, Step
      <3>4. IsFiniteSet(Owing(import[i], made[i])) /\ Cardinality(Owing(import[i], made[i])) \in Nat
        BY <3>2, <3>3, MadeIsFinite
      <3>5. Cardinality(Left) <= Cardinality(Owing(import[i], made[i])) /\ Cardinality(Left) \in Nat
        BY <3>3, <3>4, FS_Subset, FS_CardinalityType
      <3>6. Cardinality(Owing(import[i], made[i])) <= faults
        BY <2>3 DEF CountsInv, CountsOK
      <3>7. QED
        BY <2>1, <3>4, <3>5, <3>6
    <2>4. QED
      BY <2>2, <2>3
  <1>4. QED
    BY <1>1, <1>2, <1>3 DEF ImportsCohere, ReportIsTrue, ConsentUnlessFailed

\* An import that ends has counted each row once and stored the persons it
\* says it imported with their consent, and each failure or crash leaves at
\* most one person without (processRows, persons-import.service.ts), whatever
\* the files, the failures and the order of the steps.
THEOREM ImportsStayCoherent == Spec => []ImportsCohere
  <1>1. Init => CountsInv
    BY CountsInvInit
  <1>2. ImportInv /\ CountsInv /\ [Next]_importVars => CountsInv'
    BY CountsInvStep
  <1>3. ImportInv /\ CountsInv => ImportsCohere
    BY CountsAreTrue
  <1>4. QED
    BY <1>1, <1>2, <1>3, ImportInvariant, PTL DEF Spec

-----------------------------------------------------------------------------
(* The items of an order of service.                                        *)

\* A list to reorder numbers no more items than there are, and as long as no
\* request was mixed with another it has exactly the items that are there.
ItemListsAreFull ==
  \A c \in Sessions : request[c].op = "reorder" =>
    /\ Len(request[c].list) <= MaxPlace
    /\ mixed \/ Item!Live = {request[c].list[n] : n \in 1..Len(request[c].list)}

ItemsInv ==
  /\ Item!ItemsCohere
  /\ request = [c \in Sessions |-> request[c]]
  /\ ItemListsAreFull

\* What a request may be.
RequestOK(r) ==
  \/ r \in {Item!Idle} \cup [op : {"create"}, place : 1..MaxPlace]
             \cup [op : {"update"}, item : Items, place : 1..MaxPlace]
             \cup [op : {"remove", "setlist"}, item : Items]
  \/ r.op = "reorder" /\ r.list \in Seq(Items) /\ r.done \in 0..Len(r.list)

LEMMA ItemsInit == Item!Init => ItemsInv
  <1> SUFFICES ASSUME Item!Init PROVE ItemsInv
    OBVIOUS
  <1>1. /\ place = [i \in Items |-> 0] /\ setlists = {} /\ mixed = FALSE
        /\ request = [c \in Sessions |-> Item!Idle] /\ \A c \in Sessions : request[c] = Item!Idle
    BY DEF Item!Init, Item!Unmade
  <1>2. place \in [Items -> 0..(MaxPlace + 1)] /\ Item!Live = {}
    BY <1>1, PlacesAssumption DEF Item!Live
  <1>3. Item!TypeOK
    BY <1>1, <1>2 DEF Item!TypeOK
  <1>4. ItemListsAreFull
    BY <1>1 DEF ItemListsAreFull, Item!Idle
  <1>5. Item!PlacesAreDistinct /\ Item!SetlistsHaveItems
    BY <1>1, <1>2 DEF Item!PlacesAreDistinct, Item!SetlistsHaveItems
  <1>6. request = [c \in Sessions |-> request[c]]
    BY <1>1
  <1>7. QED
    BY <1>3, <1>4, <1>5, <1>6 DEF ItemsInv, Item!ItemsCohere

\* Requests are opened, go on or end, and the items stay.
LEMMA ItemRequests ==
  ASSUME ItemsInv, NEW c \in Sessions, NEW r, RequestOK(r),
         request' = [request EXCEPT ![c] = r],
         UNCHANGED <<place, mixed>>,
         setlists' \subseteq Item!Live,
         r.op = "reorder" =>
           /\ Len(r.list) <= MaxPlace
           /\ mixed \/ Item!Live = {r.list[n] : n \in 1..Len(r.list)}
  PROVE  ItemsInv'
  <1>1. \A d \in Sessions : request'[d] = IF d = c THEN r ELSE request[d]
    BY DEF ItemsInv
  <1>2. Item!Live' = Item!Live /\ Item!Live \subseteq Items
    BY DEF Item!Live
  <1>3. Item!TypeOK'
    BY <1>1, <1>2 DEF ItemsInv, Item!ItemsCohere, Item!TypeOK, RequestOK
  <1>4. Item!PlacesAreDistinct' /\ Item!SetlistsHaveItems'
    BY <1>2 DEF ItemsInv, Item!ItemsCohere, Item!PlacesAreDistinct, Item!SetlistsHaveItems
  <1>5. ItemListsAreFull'
    BY <1>1, <1>2 DEF ItemsInv, ItemListsAreFull
  <1>6. QED
    BY <1>3, <1>4, <1>5 DEF ItemsInv, Item!ItemsCohere

\* The instance counts as this module does.
LEMMA ItemCounts == \A S : Item!Cardinality(S) = Cardinality(S)
  BY DEF Item!Cardinality, Cardinality

LEMMA ItemOpens ==
  ASSUME ItemsInv, NEW c \in Sessions,
         \/ \E number \in 1..MaxPlace : Item!OpenCreate(c, number)
         \/ \E i \in Items, number \in 1..MaxPlace : Item!OpenUpdate(c, i, number)
         \/ \E i \in Items : Item!OpenRemove(c, i) \/ Item!OpenSetlist(c, i)
         \/ Item!OpenReorder(c)
  PROVE  ItemsInv'
  <1>1. setlists \subseteq Item!Live
    BY DEF ItemsInv, Item!ItemsCohere, Item!SetlistsHaveItems
  <1>2. ASSUME NEW number \in 1..MaxPlace, Item!OpenCreate(c, number) PROVE ItemsInv'
    BY <1>1, <1>2, ItemRequests DEF Item!OpenCreate, Item!Open, RequestOK
  <1>3. ASSUME NEW i \in Items, NEW number \in 1..MaxPlace, Item!OpenUpdate(c, i, number) PROVE ItemsInv'
    BY <1>1, <1>3, ItemRequests DEF Item!OpenUpdate, Item!Open, RequestOK
  <1>4. ASSUME NEW i \in Items, Item!OpenRemove(c, i) \/ Item!OpenSetlist(c, i) PROVE ItemsInv'
    BY <1>1, <1>4, ItemRequests DEF Item!OpenRemove, Item!OpenSetlist, Item!Open, RequestOK
  <1>5. CASE Item!OpenReorder(c)
    <2>1. PICK list \in [1..Cardinality(Item!Live) -> Item!Live] :
            /\ \A i \in Item!Live : \E k \in DOMAIN list : list[k] = i
            /\ Item!Open(c, [op |-> "reorder", list |-> list, done |-> 0])
      <3>1. \E list \in Item!Lists : Item!Open(c, [op |-> "reorder", list |-> list, done |-> 0])
        BY <1>5 DEF Item!OpenReorder
      <3>2. \A l \in Item!Lists : /\ l \in [1..Cardinality(Item!Live) -> Item!Live]
                                  /\ \A i \in Item!Live : \E k \in DOMAIN l : l[k] = i
        BY ItemCounts DEF Item!Lists
      <3>3. QED
        BY <3>1, <3>2
    <2> DEFINE r == [op |-> "reorder", list |-> list, done |-> 0]
               n == Cardinality(Item!Live)
    <2>2. n \in Nat /\ n <= MaxPlace /\ Item!Live \subseteq Items
      <3>1. Item!Live \subseteq Items
        BY DEF Item!Live
      <3>2. n <= Cardinality(Items) /\ n \in Nat /\ Cardinality(Items) \in Nat
        BY <3>1, PlacesAssumption, FS_Subset, FS_CardinalityType
      <3>3. QED
        BY <3>1, <3>2, PlacesAssumption
    <2>3. list \in [1..n -> Item!Live] /\ \A i \in Item!Live : \E k \in DOMAIN list : list[k] = i
      BY <2>1
    <2> HIDE DEF n
    <2>4. list \in Seq(Items) /\ Len(list) = n
      BY <2>2, <2>3
    <2>5. Item!Live = {list[k] : k \in 1..Len(list)}
      BY <2>2, <2>3, <2>4
    <2>6. RequestOK(r) /\ r.list = list /\ r.op = "reorder"
      BY <2>4 DEF RequestOK
    <2>7. request' = [request EXCEPT ![c] = r] /\ UNCHANGED <<place, setlists, mixed>>
      BY <2>1 DEF Item!Open
    <2> HIDE DEF r
    <2>8. Len(r.list) <= MaxPlace /\ Item!Live = {r.list[k] : k \in 1..Len(r.list)}
      BY <2>2, <2>4, <2>5, <2>6
    <2>9. QED
      BY <1>1, <2>6, <2>7, <2>8, ItemRequests
  <1>6. QED
    BY <1>2, <1>3, <1>4, <1>5

\* create, update and remove commit: alone and with a fresh number, or mixed.
LEMMA ItemCommits ==
  ASSUME ItemsInv, NEW c \in Sessions, NEW i \in Items, NEW number \in 1..(MaxPlace + 1), NEW clash \in BOOLEAN,
         Item!Commit(c, i, number, clash),
         ~clash => number = Item!Gone \/ ~Item!Taken(number),
         setlists' = IF number = Item!Gone THEN setlists \ {i} ELSE setlists
  PROVE  ItemsInv'
  <1>1. /\ place' = [place EXCEPT ![i] = number]
        /\ request' = [request EXCEPT ![c] = Item!Idle]
        /\ mixed' = (mixed \/ clash \/ ~Item!Alone(c))
    BY DEF Item!Commit
  <1>2. \A d \in Sessions : request'[d] = IF d = c THEN Item!Idle ELSE request[d]
    BY <1>1 DEF ItemsInv
  <1>3. place' \in [Items -> 0..(MaxPlace + 1)] /\ \A j \in Items : place'[j] = IF j = i THEN number ELSE place[j]
    BY <1>1, PlacesAssumption DEF ItemsInv, Item!ItemsCohere, Item!TypeOK
  <1>4. Item!TypeOK'
    BY <1>1, <1>2, <1>3 DEF ItemsInv, Item!ItemsCohere, Item!TypeOK
  <1>5. Item!SetlistsHaveItems'
    BY <1>3, PlacesAssumption DEF ItemsInv, Item!ItemsCohere, Item!TypeOK, Item!SetlistsHaveItems, Item!Live,
       Item!Gone
  <1>6. Item!PlacesAreDistinct'
    <2> SUFFICES ASSUME ~mixed', NEW j \in Item!Live', NEW k \in Item!Live', place'[j] = place'[k]
        PROVE  j = k
      BY DEF Item!PlacesAreDistinct
    <2>1. ~mixed /\ ~clash
      BY <1>1
    <2>2. number # Item!Gone \/ (j # i /\ k # i)
      BY <1>3, PlacesAssumption DEF Item!Live, Item!Gone
    <2>3. \A l \in Items \ {i} : l \in Item!Live' => l \in Item!Live /\ place'[l] = place[l]
      BY <1>3 DEF Item!Live
    <2>4. j \in Items /\ k \in Items
      BY DEF Item!Live
    <2>5. CASE j # i /\ k # i
      BY <2>1, <2>3, <2>4, <2>5 DEF ItemsInv, Item!ItemsCohere, Item!PlacesAreDistinct
    <2>6. CASE j = i \/ k = i
      BY <1>3, <2>1, <2>2, <2>3, <2>4, <2>6 DEF Item!Taken
    <2>7. QED
      BY <2>5, <2>6
  <1>7. ItemListsAreFull'
    <2> SUFFICES ASSUME NEW d \in Sessions, request'[d].op = "reorder"
        PROVE  /\ Len(request'[d].list) <= MaxPlace
               /\ mixed' \/ Item!Live' = {request'[d].list[n] : n \in 1..Len(request'[d].list)}
      BY DEF ItemListsAreFull
    <2>1. d # c /\ request'[d] = request[d]
      BY <1>2 DEF Item!Idle
    <2>2. mixed'
      <3>1. request[d] # Item!Idle
        BY <2>1 DEF Item!Idle
      <3>2. ~Item!Alone(c)
        BY <2>1, <3>1 DEF Item!Alone
      <3>3. QED
        BY <1>1, <3>2
    <2>3. QED
      BY <2>1, <2>2 DEF ItemsInv, ItemListsAreFull
  <1>8. QED
    BY <1>1, <1>4, <1>5, <1>6, <1>7 DEF ItemsInv, Item!ItemsCohere


\* A reorder of exactly the items that are there gives them new numbers.
LEMMA ItemReorders ==
  ASSUME ItemsInv, NEW c \in Sessions, Item!CommitReorder(c)
  PROVE  ItemsInv'
  <1> DEFINE list == request[c].list
             held == {list[n] : n \in 1..Len(list)}
             at(i) == CHOOSE n \in DOMAIN list : list[n] = i
  <1>1. /\ request[c].op = "reorder" /\ request[c].done \in 0..Len(list) /\ list \in Seq(Items)
        /\ Len(list) \in Nat /\ Len(list) <= MaxPlace /\ DOMAIN list = 1..Len(list)
        /\ ~(request[c].done < Len(list))
        /\ request' = [request EXCEPT ![c] = Item!Idle] /\ UNCHANGED <<setlists, mixed>>
    <2>1. request[c].op = "reorder"
      BY DEF Item!CommitReorder
    <2>2. request[c].list \in Seq(Items) /\ request[c].done \in 0..Len(request[c].list)
      BY <2>1 DEF ItemsInv, Item!ItemsCohere, Item!TypeOK, Item!Idle
    <2>3. QED
      BY <2>1, <2>2 DEF Item!CommitReorder, Item!Reordering, ItemsInv, ItemListsAreFull
  <1>2. request[c].done = Len(list)
    BY <1>1
  <1>3. Item!Held(c) = held
    BY <1>1, <1>2 DEF Item!Held
  <1>4. place' = [i \in Items |-> IF i \in held THEN at(i) ELSE place[i]]
    BY <1>3 DEF Item!CommitReorder
  <1>5. \A i \in held : at(i) \in 1..Len(list) /\ list[at(i)] = i /\ i \in Items
    BY SMTT(20), <1>1
  <1> HIDE DEF at, held
  <1>6. place \in [Items -> 0..(MaxPlace + 1)]
    BY DEF ItemsInv, Item!ItemsCohere, Item!TypeOK
  <1>7. place' \in [Items -> 0..(MaxPlace + 1)]
        /\ \A i \in Items : place'[i] = IF i \in held THEN at(i) ELSE place[i]
    BY <1>1, <1>4, <1>5, <1>6, PlacesAssumption
  <1>8. \A i \in held : i \in Items /\ at(i) \in 1..MaxPlace
    BY <1>1, <1>5, PlacesAssumption
  <1>9. Item!Live' = Item!Live \cup held
    BY <1>7, <1>8 DEF Item!Live
  <1>10. \A d \in Sessions : request'[d] = IF d = c THEN Item!Idle ELSE request[d]
    BY <1>1 DEF ItemsInv
  <1>11. Item!TypeOK'
    BY <1>1, <1>7, <1>10 DEF ItemsInv, Item!ItemsCohere, Item!TypeOK
  <1>12. Item!SetlistsHaveItems'
    BY <1>1, <1>9 DEF ItemsInv, Item!ItemsCohere, Item!SetlistsHaveItems
  <1>13. mixed \/ Item!Live = held
    BY <1>1 DEF ItemsInv, ItemListsAreFull, held
  <1>14. Item!PlacesAreDistinct'
    <2> SUFFICES ASSUME ~mixed', NEW i \in Item!Live', NEW j \in Item!Live', place'[i] = place'[j]
        PROVE  i = j
      BY DEF Item!PlacesAreDistinct
    <2>1. i \in held /\ j \in held
      BY <1>1, <1>9, <1>13
    <2>2. at(i) = at(j)
      BY <1>5, <1>7, <2>1
    <2>3. QED
      BY <1>5, <2>1, <2>2
  <1>15. ItemListsAreFull'
    <2> SUFFICES ASSUME NEW d \in Sessions, request'[d].op = "reorder"
        PROVE  /\ Len(request'[d].list) <= MaxPlace
               /\ mixed' \/ Item!Live' = {request'[d].list[n] : n \in 1..Len(request'[d].list)}
      BY DEF ItemListsAreFull
    <2>1. request'[d] = request[d] /\ request[d].op = "reorder"
      BY <1>10 DEF Item!Idle
    <2>2. mixed' \/ Item!Live' = Item!Live
      BY <1>1, <1>9, <1>13
    <2>3. /\ Len(request[d].list) <= MaxPlace
          /\ mixed \/ Item!Live = {request[d].list[n] : n \in 1..Len(request[d].list)}
      BY <2>1 DEF ItemsInv, ItemListsAreFull
    <2>4. mixed' = mixed
      BY <1>1
    <2>5. QED
      BY <2>1, <2>2, <2>3, <2>4
  <1>16. QED
    BY <1>1, <1>11, <1>12, <1>14, <1>15 DEF ItemsInv, Item!ItemsCohere

LEMMA ItemWorks ==
  ASSUME ItemsInv, NEW c \in Sessions, Item!Work(c) \/ Item!Rollback(c)
  PROVE  ItemsInv'
  <1>1. Item!TypeOK /\ setlists \subseteq Item!Live /\ Item!Live \subseteq Items
    BY DEF ItemsInv, Item!ItemsCohere, Item!SetlistsHaveItems, Item!Live
  <1>2. RequestOK(request[c])
    BY <1>1 DEF Item!TypeOK, RequestOK
  <1>3. \A number : Item!Taken(number) \in BOOLEAN
    BY DEF Item!Taken
  <1>4. 1..MaxPlace \subseteq 1..(MaxPlace + 1) /\ Item!Gone \in 1..(MaxPlace + 1)
        /\ \A n \in 1..MaxPlace : n # Item!Gone
    BY PlacesAssumption DEF Item!Gone
  <1>5. ASSUME NEW i \in Items, Item!CommitCreate(c, i) PROVE ItemsInv'
    <2>1. request[c].op = "create"
      BY <1>5 DEF Item!CommitCreate
    <2>2. request[c].place \in 1..MaxPlace
      BY <1>2, <2>1 DEF RequestOK, Item!Idle
    <2>3. QED
      BY <1>3, <1>4, <1>5, <2>2, ItemCommits DEF Item!CommitCreate
  <1>6. CASE Item!CommitUpdate(c)
    <2>1. request[c].op = "update" /\ request[c].item \in Items
      BY <1>1, <1>6 DEF Item!CommitUpdate
    <2>2. request[c].place \in 1..MaxPlace
      BY <1>2, <2>1 DEF RequestOK, Item!Idle
    <2>3. QED
      BY <1>3, <1>4, <1>6, <2>1, <2>2, ItemCommits DEF Item!CommitUpdate
  <1>7. CASE Item!CommitRemove(c)
    <2>1. request[c].item \in Items
      BY <1>1, <1>7 DEF Item!CommitRemove
    <2>2. QED
      BY <1>4, <1>7, <2>1, ItemCommits DEF Item!CommitRemove
  <1>8. CASE Item!WriteNext(c)
    <2> DEFINE r == [request[c] EXCEPT !.done = @ + 1]
               old == request[c]
    <2>1. old.op = "reorder" /\ old.done < Len(old.list) /\ request' = [request EXCEPT ![c] = r]
          /\ UNCHANGED <<place, setlists, mixed>>
      BY <1>8 DEF Item!WriteNext, Item!Reordering
    <2>2. old.list \in Seq(Items) /\ old.done \in 0..Len(old.list) /\ Len(old.list) \in Nat
      BY <1>2, <2>1 DEF RequestOK, Item!Idle
    <2>3. r.op = "reorder" /\ r.list = old.list /\ r.done \in 0..Len(old.list)
      BY <2>1, <2>2
    <2>4. RequestOK(r)
      BY <2>2, <2>3 DEF RequestOK
    <2>5. Len(r.list) <= MaxPlace /\ (mixed \/ Item!Live = {r.list[n] : n \in 1..Len(r.list)})
      BY <2>1, <2>3 DEF ItemsInv, ItemListsAreFull
    <2> HIDE DEF r
    <2>6. QED
      BY <1>1, <2>1, <2>4, <2>5, ItemRequests
  <1>9. CASE Item!CommitReorder(c)
    BY <1>9, ItemReorders
  <1>10. CASE Item!CommitSetlist(c) \/ Item!Rollback(c)
    <2>1. RequestOK(Item!Idle) /\ Item!Idle.op # "reorder"
      BY DEF RequestOK, Item!Idle
    <2>2. /\ request' = [request EXCEPT ![c] = Item!Idle] /\ UNCHANGED <<place, mixed>>
          /\ setlists' \subseteq Item!Live
      BY <1>1, <1>10 DEF Item!CommitSetlist, Item!Rollback
    <2>3. QED
      BY <2>1, <2>2, ItemRequests
  <1>11. QED
    BY <1>5, <1>6, <1>7, <1>8, <1>9, <1>10 DEF Item!Work, Item!BreakCircle

LEMMA ItemsStep ==
  ASSUME ItemsInv, [Item!Next]_(Item!itemVars)
  PROVE  ItemsInv'
  <1>1. CASE UNCHANGED Item!itemVars
    BY <1>1 DEF Item!itemVars, ItemsInv, Item!ItemsCohere, Item!TypeOK, Item!PlacesAreDistinct,
       Item!SetlistsHaveItems, Item!Live, ItemListsAreFull
  <1>2. ASSUME NEW c \in Sessions,
               \/ \E number \in 1..MaxPlace : Item!OpenCreate(c, number)
               \/ \E i \in Items, number \in 1..MaxPlace : Item!OpenUpdate(c, i, number)
               \/ \E i \in Items : Item!OpenRemove(c, i) \/ Item!OpenSetlist(c, i)
               \/ Item!OpenReorder(c)
        PROVE  ItemsInv'
    BY <1>2, ItemOpens
  <1>3. ASSUME NEW c \in Sessions, Item!Work(c) \/ Item!Rollback(c) PROVE ItemsInv'
    BY <1>3, ItemWorks
  <1>4. ASSUME NEW i \in Items, Item!RemoveSetlist(i) PROVE ItemsInv'
    BY <1>4 DEF Item!RemoveSetlist, ItemsInv, Item!ItemsCohere, Item!TypeOK, Item!PlacesAreDistinct,
       Item!SetlistsHaveItems, Item!Live, ItemListsAreFull
  <1>5. QED
    BY <1>1, <1>2, <1>3, <1>4 DEF Item!Next

\* The numbers of the items tell their places apart unless a request other
\* than reorder wrote while another was open or gave a number that was taken:
\* reorders at once leave the list of one of them (service-order-items
\* .service.ts), and a setlist is of an item that is there.
THEOREM ItemsStayCoherent == AllSpec => []ItemsCohere
  <1>1. AllInit => ItemsInv
    BY ItemsInit DEF AllInit
  <1>2. ItemsInv /\ [ImportStep \/ ItemStep]_allVars => ItemsInv'
    <2>1. [ImportStep \/ ItemStep]_allVars => [Item!Next]_(Item!itemVars)
      BY DEF ImportStep, ItemStep, allVars, itemPart, Item!itemVars
    <2>2. QED
      BY <2>1, ItemsStep
  <1>3. ItemsInv => ItemsCohere
    BY DEF ItemsInv, ItemsCohere
  <1>4. AllSpec => AllInit /\ [][ImportStep \/ ItemStep]_allVars
    BY PTL DEF AllSpec
  <1>5. QED
    BY <1>1, <1>2, <1>3, <1>4, PTL

===============================================================================
