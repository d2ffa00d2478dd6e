----------------------------- MODULE PersonImport -----------------------------
(***************************************************************************)
(* The import of persons from a spreadsheet (persons/import): a short file *)
(* is imported inside the transaction of the request, a long one by a      *)
(* worker of the server process, row by row and without a transaction.     *)
(*                                                                         *)
(* A row of a file is a record: whether it has a name and an e-mail, its   *)
(* phone once it is normalised (or NoPhone), and whether a person can be   *)
(* made of it: "good", "invalid" (Prisma refuses it before the database    *)
(* sees it, a date that is none), or "refused" (the database refuses it,   *)
(* a character it cannot store).  What else a person has is left out.      *)
(***************************************************************************)
EXTENDS Naturals, Sequences, FiniteSets

CONSTANTS
  Imports,    \* ids of imports: each confirmed upload is one
  Phones,     \* phone numbers
  NoPhone,    \* that of a row without one
  Files,      \* the spreadsheets, sequences of rows
  SyncLimit,  \* SYNC_ROW_LIMIT
  MaxFaults   \* bound on failed statements and crashes

ASSUME NoPhoneAssumption == NoPhone \notin Phones
ASSUME FilesAssumption ==
  Files \subseteq Seq([named : BOOLEAN, mail : BOOLEAN, phone : Phones \cup {NoPhone},
                       entry : {"good", "invalid", "refused"}])
ASSUME LimitsAssumption == SyncLimit \in Nat /\ MaxFaults \in Nat

VARIABLES
  import,   \* [Imports -> how far the import is, and its counters]
  made,     \* [Imports -> [row -> what the database has of it]]
  job,      \* [Imports -> status of the committed import_jobs row]
  taken,    \* phones of the persons that were registered otherwise
  faults,   \* faults so far
  overlap   \* history: pairs of imports that ran at the same time

importVars == <<import, made, job, taken, faults, overlap>>

Idle == [step |-> "idle"]

Running == {"accepted", "queued", "check", "insert", "consent", "fail"}

\* Imports, what they made and their jobs are well formed.
TypeOK ==
  /\ import \in [Imports -> {Idle} \cup
       [step : Running \cup {"done", "stopped"}, file : Files, at : Nat \ {0},
        imported : Nat, skipped : Nat, failed : Nat, broken : BOOLEAN]]
  /\ \A i \in Imports : import[i] # Idle =>
       made[i] \in [DOMAIN import[i].file -> {"none", "person", "consented"}]
  /\ job \in [Imports -> {"none", "pending", "processing", "done", "error"}]
  /\ taken \subseteq Phones
  /\ faults \in 0..MaxFaults
  /\ overlap \subseteq Imports \X Imports

Init ==
  /\ import = [i \in Imports |-> Idle]
  /\ made = [i \in Imports |-> <<>>]
  /\ job = [i \in Imports |-> "none"]
  /\ taken = {}
  /\ faults = 0
  /\ overlap = {}

Step(i, step)   == import[i].step = step
Active(i)       == import[i].step \in Running
Nothing(file)   == [k \in DOMAIN file |-> "none"]
IsShort(i)      == Len(import[i].file) <= SyncLimit
Row(i)          == import[i].file[import[i].at]

\* What import i sees of import j: its own rows, those of a worker, and those
\* of a request that has committed.
Sees(i, j) == i = j \/ ~IsShort(j) \/ Step(j, "done")

Known(i, phone) ==
  \/ phone \in taken
  \/ \E j \in Imports : /\ import[j] # Idle /\ Sees(i, j)
                        /\ \E k \in DOMAIN made[j] :
                             made[j][k] # "none" /\ import[j].file[k].phone = phone

-----------------------------------------------------------------------------
(* confirm.  The upload stays in storage, so a file can be confirmed again. *)

Confirm(i, file) ==
  /\ import[i] = Idle
  /\ import' = [import EXCEPT ![i] =
       [step |-> IF Len(file) <= SyncLimit THEN "check" ELSE "accepted", file |-> file, at |-> 1,
        imported |-> 0, skipped |-> 0, failed |-> 0, broken |-> FALSE]]
  /\ made' = [made EXCEPT ![i] = Nothing(file)]
  /\ overlap' = overlap \cup UNION {{<<i, j>>, <<j, i>>} : j \in {o \in Imports : Active(o)}}
  /\ UNCHANGED <<job, taken, faults>>

Goto(i, step) ==
  /\ import' = [import EXCEPT ![i].step = step]
  /\ UNCHANGED <<taken, overlap>>

\* The request inserts the job and schedules the worker: the worker may
\* start before the request has committed.
CommitJob(i) ==
  /\ Step(i, "accepted")
  /\ job' = [job EXCEPT ![i] = "pending"]
  /\ Goto(i, "queued")
  /\ UNCHANGED <<made, faults>>

StartTooEarly(i) ==
  /\ Step(i, "accepted")
  /\ \E status \in {"none", "pending"} : job' = [job EXCEPT ![i] = status]
  /\ Goto(i, "stopped")
  /\ UNCHANGED <<made, faults>>

MarkProcessing(i) ==
  /\ Step(i, "queued")
  /\ job' = [job EXCEPT ![i] = "processing"]
  /\ Goto(i, "check")
  /\ UNCHANGED <<made, faults>>

-----------------------------------------------------------------------------
(* processRows, one row after the other.                                    *)

Count(i, counter) ==
  import' = [import EXCEPT ![i] =
    [import[i] EXCEPT !.at = @ + 1, !.step = "check", ![counter] = @ + 1]]

Checking(i) ==
  /\ Step(i, "check") /\ import[i].at <= Len(import[i].file)
  /\ UNCHANGED <<made, job, taken, faults, overlap>>

\* No name, or no way to reach the person.
SkipIncomplete(i) ==
  /\ Checking(i)
  /\ ~Row(i).named \/ (Row(i).phone = NoPhone /\ ~Row(i).mail)
  /\ Count(i, "failed")

SkipKnown(i) ==
  /\ Checking(i)
  /\ Row(i).named /\ Row(i).phone # NoPhone /\ ~import[i].broken
  /\ Known(i, Row(i).phone)
  /\ Count(i, "skipped")

\* Mutant: the look for the phone does not see the other imports.
TakeOwnUnknown(i) ==
  /\ Checking(i)
  /\ Row(i).named
  /\ IF Row(i).phone = NoPhone THEN Row(i).mail
     ELSE /\ ~import[i].broken /\ Row(i).phone \notin taken
          /\ \A k \in DOMAIN made[i] : made[i][k] # "none" => import[i].file[k].phone # Row(i).phone
  /\ import' = [import EXCEPT ![i].step = "insert"]

Take(i) ==
  /\ Checking(i)
  /\ Row(i).named
  /\ IF Row(i).phone = NoPhone THEN Row(i).mail
                               ELSE ~import[i].broken /\ ~Known(i, Row(i).phone)
  /\ import' = [import EXCEPT ![i].step = "insert"]

\* Mutant: the row is counted when the person is there.
InsertAndCount(i) ==
  /\ Step(i, "insert") /\ Row(i).entry = "good" /\ ~import[i].broken
  /\ made' = [made EXCEPT ![i][import[i].at] = "person"]
  /\ import' = [import EXCEPT ![i] = [@ EXCEPT !.step = "consent", !.imported = @ + 1]]
  /\ UNCHANGED <<job, taken, faults, overlap>>

Insert(i) ==
  /\ Step(i, "insert") /\ Row(i).entry = "good" /\ ~import[i].broken
  /\ made' = [made EXCEPT ![i][import[i].at] = "person"]
  /\ Goto(i, "consent")
  /\ UNCHANGED <<job, faults>>

Consent(i) ==
  /\ Step(i, "consent")
  /\ made' = [made EXCEPT ![i][import[i].at] = "consented"]
  /\ Count(i, "imported")
  /\ UNCHANGED <<job, taken, faults, overlap>>

\* The row is reported and the loop goes on.  After a statement that the
\* database refused, the transaction of the request takes no other one.
Report(i, reachedDatabase) ==
  /\ import' = [import EXCEPT ![i] =
       [import[i] EXCEPT !.at = @ + 1, !.step = "check", !.failed = @ + 1,
                         !.broken = @ \/ (reachedDatabase /\ IsShort(i))]]
  /\ UNCHANGED <<made, job, taken, overlap>>

InsertRefused(i) ==
  /\ Step(i, "insert") /\ (Row(i).entry # "good" \/ import[i].broken)
  /\ Report(i, Row(i).entry # "invalid")
  /\ UNCHANGED faults

\* The connection fails for a moment.
InsertFails(i) ==
  /\ import[i].step \in {"insert", "consent"} /\ faults < MaxFaults
  /\ Report(i, TRUE)
  /\ faults' = faults + 1

\* An error outside the try of the row: of a request it is the answer, and
\* everything is rolled back; of a worker it ends the job.
Throw(i) ==
  /\ made' = [made EXCEPT ![i] = IF IsShort(i) THEN Nothing(import[i].file) ELSE @]
  /\ Goto(i, IF IsShort(i) THEN "stopped" ELSE "fail")
  /\ UNCHANGED job

\* The look for the phone in a transaction that takes no statement any more.
CheckRefused(i) ==
  /\ Step(i, "check") /\ import[i].at <= Len(import[i].file)
  /\ import[i].broken /\ Row(i).named /\ Row(i).phone # NoPhone
  /\ Throw(i)
  /\ UNCHANGED faults

CheckFails(i) ==
  /\ Step(i, "check") /\ faults < MaxFaults
  /\ Throw(i)
  /\ faults' = faults + 1

-----------------------------------------------------------------------------
(* The end.                                                                 *)

AllRows(i) == Step(i, "check") /\ import[i].at > Len(import[i].file)

\* The answer is the counters.  The commit of a transaction that takes no
\* statement any more is a rollback, which nobody is told of.
AnswerShort(i) ==
  /\ AllRows(i) /\ IsShort(i)
  /\ made' = [made EXCEPT ![i] = IF import[i].broken THEN Nothing(import[i].file) ELSE @]
  /\ Goto(i, "done")
  /\ UNCHANGED <<job, faults>>

\* Mutant: done is written before the worker has gone through the file.
MarkDoneFirst(i) ==
  /\ Step(i, "check") /\ ~IsShort(i)
  /\ job' = [job EXCEPT ![i] = "done"]
  /\ Goto(i, "done")
  /\ UNCHANGED <<made, faults>>

MarkDone(i) ==
  /\ AllRows(i) /\ ~IsShort(i)
  /\ job' = [job EXCEPT ![i] = "done"]
  /\ Goto(i, "done")
  /\ UNCHANGED <<made, faults>>

MarkError(i) ==
  /\ Step(i, "fail")
  /\ job' = [job EXCEPT ![i] = "error"]
  /\ Goto(i, "stopped")
  /\ UNCHANGED <<made, faults>>

\* The process dies: requests roll back, and no worker is resumed.
Crash ==
  /\ faults < MaxFaults
  /\ \E i \in Imports : Active(i)
  /\ faults' = faults + 1
  /\ made' = [i \in Imports |-> IF Active(i) /\ IsShort(i) THEN Nothing(import[i].file) ELSE made[i]]
  /\ import' = [i \in Imports |-> IF Active(i) THEN [import[i] EXCEPT !.step = "stopped"]
                                               ELSE import[i]]
  /\ UNCHANGED <<job, taken, overlap>>

\* Somebody registers a person (persons.service.ts, visitor.service.ts).
RegisterElsewhere(phone) ==
  /\ phone \notin taken
  /\ taken' = taken \cup {phone}
  /\ UNCHANGED <<import, made, job, faults, overlap>>

-----------------------------------------------------------------------------
Work(i) ==
  \/ CommitJob(i)
  \/ StartTooEarly(i)
  \/ MarkProcessing(i)
  \/ SkipIncomplete(i)
  \/ SkipKnown(i)
  \/ Take(i)
  \/ Insert(i)
  \/ Consent(i)
  \/ InsertRefused(i)
  \/ CheckRefused(i)
  \/ AnswerShort(i)
  \/ MarkDone(i)
  \/ MarkError(i)

Next ==
  \/ \E i \in Imports, file \in Files : Confirm(i, file)
  \/ \E i \in Imports : Work(i) \/ InsertFails(i) \/ CheckFails(i)
  \/ Crash
  \/ \E phone \in Phones : RegisterElsewhere(phone)

Spec == Init /\ [][Next]_importVars

-----------------------------------------------------------------------------
Consented(i) == {k \in DOMAIN made[i] : made[i][k] = "consented"}

\* An import that ends has counted each row of its file once, and the persons
\* it says it imported are stored with their consent -- except that a short
\* import answers the same when the database has refused one of its rows and
\* nothing of it was kept.
ReportIsTrue ==
  \A i \in Imports : Step(i, "done") =>
    /\ import[i].imported + import[i].skipped + import[i].failed = Len(import[i].file)
    /\ Cardinality(Consented(i)) = IF import[i].broken THEN 0 ELSE import[i].imported

\* Two persons with one phone come from imports that ran at the same time:
\* one import, or one after the other, also after a crash, makes a person once.
DuplicateOnlyByOverlap ==
  \A i, j \in Imports : \A k \in DOMAIN made[i], l \in DOMAIN made[j] :
    (/\ <<i, k>> # <<j, l>>
     /\ made[i][k] # "none" /\ made[j][l] # "none"
     /\ import[i].file[k].phone # NoPhone
     /\ import[i].file[k].phone = import[j].file[l].phone) => <<i, j>> \in overlap

\* Each failure or crash leaves at most one person of an import without a
\* consent record.
ConsentUnlessFailed ==
  \A i \in Imports :
    Cardinality({k \in DOMAIN made[i] : made[i][k] = "person" /\ ~Step(i, "consent")}) <= faults

\* A long import is a background job as those of the exports are: its result
\* is there when the worker has gone through the file.
Job == INSTANCE ExportJob WITH
         Jobs <- Imports, status <- job,
         artefact <- {i \in Imports : import[i] # Idle /\ ~IsShort(i) /\
                                      import[i].at > Len(import[i].file)}
Implements == Job!Spec

\* What PersonImport checks of its states, but for the duplicates.
ImportsCohere == TypeOK /\ ReportIsTrue /\ ConsentUnlessFailed
===============================================================================
