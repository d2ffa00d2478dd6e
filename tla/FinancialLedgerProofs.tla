------------------------ MODULE FinancialLedgerProofs ------------------------
(***************************************************************************)
(* Theorems about FinancialLedger for any sets of rows, requests, filters  *)
(* and faults.                                                             *)
(***************************************************************************)
EXTENDS FinancialLedger, TLAPS

\* The export fetches only rows that exist, and pairs them with a version.
LEMMA FetchedType ==
  ASSUME TypeOK, NEW kind, NEW s \in SUBSET Txs
  PROVE  /\ Fetched(kind, s) \in SUBSET (Txs \X Nat)
         /\ \A t \in RowsOf(Fetched(kind, s)) : t \in Txs /\ Exists(t)
  <1> DEFINE hits == {u \in s : IF kind = "reportJob" THEN Exists(u) ELSE row[u].status = "paid"}
  <1>1. \A t \in hits : t \in Txs /\ Exists(t) /\ row[t].version \in Nat
    BY DEF TypeOK, Exists
  <1>2. \A e \in Fetched(kind, s) : \E t \in hits : e = <<t, row[t].version>>
    BY DEF Fetched
  <1>3. QED
    BY <1>1, <1>2 DEF RowsOf

\* Rows named by a snapshot are rows of the ledger.
LEMMA SnapRows ==
  ASSUME TypeOK, NEW r \in Reqs
  PROVE  RowsOf(snap[r]) \subseteq Txs
  BY DEF TypeOK, RowsOf

\* What closing the rows of export r does to each row and to the history.
LEMMA CloseEffect ==
  ASSUME TypeOK, NEW r \in Reqs, Close(r)
  PROVE  /\ row' \in [Txs -> [status : RowStatuses, version : Nat]]
         /\ closedBy' \subseteq Reqs \X Txs
         /\ closedBy \subseteq closedBy'
         /\ \A t \in Txs :
              IF t \in RowsOf(snap[r]) /\ Exists(t)
                THEN row'[t].status = "confirmed" /\ <<r, t>> \in closedBy'
                ELSE row'[t] = row[t]
  <1>1. PICK hit \in SUBSET Txs :
          /\ hit = {t \in RowsOf(snap[r]) : Exists(t)}
          /\ row' = [t \in Txs |-> IF t \in hit THEN [row[t] EXCEPT !.status = "confirmed"]
                                                ELSE row[t]]
          /\ closedBy' = closedBy \cup ({r} \X hit)
    BY SnapRows DEF Close
  <1>2. \A t \in Txs : [row[t] EXCEPT !.status = "confirmed"] \in [status : RowStatuses, version : Nat]
    BY DEF TypeOK, RowStatuses
  <1>3. QED
    BY <1>1, <1>2 DEF TypeOK, RowStatuses

-----------------------------------------------------------------------------
LEMMA InitType == Init => TypeOK
  BY DEF Init, TypeOK, RowStatuses, Ops, Steps

LEMMA RequestType ==
  ASSUME TypeOK, NEW r \in Reqs, Request(r)
  PROVE  TypeOK'
  <1> USE DEF TypeOK, Become, Leave
  <1>1. ASSUME NEW t \in Txs, Create(r, t) PROVE TypeOK'
    BY <1>1 DEF Create, RowStatuses, Ops
  <1>2. ASSUME NEW t \in Txs, NEW kind \in EditOps, OpenEdit(r, t, kind) PROVE TypeOK'
    BY <1>2 DEF OpenEdit, Ops
  <1>3. ASSUME NEW t \in Txs, CommitUpdate(r, t) PROVE TypeOK'
    BY <1>3 DEF CommitUpdate
  <1>4. ASSUME NEW t \in Txs, NEW to \in {"pending", "paid"}, CommitStatus(r, t, to) PROVE TypeOK'
    BY <1>4 DEF CommitStatus, SetStatus, RowStatuses
  <1>5. ASSUME NEW t \in Txs, CommitRemove(r, t) PROVE TypeOK'
    BY <1>5 DEF CommitRemove, SetStatus, RowStatuses
  <1>6. CASE EditGone(r)
    BY <1>6 DEF EditGone
  <1>7. ASSUME NEW s \in Scopes, OpenFile(r, s) PROVE TypeOK'
    <2>1. s \in SUBSET Txs
      BY <1>7, ScopesAssumption
    <2>2. Fetched("accountingFile", s) \in SUBSET (Txs \X Nat)
      BY <2>1, FetchedType
    <2>3. QED
      BY <1>7, <2>1, <2>2 DEF OpenFile, Ops
  <1>8. CASE CommitFile(r)
    <2>1. Close(r)
      BY <1>8 DEF CommitFile
    <2>2. QED
      BY <1>8, <2>1, CloseEffect DEF CommitFile
  <1>9. ASSUME NEW s \in Scopes, NEW kind \in JobOps, OpenJob(r, kind, s) PROVE TypeOK'
    BY <1>9, ScopesAssumption DEF OpenJob, Ops, Steps
  <1>10. CASE CommitJob(r)
    BY <1>10 DEF CommitJob
  <1>11. CASE Abort(r)
    BY <1>11 DEF Abort
  <1>12. QED
    BY <1>1, <1>2, <1>3, <1>4, <1>5, <1>6, <1>7, <1>8, <1>9, <1>10, <1>11 DEF Request

LEMMA WorkType ==
  ASSUME TypeOK, NEW r \in Reqs, Work(r)
  PROVE  TypeOK'
  <1> USE DEF TypeOK, Goto, Steps
  <1>1. CASE MarkProcessing(r)
    BY <1>1 DEF MarkProcessing
  <1>2. CASE MarkProcessingFails(r)
    BY <1>2 DEF MarkProcessingFails
  <1>3. CASE Fetch(r)
    <2>1. Fetched(op[r], scope[r]) \in SUBSET (Txs \X Nat)
      BY FetchedType
    <2>2. QED
      BY <1>3, <2>1 DEF Fetch
  <1>4. CASE Upload(r)
    BY <1>4 DEF Upload
  <1>5. CASE Confirm(r)
    <2>1. Close(r)
      BY <1>5 DEF Confirm
    <2>2. QED
      BY <1>5, <2>1, CloseEffect DEF Confirm
  <1>6. CASE MarkDone(r)
    BY <1>6 DEF MarkDone
  <1>7. CASE StepFails(r)
    BY <1>7 DEF StepFails
  <1>8. CASE MarkError(r)
    BY <1>8 DEF MarkError
  <1>9. CASE MarkErrorFails(r)
    BY <1>9 DEF MarkErrorFails
  <1>10. QED
    BY <1>1, <1>2, <1>3, <1>4, <1>5, <1>6, <1>7, <1>8, <1>9 DEF Work

LEMMA CrashType == TypeOK /\ Crash => TypeOK'
  BY DEF TypeOK, Crash, Steps

\* Every variable keeps its type, whatever is in flight when the process dies.
THEOREM Typing == Spec => []TypeOK
  <1>1. TypeOK /\ [Next]_vars => TypeOK'
    <2>1. CASE UNCHANGED vars
      BY <2>1 DEF vars, TypeOK
    <2>2. QED
      BY <2>1, RequestType, WorkType, CrashType DEF Next
  <1>2. QED
    BY <1>1, InitType, PTL DEF Spec

-----------------------------------------------------------------------------
(* The inductive invariant behind the safety theorems: where the worker, the *)
(* job row and the file of each request stand relative to each other.        *)

\* Nothing of a request exists before it arrives.
IdleIsClean(r) ==
  pc[r] = "idle" => worker[r] = "off" /\ job[r] = "none" /\ r \notin stored

\* Only a request that enqueued a job has a worker; it commits the row once.
JobsComeFromJobOps(r) ==
  /\ worker[r] # "off" \/ job[r] # "none" => op[r] \in JobOps
  /\ pc[r] = "open" => job[r] = "none"
  /\ pc[r] = "open" /\ op[r] \in JobOps => worker[r] # "off"

\* The worker's next step tells the job's status and whether the file exists.
WorkerKnowsJob(r) ==
  /\ worker[r] = "off" => job[r] = "none"
  /\ worker[r] = "queued" => job[r] \in {"none", "pending"} /\ r \notin stored
  /\ worker[r] \in {"fetch", "upload", "confirm", "finish"} => job[r] = "processing"
  /\ worker[r] = "fetch" => r \notin stored
  /\ worker[r] = "confirm" => r \in stored /\ Accounting(r)
  /\ worker[r] = "finish" => r \in stored
  /\ worker[r] = "fail" => job[r] = "processing" \/ (job[r] = "done" /\ "lostAck" \in Faults)
  /\ pc[r] = "open" => r \notin stored

Shape == \A r \in Reqs : IdleIsClean(r) /\ JobsComeFromJobOps(r) /\ WorkerKnowsJob(r)

\* A row id in a snapshot was created, and ids do not return to absent.
SnapRowsCreated == \A r \in Reqs : \A t \in RowsOf(snap[r]) : row[t].status # "absent"

ClosedRows(r) ==
  \A t \in RowsOf(snap[r]) : <<r, t>> \in closedBy \/ row[t].status = "deleted"

\* From the confirm step on, the job has closed the rows of its file.
ClosedBeforeDone ==
  \A r \in Reqs : (worker[r] = "finish" \/ job[r] = "done") /\ Accounting(r) => ClosedRows(r)

IInv == TypeOK /\ Shape /\ SnapRowsCreated /\ ClosedBeforeDone /\ ConfirmedWasExported

-----------------------------------------------------------------------------
LEMMA InitIInv == Init => IInv
  <1> SUFFICES ASSUME Init PROVE IInv
    OBVIOUS
  <1>1. \A r \in Reqs : pc[r] = "idle" /\ op[r] = "none" /\ worker[r] = "off"
                        /\ job[r] = "none" /\ r \notin stored /\ snap[r] = {}
    BY DEF Init
  <1>2. Shape
    BY <1>1 DEF Shape, IdleIsClean, JobsComeFromJobOps, WorkerKnowsJob, JobOps
  <1>3. SnapRowsCreated /\ ClosedBeforeDone
    BY <1>1 DEF SnapRowsCreated, ClosedBeforeDone, ClosedRows, RowsOf, Accounting
  <1>4. ConfirmedWasExported
    BY DEF Init, ConfirmedWasExported, Confirmed
  <1>5. QED
    BY <1>2, <1>3, <1>4, InitType DEF IInv

LEMMA RequestShape ==
  ASSUME TypeOK, Shape, NEW r \in Reqs, Request(r)
  PROVE  Shape'
  <1> USE DEF TypeOK, Shape, IdleIsClean, JobsComeFromJobOps, WorkerKnowsJob, Accounting,
              Become, Leave, JobOps
  <1>1. ASSUME NEW t \in Txs, Create(r, t) PROVE Shape'
    BY <1>1 DEF Create
  <1>2. ASSUME NEW t \in Txs, NEW kind \in EditOps, OpenEdit(r, t, kind) PROVE Shape'
    BY <1>2 DEF OpenEdit, EditOps
  <1>3. ASSUME NEW t \in Txs, CommitUpdate(r, t) PROVE Shape'
    BY <1>3 DEF CommitUpdate
  <1>4. ASSUME NEW t \in Txs, NEW to \in {"pending", "paid"}, CommitStatus(r, t, to) PROVE Shape'
    BY <1>4 DEF CommitStatus
  <1>5. ASSUME NEW t \in Txs, CommitRemove(r, t) PROVE Shape'
    BY <1>5 DEF CommitRemove
  <1>6. CASE EditGone(r)
    BY <1>6 DEF EditGone
  <1>7. ASSUME NEW s \in Scopes, OpenFile(r, s) PROVE Shape'
    BY <1>7 DEF OpenFile
  <1>8. CASE CommitFile(r)
    BY <1>8 DEF CommitFile
  <1>9. ASSUME NEW s \in Scopes, NEW kind \in JobOps, OpenJob(r, kind, s) PROVE Shape'
    BY <1>9 DEF OpenJob
  <1>10. CASE CommitJob(r)
    BY <1>10 DEF CommitJob
  <1>11. CASE Abort(r)
    BY <1>11 DEF Abort
  <1>12. QED
    BY <1>1, <1>2, <1>3, <1>4, <1>5, <1>6, <1>7, <1>8, <1>9, <1>10, <1>11 DEF Request

LEMMA WorkShape ==
  ASSUME TypeOK, Shape, NEW r \in Reqs, Work(r)
  PROVE  Shape'
  <1> USE DEF TypeOK, Shape, IdleIsClean, JobsComeFromJobOps, WorkerKnowsJob, Accounting,
              Goto, JobOps
  <1>1. CASE MarkProcessing(r)
    BY <1>1 DEF MarkProcessing
  <1>2. CASE MarkProcessingFails(r)
    BY <1>2 DEF MarkProcessingFails
  <1>3. CASE Fetch(r)
    BY <1>3 DEF Fetch
  <1>4. CASE Upload(r)
    BY <1>4 DEF Upload
  <1>5. CASE Confirm(r)
    BY <1>5 DEF Confirm
  <1>6. CASE MarkDone(r)
    BY <1>6 DEF MarkDone
  <1>7. CASE StepFails(r)
    BY <1>7 DEF StepFails
  <1>8. CASE MarkError(r)
    BY <1>8 DEF MarkError
  <1>9. CASE MarkErrorFails(r)
    BY <1>9 DEF MarkErrorFails
  <1>10. QED
    BY <1>1, <1>2, <1>3, <1>4, <1>5, <1>6, <1>7, <1>8, <1>9 DEF Work

LEMMA CrashShape == TypeOK /\ Shape /\ Crash => Shape'
  BY DEF TypeOK, Shape, IdleIsClean, JobsComeFromJobOps, WorkerKnowsJob, Accounting, Crash, JobOps

-----------------------------------------------------------------------------
\* A step that leaves the snapshot of q, its kind and its file alone, adds to
\* the history at most, and neither revives a row nor returns one to absent.
LEMMA SnapStep ==
  ASSUME TypeOK, NEW q \in Reqs, snap'[q] = snap[q], closedBy \subseteq closedBy',
         \A t \in Txs : (row[t].status # "absent" => row'[t].status # "absent")
                        /\ (row[t].status = "deleted" => row'[t].status = "deleted")
  PROVE  /\ (\A t \in RowsOf(snap[q]) : row[t].status # "absent")
               => (\A t \in RowsOf(snap'[q]) : row'[t].status # "absent")
         /\ ClosedRows(q) => ClosedRows(q)'
  BY SnapRows DEF ClosedRows

\* No step revives a deleted row or returns a row to absent, and the history
\* only grows.
LEMMA RowsMoveOn ==
  ASSUME TypeOK, Next
  PROVE  /\ closedBy \subseteq closedBy'
         /\ \A t \in Txs : (row[t].status # "absent" => row'[t].status # "absent")
                           /\ (row[t].status = "deleted" => row'[t].status = "deleted")
  <1> DEFINE Moves == /\ closedBy \subseteq closedBy'
                      /\ \A t \in Txs :
                           /\ row[t].status # "absent" => row'[t].status # "absent"
                           /\ row[t].status = "deleted" => row'[t].status = "deleted"
  <1>1. ASSUME NEW r \in Reqs, NEW t \in Txs, Create(r, t) PROVE Moves
    BY <1>1 DEF Create, TypeOK
  <1>2. ASSUME NEW r \in Reqs, NEW t \in Txs, CommitUpdate(r, t) PROVE Moves
    BY <1>2 DEF CommitUpdate, TypeOK
  <1>3. ASSUME NEW r \in Reqs, NEW t \in Txs, NEW to \in {"pending", "paid"},
               CommitStatus(r, t, to)
        PROVE  Moves
    BY <1>3 DEF CommitStatus, SetStatus, Exists, TypeOK
  <1>4. ASSUME NEW r \in Reqs, NEW t \in Txs, CommitRemove(r, t) PROVE Moves
    BY <1>4 DEF CommitRemove, SetStatus, Exists, TypeOK
  <1>5. ASSUME NEW r \in Reqs, Close(r) PROVE Moves
    BY <1>5, CloseEffect DEF Exists
  <1>6. ASSUME UNCHANGED <<row, closedBy>> PROVE Moves
    BY <1>6
  <1>7. QED
    BY <1>1, <1>2, <1>3, <1>4, <1>5, <1>6
       DEF Next, Request, Work, Crash, OpenEdit, EditGone, OpenFile, CommitFile, OpenJob,
           CommitJob, Abort, MarkProcessing, MarkProcessingFails, Fetch, Upload, Confirm,
           MarkDone, StepFails, MarkError, MarkErrorFails

\* A file, once built, keeps its contents and its kind: the request that
\* built it is past its opening step, and its worker past the fetch.
LEMMA StoredKept ==
  ASSUME TypeOK, Shape, Next, NEW q \in stored
  PROVE  q \in stored' /\ snap'[q] = snap[q] /\ op'[q] = op[q]
  <1> DEFINE Kept == q \in stored' /\ snap'[q] = snap[q] /\ op'[q] = op[q]
  <1>1. q \in Reqs /\ pc[q] # "idle" /\ worker[q] # "fetch"
    BY DEF TypeOK, Shape, IdleIsClean, WorkerKnowsJob
  <1>2. ASSUME NEW r \in Reqs, Request(r) PROVE Kept
    BY <1>1, <1>2
       DEF TypeOK, Request, Create, OpenEdit, CommitUpdate, CommitStatus, CommitRemove, EditGone,
           OpenFile, CommitFile, OpenJob, CommitJob, Abort, Become, Leave
  <1>3. ASSUME NEW r \in Reqs, Work(r) PROVE Kept
    BY <1>1, <1>3
       DEF TypeOK, Work, MarkProcessing, MarkProcessingFails, Fetch, Upload, Confirm, MarkDone,
           StepFails, MarkError, MarkErrorFails, Goto
  <1>4. CASE Crash
    BY <1>4 DEF Crash
  <1>5. QED
    BY <1>2, <1>3, <1>4 DEF Next

\* A row becomes confirmed only in the two steps that close an export's rows,
\* and there the export has its file.
LEMMA ConfirmedStep ==
  ASSUME TypeOK, Shape, Next, NEW t \in Txs, ~Confirmed(t), Confirmed(t)'
  PROVE  \E r \in Reqs : r \in stored' /\ Accounting(r)' /\ t \in RowsOf(snap'[r])
  <1> DEFINE Found == \E r \in Reqs : r \in stored' /\ Accounting(r)' /\ t \in RowsOf(snap'[r])
  <1> USE DEF Confirmed
  <1>1. ASSUME NEW r \in Reqs, NEW u \in Txs, Create(r, u) PROVE FALSE
    BY <1>1 DEF Create, TypeOK
  <1>2. ASSUME NEW r \in Reqs, NEW u \in Txs, CommitUpdate(r, u) PROVE FALSE
    BY <1>2 DEF CommitUpdate, TypeOK
  <1>3. ASSUME NEW r \in Reqs, NEW u \in Txs, NEW to \in {"pending", "paid"}, CommitStatus(r, u, to)
        PROVE  FALSE
    BY <1>3 DEF CommitStatus, SetStatus, TypeOK
  <1>4. ASSUME NEW r \in Reqs, NEW u \in Txs, CommitRemove(r, u) PROVE FALSE
    BY <1>4 DEF CommitRemove, SetStatus, TypeOK
  <1>5. ASSUME NEW r \in Reqs, CommitFile(r) PROVE Found
    <2>1. Close(r) /\ snap' = snap /\ stored' = stored \cup {r} /\ op' = op
      BY <1>5 DEF CommitFile, Leave
    <2>2. t \in RowsOf(snap[r])
      BY <2>1, CloseEffect
    <2>3. QED
      BY <1>5, <2>1, <2>2 DEF CommitFile, Accounting
  <1>6. ASSUME NEW r \in Reqs, Confirm(r) PROVE Found
    <2>1. Close(r) /\ snap' = snap /\ stored' = stored /\ op' = op /\ worker[r] = "confirm"
      BY <1>6 DEF Confirm, Goto
    <2>2. t \in RowsOf(snap[r])
      BY <2>1, CloseEffect
    <2>3. QED
      BY <2>1, <2>2 DEF Shape, WorkerKnowsJob, Accounting
  <1>7. ASSUME UNCHANGED row PROVE FALSE
    BY <1>7
  <1>8. QED
    BY <1>1, <1>2, <1>3, <1>4, <1>5, <1>6, <1>7
       DEF Next, Request, Work, Crash, OpenEdit, EditGone, OpenFile, OpenJob, CommitJob,
           Abort, MarkProcessing, MarkProcessingFails, Fetch, Upload, MarkDone, StepFails,
           MarkError, MarkErrorFails

LEMMA ExportedStep ==
  ASSUME TypeOK, Shape, ConfirmedWasExported, Next
  PROVE  ConfirmedWasExported'
  <1> SUFFICES ASSUME NEW t \in Txs, Confirmed(t)'
               PROVE  \E r \in stored' : Accounting(r)' /\ t \in RowsOf(snap'[r])
    BY DEF ConfirmedWasExported
  <1>1. CASE Confirmed(t)
    <2>1. PICK r \in stored : Accounting(r) /\ t \in RowsOf(snap[r])
      BY <1>1 DEF ConfirmedWasExported
    <2>2. QED
      BY <2>1, StoredKept DEF Accounting
  <1>2. CASE ~Confirmed(t)
    BY <1>2, ConfirmedStep
  <1>3. QED
    BY <1>1, <1>2

\* Where an accounting job can have come from when it is past its confirm
\* step: it was already there, or it has just confirmed.
LEMMA ClosingStep ==
  ASSUME TypeOK, Shape, Next, NEW q \in Reqs,
         worker'[q] = "finish" \/ job'[q] = "done", Accounting(q)'
  PROVE  \/ Confirm(q)
         \/ /\ worker[q] = "finish" \/ job[q] = "done"
            /\ Accounting(q) /\ snap'[q] = snap[q]
  <1> DEFINE Was == /\ worker[q] = "finish" \/ job[q] = "done"
                    /\ Accounting(q) /\ snap'[q] = snap[q]
  <1> USE DEF Accounting, TypeOK, Shape, IdleIsClean, JobsComeFromJobOps, WorkerKnowsJob, JobOps
  <1>1. ASSUME NEW r \in Reqs, Request(r) PROVE Was
    BY <1>1
       DEF Request, Create, OpenEdit, CommitUpdate, CommitStatus, CommitRemove, EditGone,
           OpenFile, CommitFile, OpenJob, CommitJob, Abort, Become, Leave
  <1>2. ASSUME NEW r \in Reqs, Work(r), ~Confirm(q) PROVE Was
    BY <1>2
       DEF Work, MarkProcessing, MarkProcessingFails, Fetch, Upload, Confirm, MarkDone,
           StepFails, MarkError, MarkErrorFails, Goto
  <1>3. ASSUME Crash PROVE Was
    BY <1>3 DEF Crash
  <1>4. QED
    BY <1>1, <1>2, <1>3 DEF Next

LEMMA ClosedStep ==
  ASSUME TypeOK, Shape, SnapRowsCreated, ClosedBeforeDone, Next
  PROVE  ClosedBeforeDone'
  <1> SUFFICES ASSUME NEW q \in Reqs,
                      worker'[q] = "finish" \/ job'[q] = "done", Accounting(q)'
               PROVE  ClosedRows(q)'
    BY DEF ClosedBeforeDone
  <1>1. CASE Confirm(q)
    <2>1. Close(q) /\ snap' = snap
      BY <1>1 DEF Confirm
    <2>2. ASSUME NEW t \in RowsOf(snap[q])
          PROVE  <<q, t>> \in closedBy' \/ row'[t].status = "deleted"
      <3>1. t \in Txs /\ row[t].status # "absent"
        BY SnapRows DEF SnapRowsCreated
      <3>2. Exists(t) \/ row[t].status = "deleted"
        BY <3>1 DEF TypeOK, RowStatuses, Exists
      <3>3. QED
        BY <2>1, <3>1, <3>2, CloseEffect
    <2>3. QED
      BY <2>1, <2>2 DEF ClosedRows
  <1>2. CASE ~Confirm(q)
    <2>1. /\ worker[q] = "finish" \/ job[q] = "done"
          /\ Accounting(q) /\ snap'[q] = snap[q]
      BY <1>2, ClosingStep
    <2>2. ClosedRows(q)
      BY <2>1 DEF ClosedBeforeDone
    <2>3. QED
      BY <2>1, <2>2, SnapStep, RowsMoveOn
  <1>3. QED
    BY <1>1, <1>2

LEMMA FetchedStep ==
  ASSUME TypeOK, Shape, SnapRowsCreated, Next
  PROVE  SnapRowsCreated'
  <1> SUFFICES ASSUME NEW q \in Reqs
               PROVE  \A t \in RowsOf(snap'[q]) : row'[t].status # "absent"
    BY DEF SnapRowsCreated
  <1>1. CASE snap'[q] = snap[q]
    BY <1>1, SnapStep, RowsMoveOn DEF SnapRowsCreated
  <1>2. ASSUME NEW kind, NEW s \in SUBSET Txs, snap'[q] = Fetched(kind, s), row' = row
        PROVE  \A t \in RowsOf(snap'[q]) : row'[t].status # "absent"
    BY <1>2, FetchedType DEF Exists
  <1>3. ASSUME NEW r \in Reqs, NEW s \in Scopes, OpenFile(r, s), snap'[q] # snap[q]
        PROVE  s \in SUBSET Txs /\ snap'[q] = Fetched("accountingFile", s) /\ row' = row
    BY <1>3, ScopesAssumption DEF OpenFile, TypeOK
  <1>4. ASSUME NEW r \in Reqs, Fetch(r), snap'[q] # snap[q]
        PROVE  scope[q] \in SUBSET Txs /\ snap'[q] = Fetched(op[q], scope[q]) /\ row' = row
    BY <1>4 DEF Fetch, TypeOK
  <1>5. ASSUME snap' # snap
        PROVE  \E r \in Reqs : Fetch(r) \/ \E s \in Scopes : OpenFile(r, s)
    BY <1>5
       DEF Next, Request, Work, Crash, Create, OpenEdit, CommitUpdate, CommitStatus, CommitRemove,
           EditGone, CommitFile, OpenJob, CommitJob, Abort, MarkProcessing, MarkProcessingFails,
           Upload, Confirm, MarkDone, StepFails, MarkError, MarkErrorFails
  <1>6. QED
    BY <1>1, <1>2, <1>3, <1>4, <1>5

-----------------------------------------------------------------------------
(* The theorems.                                                            *)

LEMMA IInvariant == Spec => []IInv
  <1>1. IInv /\ [Next]_vars => IInv'
    <2> SUFFICES ASSUME IInv, [Next]_vars PROVE IInv'
      OBVIOUS
    <2>1. CASE UNCHANGED vars
      BY <2>1 DEF vars, IInv, TypeOK, Shape, IdleIsClean, JobsComeFromJobOps, WorkerKnowsJob,
                  SnapRowsCreated, ClosedBeforeDone, ClosedRows, ConfirmedWasExported,
                  Accounting, Confirmed
    <2>2. CASE Next
      <3>1. TypeOK'
        BY <2>2, RequestType, WorkType, CrashType DEF Next, IInv
      <3>2. Shape'
        BY <2>2, RequestShape, WorkShape, CrashShape DEF Next, IInv
      <3>3. SnapRowsCreated' /\ ClosedBeforeDone' /\ ConfirmedWasExported'
        BY <2>2, FetchedStep, ClosedStep, ExportedStep DEF IInv
      <3>4. QED
        BY <3>1, <3>2, <3>3 DEF IInv
    <2>3. QED
      BY <2>1, <2>2
  <1>2. QED
    BY <1>1, InitIInv, PTL DEF Spec

\* A row is never confirmed without a file of an accounting export that has
\* it, whatever fails and wherever the process dies.
THEOREM ConfirmedImpliesExported == Spec => []ConfirmedWasExported
  <1>1. IInv => ConfirmedWasExported
    BY DEF IInv
  <1>2. QED
    BY <1>1, IInvariant, PTL

\* A job that reads done closed the rows of its file.
THEOREM DoneImpliesClosed == Spec => []DoneClosedItsRows
  <1>1. IInv => DoneClosedItsRows
    BY DEF IInv, ClosedBeforeDone, ClosedRows, DoneClosedItsRows
  <1>2. QED
    BY <1>1, IInvariant, PTL

\* Closing a row that is confirmed already leaves it as it is.
LEMMA CloseKeepsConfirmed ==
  ASSUME TypeOK, NEW r \in Reqs, Close(r), NEW t \in Txs, Confirmed(t)
  PROVE  row'[t] = row[t]
  <1>1. PICK st \in RowStatuses, v \in Nat : row[t] = [status |-> st, version |-> v]
    BY DEF TypeOK
  <1>2. [row[t] EXCEPT !.status = "confirmed"] = [status |-> "confirmed", version |-> v]
    BY <1>1
  <1>3. st = "confirmed"
    BY <1>1 DEF Confirmed
  <1>4. row'[t] = row[t] \/ row'[t] = [row[t] EXCEPT !.status = "confirmed"]
    BY DEF Close
  <1>5. QED
    BY <1>1, <1>2, <1>3, <1>4

\* The guard at the start of each edit is enough once the edits that read
\* the row earlier are over: from then on the row is frozen.
THEOREM SettledIsStable == Spec => SettledStaysSettled
  <1> DEFINE Frozen(t) == Settled(t)' /\ row'[t] = row[t]
             Stable == \A t \in Txs : Settled(t) => Frozen(t)
  <1>1. ASSUME TypeOK, NEW t \in Txs, Settled(t), row'[t] = row[t],
               \A q \in Reqs : (pc'[q] = "open" /\ op'[q] \in EditOps /\ t \in scope'[q])
                                 => (pc[q] = "open" /\ op[q] \in EditOps /\ t \in scope[q])
        PROVE  Frozen(t)
    BY <1>1 DEF Settled, Confirmed
  <1>2. ASSUME TypeOK, Next, NEW t \in Txs, Settled(t)
        PROVE  Frozen(t)
    <2> USE DEF TypeOK
    <2>1. ASSUME NEW r \in Reqs, NEW u \in Txs, Create(r, u) PROVE Frozen(t)
      <3>1. u # t
        BY <1>2, <2>1 DEF Create, Settled, Confirmed
      <3>2. QED
        BY <1>1, <1>2, <2>1, <3>1 DEF Create, Become
    <2>2. ASSUME NEW r \in Reqs, NEW u \in Txs, NEW kind \in EditOps, OpenEdit(r, u, kind)
          PROVE  Frozen(t)
      <3>1. u # t
        BY <1>2, <2>2 DEF OpenEdit, Settled, Confirmed
      <3>2. QED
        BY <1>1, <1>2, <2>2, <3>1 DEF OpenEdit, Become
    <2>3. ASSUME NEW r \in Reqs, NEW u \in Txs,
                 CommitUpdate(r, u) \/ CommitRemove(r, u)
                   \/ \E to \in {"pending", "paid"} : CommitStatus(r, u, to)
          PROVE  Frozen(t)
      <3>1. u # t
        BY <1>2, <2>3 DEF CommitUpdate, CommitRemove, CommitStatus, Leave, Settled, EditOps
      <3>2. QED
        BY <1>1, <1>2, <2>3, <3>1 DEF CommitUpdate, CommitRemove, CommitStatus, SetStatus, Leave
    <2>4. ASSUME NEW r \in Reqs, CommitFile(r) PROVE Frozen(t)
      <3>1. Close(r)
        BY <2>4 DEF CommitFile
      <3>2. row'[t] = row[t]
        BY <1>2, <3>1, CloseKeepsConfirmed DEF Settled
      <3>3. QED
        BY <1>1, <1>2, <2>4, <3>2 DEF CommitFile, Leave
    <2>5. ASSUME NEW r \in Reqs, Confirm(r) PROVE Frozen(t)
      <3>1. Close(r)
        BY <2>5 DEF Confirm
      <3>2. row'[t] = row[t]
        BY <1>2, <3>1, CloseKeepsConfirmed DEF Settled
      <3>3. QED
        BY <1>1, <1>2, <2>5, <3>2 DEF Confirm, Goto
    <2>6. ASSUME NEW r \in Reqs,
                 \/ \E s \in Scopes : OpenFile(r, s)
                 \/ \E s \in Scopes, kind \in JobOps : OpenJob(r, kind, s)
          PROVE  Frozen(t)
      BY <1>1, <1>2, <2>6 DEF OpenFile, OpenJob, Become, EditOps, JobOps
    <2>7. ASSUME NEW r \in Reqs, EditGone(r) \/ CommitJob(r) \/ Abort(r)
          PROVE  Frozen(t)
      BY <1>1, <1>2, <2>7 DEF EditGone, CommitJob, Abort, Leave
    <2>8. ASSUME NEW r \in Reqs, Work(r), ~Confirm(r) PROVE Frozen(t)
      BY <1>1, <1>2, <2>8
         DEF Work, MarkProcessing, MarkProcessingFails, Fetch, Upload, MarkDone, StepFails,
             MarkError, MarkErrorFails, Goto
    <2>9. CASE Crash
      BY <1>1, <1>2, <2>9 DEF Crash
    <2>10. QED
      BY <1>2, <2>1, <2>2, <2>3, <2>4, <2>5, <2>6, <2>7, <2>8, <2>9 DEF Next, Request
  <1>3. TypeOK /\ [Next]_vars => [Stable]_vars
    BY <1>2
  <1>4. QED
    BY <1>3, Typing, PTL DEF Spec, SettledStaysSettled

-----------------------------------------------------------------------------
(* FinancialLedger implements ExportJob when no acknowledgement of markDone *)
(* is lost (a lost one makes the catch block overwrite done with error).    *)

JobFiles == {r \in stored : op[r] \in JobOps}

LEMMA RequestRefines ==
  ASSUME IInv, NEW r \in Reqs, Request(r)
  PROVE  Job!Next \/ UNCHANGED Job!vars
  <1> USE DEF IInv, TypeOK, Shape, IdleIsClean, JobsComeFromJobOps, WorkerKnowsJob, Job!vars
  <1>1. CASE CommitJob(r)
    <2>1. job[r] = "none" /\ job' = [job EXCEPT ![r] = "pending"] /\ op' = op /\ stored' = stored
      BY <1>1 DEF CommitJob, Leave
    <2>2. Job!Submit(r)
      BY <2>1 DEF Job!Submit, Job!Move
    <2>3. QED
      BY <2>2 DEF Job!Next
  <1>2. CASE CommitFile(r)
    <2>1. op[r] = "accountingFile" /\ op' = op /\ job' = job /\ stored' = stored \cup {r}
      BY <1>2 DEF CommitFile, Leave
    <2>2. JobFiles' = JobFiles
      BY <2>1 DEF JobFiles, JobOps
    <2>3. QED
      BY <2>1, <2>2 DEF JobFiles
  <1>3. CASE ~CommitJob(r) /\ ~CommitFile(r)
    <2>1. job' = job /\ stored' = stored /\ \A q \in stored : op'[q] = op[q]
      BY <1>3
         DEF Request, Create, OpenEdit, CommitUpdate, CommitStatus, CommitRemove, EditGone,
             OpenFile, OpenJob, Abort, Become, Leave
    <2>2. JobFiles' = JobFiles
      BY <2>1 DEF JobFiles
    <2>3. QED
      BY <2>1, <2>2 DEF JobFiles
  <1>4. QED
    BY <1>1, <1>2, <1>3

LEMMA WorkRefines ==
  ASSUME IInv, "lostAck" \notin Faults, NEW r \in Reqs, Work(r)
  PROVE  Job!Next \/ UNCHANGED Job!vars
  <1> USE DEF IInv, TypeOK, Shape, JobsComeFromJobOps, WorkerKnowsJob, Job!vars, Goto
  <1>1. CASE MarkProcessing(r)
    <2>1. Job!Start(r)
      BY <1>1 DEF MarkProcessing, Job!Start, Job!Move
    <2>2. QED
      BY <2>1 DEF Job!Next
  <1>2. CASE Upload(r)
    <2>1. /\ job[r] = "processing" /\ job' = job /\ op' = op /\ op[r] \in JobOps
          /\ stored' = stored \cup {r}
      BY <1>2 DEF Upload
    <2>2. JobFiles' = JobFiles \cup {r}
      BY <2>1 DEF JobFiles
    <2>3. Job!Store(r)
      BY <2>1, <2>2 DEF Job!Store, JobFiles
    <2>4. QED
      BY <2>3 DEF Job!Next
  <1>3. CASE MarkDone(r)
    <2>1. Job!Finish(r)
      BY <1>3 DEF MarkDone, Job!Finish, Job!Move
    <2>2. QED
      BY <2>1 DEF Job!Next
  <1>4. CASE MarkError(r)
    <2>1. Job!Fail(r)
      BY <1>4 DEF MarkError, Job!Fail, Job!Move
    <2>2. QED
      BY <2>1 DEF Job!Next
  <1>5. CASE ~MarkProcessing(r) /\ ~Upload(r) /\ ~MarkDone(r) /\ ~MarkError(r)
    BY <1>5 DEF Work, MarkProcessingFails, Fetch, Confirm, StepFails, MarkErrorFails
  <1>6. QED
    BY <1>1, <1>2, <1>3, <1>4, <1>5

\* A client sees each job go from pending through processing to one end, and
\* done only with the file in storage.
THEOREM JobRefinement ==
  ASSUME "lostAck" \notin Faults
  PROVE  Spec => Implements
  <1>1. Init => Job!Init
    BY DEF Init, Job!Init
  <1>2. IInv /\ [Next]_vars => [Job!Next]_(Job!vars)
    <2> SUFFICES ASSUME IInv, [Next]_vars PROVE Job!Next \/ UNCHANGED Job!vars
      OBVIOUS
    <2>1. CASE UNCHANGED vars
      BY <2>1 DEF vars, Job!vars
    <2>2. CASE Crash
      BY <2>2 DEF Crash, Job!vars
    <2>3. QED
      BY <2>1, <2>2, RequestRefines, WorkRefines DEF Next
  <1>3. QED
    BY <1>1, <1>2, IInvariant, PTL DEF Spec, Implements, Job!Spec

==============================================================================
