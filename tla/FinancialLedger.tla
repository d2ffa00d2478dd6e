--------------------------- MODULE FinancialLedger ---------------------------
(***************************************************************************)
(* Financial transactions, the handlers that edit them, and the exports    *)
(* that close the books on them (financial/transactions.service.ts and     *)
(* financial/export).                                                      *)
(*                                                                         *)
(* Every authenticated request runs inside one READ COMMITTED database     *)
(* transaction (TenantContextInterceptor).  A handler is therefore two     *)
(* steps: it opens, reads committed rows and takes its decisions; later    *)
(* it writes and commits.  Other requests and the background workers run   *)
(* in between.  A worker uses the system client, which commits each        *)
(* statement on its own.                                                   *)
(*                                                                         *)
(* Each element of Reqs is one request, from its arrival to its answer;    *)
(* a request that enqueues a job gives the job its identity.               *)
(***************************************************************************)
EXTENDS Naturals

CONSTANTS
  Txs,      \* transaction ids; an id is never used twice
  Reqs,     \* the requests of a run
  Scopes,   \* the row sets a period and cost-centre filter can select
  Faults    \* the failures the environment may produce

FaultKinds == {"abort", "cut", "step", "lostAck", "markError", "crash"}

ASSUME ScopesAssumption == Scopes \subseteq SUBSET Txs
ASSUME FaultsAssumption == Faults \subseteq FaultKinds

VARIABLES
  row,       \* committed ledger rows: status, and a version for their contents
  pc,        \* where each request is
  op,        \* what it does
  scope,     \* the rows it is about: one row for an edit, a filter for an export
  job,       \* the committed exportJob row of a request that enqueued one
  worker,    \* the next step of that job's background worker
  snap,      \* <<row, version>> pairs an export fetched; what its file contains
  stored,    \* exports whose file was built (response) or uploaded (job)
  closedBy   \* history: <<export, row>> when the export set the row confirmed

vars == <<row, pc, op, scope, job, worker, snap, stored, closedBy>>

RowStatuses == {"absent", "pending", "paid", "confirmed", "deleted"}
EditOps     == {"update", "delete", "setPending", "setPaid"}
JobOps      == {"accountingJob", "reportJob"}
Ops         == EditOps \cup JobOps \cup {"none", "create", "accountingFile"}
Steps       == {"off", "queued", "fetch", "upload", "confirm", "finish", "fail", "stopped"}

\* The statuses of rows, requests, jobs and workers are those of the code.
TypeOK ==
  /\ row \in [Txs -> [status : RowStatuses, version : Nat]]
  /\ pc \in [Reqs -> {"idle", "open", "closed", "cut", "aborted"}]
  /\ op \in [Reqs -> Ops]
  /\ scope \in [Reqs -> SUBSET Txs]
  /\ job \in [Reqs -> {"none", "pending", "processing", "done", "error"}]
  /\ worker \in [Reqs -> Steps]
  /\ snap \in [Reqs -> SUBSET (Txs \X Nat)]
  /\ stored \subseteq Reqs
  /\ closedBy \subseteq Reqs \X Txs

\* CSV, OFX and SPED close the books; PDF and ZIP only report.
Accounting(r) == op[r] \in {"accountingFile", "accountingJob"}

Exists(t)    == row[t].status \in {"pending", "paid", "confirmed"}
Confirmed(t) == row[t].status = "confirmed"

RowsOf(s) == {e[1] : e \in s}

\* The rows committed at this instant that match the filter: an accounting
\* export takes the paid ones, a report takes all.
Fetched(kind, s) ==
  {<<t, row[t].version>> :
     t \in {u \in s : IF kind = "reportJob" THEN Exists(u) ELSE row[u].status = "paid"}}

-----------------------------------------------------------------------------
Init ==
  /\ row \in [Txs -> [status : {"absent", "pending", "paid"}, version : {0}]]
  /\ pc = [r \in Reqs |-> "idle"]
  /\ op = [r \in Reqs |-> "none"]
  /\ scope = [r \in Reqs |-> {}]
  /\ job = [r \in Reqs |-> "none"]
  /\ worker = [r \in Reqs |-> "off"]
  /\ snap = [r \in Reqs |-> {}]
  /\ stored = {}
  /\ closedBy = {}

Become(r, state, kind, s) ==
  /\ pc[r] = "idle"
  /\ pc' = [pc EXCEPT ![r] = state]
  /\ op' = [op EXCEPT ![r] = kind]
  /\ scope' = [scope EXCEPT ![r] = s]

Leave(r, state) ==
  /\ pc[r] = "open"
  /\ pc' = [pc EXCEPT ![r] = state]
  /\ UNCHANGED <<op, scope>>

SetStatus(t, status) == row' = [row EXCEPT ![t].status = status]

Close(r) ==
  LET hit == {t \in RowsOf(snap[r]) : Exists(t)}
  IN  /\ row' = [t \in Txs |-> IF t \in hit THEN [row[t] EXCEPT !.status = "confirmed"]
                                            ELSE row[t]]
      /\ closedBy' = closedBy \cup ({r} \X hit)

-----------------------------------------------------------------------------
(* Transactions: create, update, updateStatus, remove.  The checks on the   *)
(* category and the donor read other tables and refuse or pass.             *)

Create(r, t) ==
  /\ row[t].status = "absent"
  /\ Become(r, "closed", "create", {t})
  /\ row' = [row EXCEPT ![t] = [status |-> "pending", version |-> 0]]
  /\ UNCHANGED <<job, worker, snap, stored, closedBy>>

\* Mutant: the check on the confirmed status is dropped.
OpenEditUnchecked(r, t, kind) ==
  /\ kind \in EditOps
  /\ Exists(t)
  /\ Become(r, "open", kind, {t})
  /\ UNCHANGED <<row, job, worker, snap, stored, closedBy>>

\* The read and the check update, updateStatus and remove start with.  A
\* request that is refused changes nothing, like one never sent.
OpenEdit(r, t, kind) ==
  /\ kind \in EditOps
  /\ Exists(t) /\ ~Confirmed(t)
  /\ Become(r, "open", kind, {t})
  /\ UNCHANGED <<row, job, worker, snap, stored, closedBy>>

\* The writes go by id alone; a row that is gone makes them throw.
CommitUpdate(r, t) ==
  /\ op[r] = "update" /\ scope[r] = {t} /\ Exists(t)
  /\ row' = [row EXCEPT ![t].version = @ + 1]
  /\ Leave(r, "closed")
  /\ UNCHANGED <<job, worker, snap, stored, closedBy>>

CommitStatus(r, t, to) ==
  /\ \/ op[r] = "setPending" /\ to = "pending"
     \/ op[r] = "setPaid" /\ to = "paid"
  /\ scope[r] = {t} /\ Exists(t)
  /\ SetStatus(t, to)
  /\ Leave(r, "closed")
  /\ UNCHANGED <<job, worker, snap, stored, closedBy>>

CommitRemove(r, t) ==
  /\ op[r] = "delete" /\ scope[r] = {t} /\ Exists(t)
  /\ SetStatus(t, "deleted")
  /\ Leave(r, "closed")
  /\ UNCHANGED <<job, worker, snap, stored, closedBy>>

EditGone(r) ==
  /\ op[r] \in EditOps /\ \A t \in scope[r] : ~Exists(t)
  /\ Leave(r, "aborted")
  /\ UNCHANGED <<row, job, worker, snap, stored, closedBy>>

-----------------------------------------------------------------------------
(* Accounting export of at most 92 days: inside the request.                *)

OpenFile(r, s) ==
  /\ Become(r, "open", "accountingFile", s)
  /\ snap' = [snap EXCEPT ![r] = Fetched("accountingFile", s)]
  /\ UNCHANGED <<row, job, worker, stored, closedBy>>

\* markConfirmed and the commit; then the file is the response, which a
\* broken connection may keep from the client.
CommitFile(r) ==
  /\ op[r] = "accountingFile"
  /\ Close(r)
  /\ stored' = stored \cup {r}
  /\ \/ Leave(r, "closed")
     \/ "cut" \in Faults /\ Leave(r, "cut")
  /\ UNCHANGED <<job, worker, snap>>

-----------------------------------------------------------------------------
(* Longer exports, SPED and ZIP: the request inserts the job and schedules  *)
(* its worker with setImmediate, before its own transaction has committed.  *)

OpenJob(r, kind, s) ==
  /\ kind \in JobOps
  /\ Become(r, "open", kind, s)
  /\ worker' = [worker EXCEPT ![r] = "queued"]
  /\ UNCHANGED <<row, job, snap, stored, closedBy>>

CommitJob(r) ==
  /\ op[r] \in JobOps
  /\ job' = [job EXCEPT ![r] = "pending"]
  /\ Leave(r, "closed")
  /\ UNCHANGED <<row, worker, snap, stored, closedBy>>

\* The request's transaction fails: timeout, deadlock, lost connection.
Abort(r) ==
  /\ "abort" \in Faults
  /\ Leave(r, "aborted")
  /\ UNCHANGED <<row, job, worker, snap, stored, closedBy>>

-----------------------------------------------------------------------------
(* processJob, statement by statement.                                      *)

Goto(r, from, to) ==
  /\ worker[r] = from
  /\ worker' = [worker EXCEPT ![r] = to]
  /\ UNCHANGED <<pc, op, scope>>

\* markProcessing is outside the try: when the row is not visible yet, or
\* the statement fails, the error is logged and nothing else happens.
MarkProcessing(r) ==
  /\ job[r] = "pending"
  /\ job' = [job EXCEPT ![r] = "processing"]
  /\ \/ Goto(r, "queued", "fetch")
     \/ "lostAck" \in Faults /\ Goto(r, "queued", "stopped")
  /\ UNCHANGED <<row, snap, stored, closedBy>>

MarkProcessingFails(r) ==
  /\ job[r] = "none" \/ "step" \in Faults
  /\ Goto(r, "queued", "stopped")
  /\ UNCHANGED <<row, job, snap, stored, closedBy>>

\* Mutant: rows are confirmed before, and without, the upload.
FetchThenConfirm(r) ==
  /\ snap' = [snap EXCEPT ![r] = Fetched(op[r], scope[r])]
  /\ Goto(r, "fetch", IF Accounting(r) THEN "confirm" ELSE "upload")
  /\ UNCHANGED <<row, job, stored, closedBy>>

\* Mutant: an export with no rows returns early, without a file.
FetchSkipsEmpty(r) ==
  /\ snap' = [snap EXCEPT ![r] = Fetched(op[r], scope[r])]
  /\ Goto(r, "fetch", IF snap'[r] = {} THEN "finish" ELSE "upload")
  /\ UNCHANGED <<row, job, stored, closedBy>>

Fetch(r) ==
  /\ snap' = [snap EXCEPT ![r] = Fetched(op[r], scope[r])]
  /\ Goto(r, "fetch", "upload")
  /\ UNCHANGED <<row, job, stored, closedBy>>

\* Mutant: no export kind goes on to confirm its rows.
UploadOnly(r) ==
  /\ stored' = stored \cup {r}
  /\ Goto(r, "upload", "finish")
  /\ UNCHANGED <<row, job, snap, closedBy>>

Upload(r) ==
  /\ stored' = stored \cup {r}
  /\ Goto(r, "upload", IF Accounting(r) THEN "confirm" ELSE "finish")
  /\ UNCHANGED <<row, job, snap, closedBy>>

Confirm(r) ==
  /\ Close(r)
  /\ Goto(r, "confirm", "finish")
  /\ UNCHANGED <<job, snap, stored>>

MarkDone(r) ==
  /\ job' = [job EXCEPT ![r] = "done"]
  /\ \/ Goto(r, "finish", "stopped")
     \/ "lostAck" \in Faults /\ Goto(r, "finish", "fail")
  /\ UNCHANGED <<row, snap, stored, closedBy>>

\* Any awaited call of the try block rejects, and the catch takes over.
StepFails(r) ==
  /\ "step" \in Faults
  /\ \E from \in {"fetch", "upload", "confirm", "finish"} : Goto(r, from, "fail")
  /\ UNCHANGED <<row, job, snap, stored, closedBy>>

\* Mutant: the catch only logs.
LogError(r) ==
  /\ Goto(r, "fail", "stopped")
  /\ UNCHANGED <<row, job, snap, stored, closedBy>>

MarkError(r) ==
  /\ job' = [job EXCEPT ![r] = "error"]
  /\ Goto(r, "fail", "stopped")
  /\ UNCHANGED <<row, snap, stored, closedBy>>

MarkErrorFails(r) ==
  /\ "markError" \in Faults
  /\ Goto(r, "fail", "stopped")
  /\ UNCHANGED <<row, job, snap, stored, closedBy>>

\* The process dies: open transactions roll back, workers are forgotten and
\* nothing resumes them at the next start.
Crash ==
  /\ "crash" \in Faults
  /\ \E r \in Reqs : pc[r] = "open" \/ worker[r] \notin {"off", "stopped"}
  /\ pc' = [r \in Reqs |-> IF pc[r] = "open" THEN "aborted" ELSE pc[r]]
  /\ worker' = [r \in Reqs |-> IF worker[r] = "off" THEN "off" ELSE "stopped"]
  /\ UNCHANGED <<row, op, scope, job, snap, stored, closedBy>>

-----------------------------------------------------------------------------
Request(r) ==
  \/ \E t \in Txs : Create(r, t)
  \/ \E t \in Txs, kind \in EditOps : OpenEdit(r, t, kind)
  \/ \E t \in Txs : CommitUpdate(r, t)
  \/ \E t \in Txs, to \in {"pending", "paid"} : CommitStatus(r, t, to)
  \/ \E t \in Txs : CommitRemove(r, t)
  \/ EditGone(r)
  \/ \E s \in Scopes : OpenFile(r, s)
  \/ CommitFile(r)
  \/ \E s \in Scopes, kind \in JobOps : OpenJob(r, kind, s)
  \/ CommitJob(r)
  \/ Abort(r)

Work(r) ==
  \/ MarkProcessing(r)
  \/ MarkProcessingFails(r)
  \/ Fetch(r)
  \/ Upload(r)
  \/ Confirm(r)
  \/ MarkDone(r)
  \/ StepFails(r)
  \/ MarkError(r)
  \/ MarkErrorFails(r)

Next == (\E r \in Reqs : Request(r) \/ Work(r)) \/ Crash

Spec == Init /\ [][Next]_vars

\* A worker's next call resolves or rejects, so it takes its next step; an
\* open request commits or aborts (the interceptor's transaction has a 30 s
\* limit).  Nobody is obliged to send a request.
Fairness ==
  \A r \in Reqs :
    /\ WF_vars(Work(r))
    /\ WF_vars((\E t \in Txs : CommitUpdate(r, t) \/ CommitRemove(r, t)
                  \/ \E to \in {"pending", "paid"} : CommitStatus(r, t, to))
               \/ EditGone(r) \/ CommitFile(r) \/ CommitJob(r))

FairSpec == Spec /\ Fairness

-----------------------------------------------------------------------------
(* Properties                                                               *)

\* A confirmed row is in a file that an accounting export really built: the
\* worker uploads before it confirms, the request builds before it confirms,
\* and no edit can set the status (export.service.ts, transactions DTO).
ConfirmedWasExported ==
  \A t \in Txs : Confirmed(t) =>
    \E r \in stored : Accounting(r) /\ t \in RowsOf(snap[r])

\* Once an accounting job reads done, every row of its file was set
\* confirmed by that job, or had been deleted before it got there.
DoneClosedItsRows ==
  \A r \in Reqs : (job[r] = "done" /\ Accounting(r)) =>
    \A t \in RowsOf(snap[r]) : <<r, t>> \in closedBy \/ row[t].status = "deleted"

\* No request that read the row before it was confirmed is still open.
Settled(t) ==
  /\ Confirmed(t)
  /\ \A r \in Reqs : ~(pc[r] = "open" /\ op[r] \in EditOps /\ t \in scope[r])

\* Once a row is confirmed and no edit that read it earlier is in flight,
\* it never changes again: the check at the start of update, updateStatus
\* and remove keeps every later request out.
SettledStaysSettled ==
  [][\A t \in Txs : Settled(t) => Settled(t)' /\ row'[t] = row[t]]_vars

\* The job row and its file behave as ExportJob promises.
Job == INSTANCE ExportJob WITH
         Jobs <- Reqs, status <- job, artefact <- {r \in stored : op[r] \in JobOps}
Implements == Job!Spec

\* A job whose worker got as far as processing ends in done or error, when
\* no crash, no lost acknowledgement and no failing markError intervene.
ProcessingEnds ==
  \A r \in Reqs : (job[r] = "processing") ~> (job[r] \in {"done", "error"})

-----------------------------------------------------------------------------
(* What the code's own words say, and the code does not guarantee.          *)

\* The client who polls a job is told it is not concluded yet, so a job
\* that was accepted concludes.
AcceptedJobEnds ==
  \A r \in Reqs : (job[r] = "pending") ~> (job[r] \in {"done", "error"})

==============================================================================
