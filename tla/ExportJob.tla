------------------------------ MODULE ExportJob ------------------------------
(***************************************************************************)
(* What a client is told about a background job, an export in any format   *)
(* or an import of persons: the row is created pending, a worker takes it  *)
(* to processing, and from there it ends once, in done or in error.  An    *)
(* export is done only when the file its download link points to is in     *)
(* storage, and an import when its result covers the whole spreadsheet.    *)
(* FinancialLedger and PersonImport implement this specification (see      *)
(* Implements there).                                                      *)
(***************************************************************************)

CONSTANT Jobs

VARIABLES
  status,     \* [Jobs -> JobStatuses]: the exportJob row, as other sessions see it
  artefact    \* the jobs whose file is in object storage, or whose result is complete

vars == <<status, artefact>>

JobStatuses == {"none", "pending", "processing", "done", "error"}

Init ==
  /\ status = [j \in Jobs |-> "none"]
  /\ artefact = {}

Move(j, from, to) ==
  /\ status[j] = from
  /\ status' = [status EXCEPT ![j] = to]

Submit(j) == Move(j, "none", "pending") /\ UNCHANGED artefact

Start(j) == Move(j, "pending", "processing") /\ UNCHANGED artefact

Store(j) ==
  /\ status[j] = "processing"
  /\ artefact' = artefact \cup {j}
  /\ UNCHANGED status

Finish(j) ==
  /\ j \in artefact
  /\ Move(j, "processing", "done")
  /\ UNCHANGED artefact

Fail(j) == Move(j, "processing", "error") /\ UNCHANGED artefact

Next == \E j \in Jobs : Submit(j) \/ Start(j) \/ Store(j) \/ Finish(j) \/ Fail(j)

Spec == Init /\ [][Next]_vars

==============================================================================
