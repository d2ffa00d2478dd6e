------------------------------ MODULE MCImports ------------------------------
(***************************************************************************)
(* PersonImport and OrderItems on small instances for TLC.  The two share  *)
(* no state and no client, so a behaviour of both is an interleaving of a  *)
(* behaviour of each: it is enough to run one of them at a time.           *)
(***************************************************************************)
EXTENDS PersonImport

CONSTANTS p1, p2, Items, Sessions, MaxPlace

\* There are numbers for all the items.
ASSUME PlacesAssumption == MaxPlace \in Nat /\ IsFiniteSet(Items) /\ Cardinality(Items) <= MaxPlace

VARIABLES part, place, setlists, request, mixed

Item == INSTANCE OrderItems

\* A phone given twice in one file and in two files; rows without a phone;
\* invalid rows, rows the database refuses; a file beyond SyncLimit.
Line(n, m, p, e) == [named |-> n, mail |-> m, phone |-> p, entry |-> e]
MCFiles ==
  {<<Line(TRUE, FALSE, p1, "good"), Line(TRUE, TRUE, NoPhone, "refused")>>,
   <<Line(TRUE, TRUE, p2, "invalid"), Line(TRUE, FALSE, p1, "good")>>,
   <<Line(TRUE, FALSE, p1, "good"), Line(TRUE, TRUE, NoPhone, "good"), Line(TRUE, TRUE, p2, "good")>>,
   <<Line(TRUE, TRUE, p1, "refused"), Line(FALSE, TRUE, p1, "good"), Line(TRUE, TRUE, p1, "good")>>}

importPart == <<import, made, job, taken, faults, overlap>>
itemPart   == <<place, setlists, request, mixed>>
allVars    == <<part, importPart, itemPart>>

AllInit == part \in {"import", "item"} /\ Init /\ Item!Init

ImportStep == part = "import" /\ Next /\ UNCHANGED <<part, itemPart>>
ItemStep   == part = "item" /\ Item!Next /\ UNCHANGED <<part, importPart>>

\* The fairness of OrderItems, on the steps of a request.
ItemWork(c) == part = "item" /\ Item!Work(c) /\ UNCHANGED <<part, importPart>>

AllSpec ==
  /\ AllInit
  /\ [][ImportStep \/ ItemStep]_allVars
  /\ \A c \in Sessions : SF_allVars(ItemWork(c))

\* The properties of OrderItems under their own names.
ItemsCohere == Item!ItemsCohere
ReorderEnds == Item!ReorderEnds
==============================================================================
