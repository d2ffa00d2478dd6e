------------------------------ MODULE OrderItems ------------------------------
(***************************************************************************)
(* The items of one order of service and their setlists: every item has a  *)
(* number that says its place (celebrations/service-order-items.service.ts,*)
(* setlists.service.ts; the songs of a setlist are numbered and reordered  *)
(* by the same code, in setlist-songs.service.ts).                         *)
(*                                                                         *)
(* reorder gets the numbers from the client, which sends its list as it    *)
(* shows it, and writes one row after the other; a row it wrote is locked  *)
(* until it commits, and the database aborts one of two requests that wait *)
(* for one another.  Texts, times and responsible people are left out.     *)
(***************************************************************************)
EXTENDS Naturals, Sequences, FiniteSets

CONSTANTS
  Items,     \* item ids: each is used once
  Sessions,  \* connections of the secretaries
  MaxPlace   \* bound on the numbers the clients give

VARIABLES
  place,     \* [Items -> number of the committed row, Unmade, or Gone]
  setlists,  \* items with a committed setlist
  request,   \* [Sessions -> request in progress]
  mixed      \* history: a request other than reorder wrote while another one
             \* was open, or gave an item a number that was taken

itemVars == <<place, setlists, request, mixed>>

Unmade == 0
Gone   == MaxPlace + 1
Idle   == [op |-> "idle"]

Live == {i \in Items : place[i] \in 1..MaxPlace}

\* The lists a client may send: all items it sees, in any order.
Lists == {list \in [1..Cardinality(Live) -> Live] : \A i \in Live : \E n \in DOMAIN list : list[n] = i}

\* The rows a reorder wrote and did not commit.
Held(c) == IF request[c].op = "reorder" THEN {request[c].list[n] : n \in 1..request[c].done} ELSE {}

Free(c, i) == \A d \in Sessions \ {c} : i \notin Held(d)

Reordering(c) == request[c].op = "reorder" /\ request[c].done < Len(request[c].list)

NextItem(c) == request[c].list[request[c].done + 1]

Waits(c, d) == Reordering(c) /\ NextItem(c) \in Held(d)

\* Rows and requests are well formed.
TypeOK ==
  /\ place \in [Items -> 0..(MaxPlace + 1)]
  /\ setlists \subseteq Items
  /\ \A c \in Sessions :
       \/ request[c] \in {Idle} \cup [op : {"create"}, place : 1..MaxPlace]
                           \cup [op : {"update"}, item : Items, place : 1..MaxPlace]
                           \cup [op : {"remove", "setlist"}, item : Items]
       \/ /\ request[c].op = "reorder"
          /\ request[c].list \in Seq(Items)
          /\ request[c].done \in 0..Len(request[c].list)
  /\ mixed \in BOOLEAN

Init ==
  /\ place = [i \in Items |-> Unmade]
  /\ setlists = {}
  /\ request = [c \in Sessions |-> Idle]
  /\ mixed = FALSE

Open(c, next) ==
  /\ request[c] = Idle
  /\ request' = [request EXCEPT ![c] = next]
  /\ UNCHANGED <<place, setlists, mixed>>

Alone(c) == \A d \in Sessions \ {c} : request[d] = Idle

\* c writes item i and commits; taken says that the number is another one's.
Commit(c, i, number, taken) ==
  /\ Free(c, i)
  /\ place' = [place EXCEPT ![i] = number]
  /\ request' = [request EXCEPT ![c] = Idle]
  /\ mixed' = (mixed \/ taken \/ ~Alone(c))

Taken(number) == \E i \in Live : place[i] = number

-----------------------------------------------------------------------------
(* create, update and remove.                                               *)

OpenCreate(c, number)    == Open(c, [op |-> "create", place |-> number])
OpenUpdate(c, i, number) == i \in Live /\ Open(c, [op |-> "update", item |-> i, place |-> number])
OpenRemove(c, i)         == i \in Live /\ Open(c, [op |-> "remove", item |-> i])

\* No index forbids two items of one number.
CommitCreate(c, i) ==
  /\ request[c].op = "create" /\ place[i] = Unmade
  /\ Commit(c, i, request[c].place, Taken(request[c].place))
  /\ UNCHANGED setlists

CommitUpdate(c) ==
  /\ request[c].op = "update" /\ request[c].item \in Live
  /\ Commit(c, request[c].item, request[c].place, Taken(request[c].place))
  /\ UNCHANGED setlists

\* The setlist of the item goes with it.
CommitRemove(c) ==
  /\ request[c].op = "remove" /\ request[c].item \in Live
  /\ Commit(c, request[c].item, Gone, FALSE)
  /\ setlists' = setlists \ {request[c].item}

-----------------------------------------------------------------------------
(* reorder                                                                  *)

OpenReorder(c) == Live # {} /\ \E list \in Lists : Open(c, [op |-> "reorder", list |-> list, done |-> 0])

\* Mutant: the rows are written outside of a transaction, each at once.
WriteAtOnce(c) ==
  /\ Reordering(c) /\ NextItem(c) \in Live
  /\ request' = [request EXCEPT ![c].done = @ + 1]
  /\ place' = [place EXCEPT ![NextItem(c)] = request[c].done + 1]
  /\ UNCHANGED <<setlists, mixed>>

WriteNext(c) ==
  /\ Reordering(c) /\ NextItem(c) \in Live /\ Free(c, NextItem(c))
  /\ request' = [request EXCEPT ![c].done = @ + 1]
  /\ UNCHANGED <<place, setlists, mixed>>

CommitReorder(c) ==
  /\ request[c].op = "reorder" /\ ~Reordering(c)
  /\ place' = [i \in Items |-> IF i \in Held(c) THEN CHOOSE n \in DOMAIN request[c].list : request[c].list[n] = i
                                                ELSE place[i]]
  /\ request' = [request EXCEPT ![c] = Idle]
  /\ UNCHANGED <<setlists, mixed>>

-----------------------------------------------------------------------------
(* setlists.service.ts.  A setlist found by the first read is the answer.   *)

OpenSetlist(c, i) == i \in Live \ setlists /\ Open(c, [op |-> "setlist", item |-> i])

\* The unique index refuses a second one; the item's row is locked by the
\* reference, which an uncommitted write of its number does not disturb.
CommitSetlist(c) ==
  /\ request[c].op = "setlist" /\ request[c].item \in Live \ setlists
  /\ setlists' = setlists \cup {request[c].item}
  /\ request' = [request EXCEPT ![c] = Idle]
  /\ UNCHANGED <<place, mixed>>

RemoveSetlist(i) ==
  /\ i \in setlists
  /\ setlists' = setlists \ {i}
  /\ UNCHANGED <<place, request, mixed>>

-----------------------------------------------------------------------------
\* A row is not found, a statement fails, or the database breaks a circle of
\* requests that wait for one another: nothing of the request remains.
Rollback(c) ==
  /\ request[c] # Idle
  /\ request' = [request EXCEPT ![c] = Idle]
  /\ UNCHANGED <<place, setlists, mixed>>

NotFound(c) ==
  \/ request[c].op \in {"update", "remove", "setlist"} /\ request[c].item \notin Live
  \/ Reordering(c) /\ NextItem(c) \notin Live

Refused(c) == request[c].op = "setlist" /\ request[c].item \in setlists

\* Mutant: the rows are locked by locks the database does not know of.
BreakNothing(c) == FALSE

BreakCircle(c) == (\E d \in Sessions : Waits(c, d) /\ Waits(d, c)) /\ Rollback(c)

Work(c) ==
  \/ \E i \in Items : CommitCreate(c, i)
  \/ CommitUpdate(c)
  \/ CommitRemove(c)
  \/ WriteNext(c)
  \/ CommitReorder(c)
  \/ CommitSetlist(c)
  \/ (NotFound(c) \/ Refused(c)) /\ Rollback(c)
  \/ BreakCircle(c)

Next ==
  \/ \E c \in Sessions :
       \/ \E number \in 1..MaxPlace : OpenCreate(c, number)
       \/ \E i \in Items, number \in 1..MaxPlace : OpenUpdate(c, i, number)
       \/ \E i \in Items : OpenRemove(c, i) \/ OpenSetlist(c, i)
       \/ OpenReorder(c)
       \/ Work(c)
       \/ Rollback(c)
  \/ \E i \in Items : RemoveSetlist(i)

Spec == Init /\ [][Next]_itemVars

\* The database queues the writers that wait for a row: none waits for ever.
FairSpec == Spec /\ \A c \in Sessions : SF_itemVars(Work(c))

-----------------------------------------------------------------------------
(* Properties.                                                              *)

\* The numbers of the items tell their places apart as long as creates,
\* updates and removals come one at a time and with fresh numbers: requests
\* that reorder the same list at once leave the list of one of them, and
\* never a mixture.
PlacesAreDistinct ==
  mixed \/ \A i, j \in Live : place[i] = place[j] => i = j

\* Only an item that is there has a setlist.
SetlistsHaveItems == setlists \subseteq Live

\* A reorder ends, also when two of them hold what the other one needs.
ReorderEnds == \A c \in Sessions : request[c].op = "reorder" ~> request[c] = Idle

\* What OrderItems checks of its states.
ItemsCohere == TypeOK /\ PlacesAreDistinct /\ SetlistsHaveItems
===============================================================================
