---------------------------- MODULE MinistryTree -----------------------------
(***************************************************************************)
(* The tree of ministries of a congregation (volunteers/ministries.        *)
(* service.ts): creation, change of parent and removal, each of which      *)
(* checks the tree in several statements before it writes.  The walk up    *)
(* from the proposed parent is one query per level, and every query sees   *)
(* what other sessions have committed meanwhile.                           *)
(***************************************************************************)
EXTENDS Naturals, FiniteSets

CONSTANTS
  Ministries,   \* ministry ids
  Top,          \* parent_ministry_id = null
  Sessions,     \* connections, with at most one request each
  Handlers      \* the handlers they call

AllHandlers == {"create", "move", "remove"}

VARIABLES
  live,      \* committed ministries
  parent,    \* [Ministries -> Ministries \cup {Top}]; Top when not live
  session,   \* open request of each session, and how far its checks are
  raced      \* history: <<c, op>> when a write op committed during c's request

vars == <<live, parent, session, raced>>

Idle == [step |-> "idle"]

Roots == {m \in live : parent[m] = Top}

\* The foreign key holds: a parent is a live ministry, also after removals.
TypeOK ==
  /\ live \subseteq Ministries
  /\ parent \in [Ministries -> Ministries \cup {Top}]
  /\ \A m \in Ministries : parent[m] \in live \cup {Top} /\ (m \notin live => parent[m] = Top)
  /\ \A c \in Sessions :
       \/ session[c] = Idle
       \/ session[c].step \in {"write", "walk"} /\ session[c].op \in Handlers
            /\ session[c].self \in Ministries
  /\ raced \subseteq Sessions \X AllHandlers

Init ==
  /\ live = {}
  /\ parent = [m \in Ministries |-> Top]
  /\ session = [c \in Sessions |-> Idle]
  /\ raced = {}

-----------------------------------------------------------------------------
Open(c, request) ==
  /\ session[c] = Idle
  /\ request.op \in Handlers
  /\ session' = [session EXCEPT ![c] = request]
  /\ UNCHANGED <<live, parent, raced>>

Others(c) == {d \in Sessions \ {c} : session[d] # Idle}

\* A request ends: what raced with it is forgotten, and when it wrote, it has
\* raced with the requests still open.
Leave(c, written) ==
  /\ session' = [session EXCEPT ![c] = Idle]
  /\ raced' = (raced \ ({c} \X AllHandlers)) \cup (Others(c) \X written)

\* A refused request, one whose write violates a foreign key or misses its
\* row, and one that breaks or times out: the transaction leaves nothing.
Rollback(c) ==
  /\ session[c] # Idle
  /\ Leave(c, {})
  /\ UNCHANGED <<live, parent>>

\* assertNoRootExists: another live root refuses the request.
NoRootExists(except) == Roots \subseteq except

Write(op, self, to) == [step |-> "write", op |-> op, self |-> self, to |-> to]

\* The id of a new ministry is a fresh one: no request has it.  An id whose
\* row and requests are gone stands for another one.
Fresh(m) ==
  /\ m \notin live
  /\ \A c \in Sessions : session[c] # Idle => m \notin {session[c].self, session[c].to}
  /\ \A c \in Sessions : session[c].step = "walk" => m # session[c].at

OpenCreate(c, m, p) ==
  /\ Fresh(m)
  /\ IF p = Top THEN NoRootExists({}) ELSE p \in live
  /\ Open(c, Write("create", m, p))

\* Mutant: a second root is not looked for.
OpenPromoteAnyway(c, m) ==
  /\ m \in live
  /\ Open(c, Write("move", m, Top))

\* update with parent_ministry_id = null.
OpenPromote(c, m) ==
  /\ m \in live /\ NoRootExists({m})
  /\ Open(c, Write("move", m, Top))

\* update with another parent: it exists and is not the ministry itself; the
\* walk starts there.
OpenMove(c, m, p) ==
  /\ m \in live /\ p \in live /\ p # m
  /\ Open(c, [step |-> "walk", op |-> "move", self |-> m, to |-> p, at |-> p])

Advance(c, at) == session' = [session EXCEPT ![c].at = at]

EndWalk(c) == session' = [session EXCEPT ![c] = Write("move", session[c].self, session[c].to)]

\* Mutant: the ministry itself is not recognised on the way up.
WalkUnchecked(c) ==
  /\ session[c].step = "walk"
  /\ LET at == session[c].at
     IN  IF at \notin live \/ parent[at] = Top THEN EndWalk(c) ELSE Advance(c, parent[at])
  /\ UNCHANGED <<live, parent, raced>>

\* One round of the loop in assertValidParent: a row that is gone or has no
\* parent ends it; at the ministry itself only Rollback is left: a refusal.
Walk(c) ==
  /\ session[c].step = "walk"
  /\ LET at == session[c].at
     IN  \/ at \notin live /\ EndWalk(c)
         \/ at \in live /\ at # session[c].self /\ parent[at] = Top /\ EndWalk(c)
         \/ at \in live /\ at # session[c].self /\ parent[at] # Top /\ Advance(c, parent[at])
  /\ UNCHANGED <<live, parent, raced>>

CommitCreate(c) ==
  LET r == session[c]
  IN  /\ r.step = "write" /\ r.op = "create"
      /\ r.self \notin live /\ r.to \in live \cup {Top}
      /\ live' = live \cup {r.self}
      /\ parent' = [parent EXCEPT ![r.self] = r.to]
      /\ Leave(c, {"create"})

CommitMove(c) ==
  LET r == session[c]
  IN  /\ r.step = "write" /\ r.op = "move"
      /\ r.self \in live /\ r.to \in live \cup {Top}
      /\ parent' = [parent EXCEPT ![r.self] = r.to]
      /\ Leave(c, {"move"})
      /\ UNCHANGED live

OpenRemove(c, m) == m \in live /\ Open(c, Write("remove", m, Top))

\* ON DELETE SET NULL: the children become roots.
CommitRemove(c) ==
  LET r == session[c]
  IN  /\ r.step = "write" /\ r.op = "remove"
      /\ r.self \in live
      /\ live' = live \ {r.self}
      /\ parent' = [m \in Ministries |-> IF r.self \in {m, parent[m]} THEN Top ELSE parent[m]]
      /\ Leave(c, {"remove"})

-----------------------------------------------------------------------------
Next ==
  \E c \in Sessions :
    \/ \E m \in Ministries, p \in Ministries \cup {Top} : OpenCreate(c, m, p)
    \/ \E m \in Ministries : OpenPromote(c, m) \/ OpenRemove(c, m)
    \/ \E m, p \in Ministries : OpenMove(c, m, p)
    \/ Walk(c)
    \/ CommitCreate(c)
    \/ CommitMove(c)
    \/ CommitRemove(c)
    \/ Rollback(c)

Spec == Init /\ [][Next]_vars

-----------------------------------------------------------------------------
\* findAll hangs each ministry under its parent and returns those without:
\* what the client sees is what hangs from them.
Hanging(set) ==
  /\ {m \in live : parent[m] \notin live} \subseteq set
  /\ \A m \in live : parent[m] \in set => m \in set

Shown == {m \in live : \A set \in SUBSET live : Hanging(set) => m \in set}

\* Every ministry of the congregation is in the tree the client gets: none
\* is lost in a cycle of parents ("criaria um ciclo").
EveryMinistryIsShown == Shown = live

Commits(c) == session[c].step = "write" /\ session'[c] = Idle

\* With concurrent requests, a ministry gets lost only by a move that had
\* another move commit under its checks: creations, removals and promotions
\* next to a walk, and the missing rows they leave it, do no harm.  Without
\* a race, then, no move makes a ministry its own ancestor.
LostOnlyByRacingMoves ==
  [][EveryMinistryIsShown =>
       \/ EveryMinistryIsShown'
       \/ \E c \in Sessions : <<c, "move">> \in raced /\ Commits(c)]_vars

\* "Apenas um ministério principal é permitido": a second root appears only
\* when a root loses its row and its children move up (ON DELETE SET NULL),
\* or by a request that had another write commit under its check.
SecondRootByRemovalOrRace ==
  [][Cardinality(Roots) <= 1 =>
       \/ Cardinality(Roots') <= 1
       \/ \E c \in Sessions :
            Commits(c) /\ (session[c].op = "remove" \/ \E op \in AllHandlers : <<c, op>> \in raced)]_vars

==============================================================================
