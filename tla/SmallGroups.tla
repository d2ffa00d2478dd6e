----------------------------- MODULE SmallGroups -----------------------------
(***************************************************************************)
(* Small groups, their leaders and members, and the types of groups        *)
(* (small-groups/small-groups.service.ts, group-types.service.ts).         *)
(*                                                                         *)
(* A group names its leader, and the leader is also a member of the group  *)
(* with the role of leader: two rows that every handler has to keep in     *)
(* step.  A request reads and checks when it opens, and writes when it     *)
(* commits.  Texts, addresses and the parent of a group are left out;      *)
(* persons and types are there, or the foreign key refuses the request.    *)
(***************************************************************************)
EXTENDS Naturals, FiniteSets

CONSTANTS
  Groups,    \* group ids: each is used once
  Persons,   \* the persons of the congregation
  Types,     \* the types of groups
  Sessions   \* connections of the secretaries

VARIABLES
  leader,    \* [Groups -> leader_person_id, or None (not made), or Gone]
  type,      \* [Groups -> group_type_id]
  role,      \* [Groups -> [Persons -> role of the membership, or "none"]]
  active,    \* [Types -> is_active]
  request,   \* [Sessions -> open request]
  crossed,   \* history: groups on which a request committed what it had
             \* decided before another one committed
  late       \* history: groups linked to a type that was not active, or that
             \* a request had already found unused

groupVars == <<leader, type, role, active, request, crossed, late>>

None == "none"
Gone == "gone"
Keep == "keep"  \* a field the request leaves out
Idle == [op |-> "idle"]

Roles == {"leader", "trainee", "member"}
Live  == {g \in Groups : leader[g] \in Persons}

\* Rows and requests are well formed.
TypeOK ==
  /\ leader \in [Groups -> Persons \cup {None, Gone}]
  /\ type \in [Groups -> Types \cup {None}]
  /\ role \in [Groups -> [Persons -> Roles \cup {"none"}]]
  /\ active \in [Types -> BOOLEAN]
  /\ request \in [Sessions -> {Idle}
       \cup [op : {"update"}, group : Groups, leader : Persons \cup {Keep}, type : Types \cup {Keep}, found : Persons]
       \cup [op : {"add"}, group : Groups, person : Persons, role : Roles, found : BOOLEAN]
       \cup [op : {"expel"}, group : Groups, person : Persons]
       \cup [op : {"deactivate"}, type : Types]]
  /\ crossed \subseteq Groups
  /\ late \subseteq Groups

Init ==
  /\ leader = [g \in Groups |-> None]
  /\ type = [g \in Groups |-> None]
  /\ role = [g \in Groups |-> [p \in Persons |-> "none"]]
  /\ active = [t \in Types |-> TRUE]
  /\ request = [c \in Sessions |-> Idle]
  /\ crossed = {}
  /\ late = {}

Open(c, next) ==
  /\ request[c] = Idle
  /\ request' = [request EXCEPT ![c] = next]
  /\ UNCHANGED <<leader, type, role, active, crossed, late>>

\* Another request decided on group g and has not committed.
Contended(c, g) == \E d \in Sessions \ {c} : request[d].op \in {"update", "add", "expel"} /\ request[d].group = g

\* The end of request c, which wrote group g.
Wrote(c, g) ==
  /\ request' = [request EXCEPT ![c] = Idle]
  /\ crossed' = IF Contended(c, g) THEN crossed \cup {g} ELSE crossed

\* The groups late has after group g was linked to type t.
Linked(g, t) ==
  IF ~active[t] \/ \E c \in Sessions : request[c] = [op |-> "deactivate", type |-> t]
  THEN late \cup {g} ELSE late \ {g}

-----------------------------------------------------------------------------
(* create, update and remove of a group.                                    *)

Create(g, p, t) ==
  /\ leader[g] = None
  /\ leader' = [leader EXCEPT ![g] = p]
  /\ type' = [type EXCEPT ![g] = t]
  /\ role' = [role EXCEPT ![g][p] = "leader"]
  /\ late' = Linked(g, t)
  /\ UNCHANGED <<active, request, crossed>>

OpenUpdate(c, g, newLeader, newType) ==
  g \in Live /\ Open(c, [op |-> "update", group |-> g, leader |-> newLeader, type |-> newType, found |-> leader[g]])

\* The fields of the request that are there.
WriteFields(r) ==
  /\ leader' = [leader EXCEPT ![r.group] = IF r.leader = Keep THEN @ ELSE r.leader]
  /\ type' = [type EXCEPT ![r.group] = IF r.type = Keep THEN @ ELSE r.type]
  /\ late' = IF r.type = Keep THEN late ELSE Linked(r.group, r.type)

CommitFields(c) ==
  LET r == request[c]
  IN  /\ r.op = "update" /\ r.group \in Live /\ r.leader \in {Keep, r.found}
      /\ WriteFields(r)
      /\ Wrote(c, r.group)
      /\ UNCHANGED <<role, active>>

\* The leader the request found, and who may be none any more, becomes a member.
CommitLeader(c) ==
  LET r == request[c]
  IN  /\ r.op = "update" /\ r.group \in Live /\ r.leader \notin {Keep, r.found}
      /\ WriteFields(r)
      /\ role' = [role EXCEPT ![r.group] = [p \in Persons |->
           CASE p = r.leader -> "leader"
             [] p = r.found /\ @[p] # "none" -> "member"
             [] OTHER -> @[p]]]
      /\ Wrote(c, r.group)
      /\ UNCHANGED active

\* The memberships go with it.
Remove(g) ==
  /\ g \in Live
  /\ leader' = [leader EXCEPT ![g] = Gone]
  /\ role' = [role EXCEPT ![g] = [p \in Persons |-> "none"]]
  /\ UNCHANGED <<type, active, request, crossed, late>>

-----------------------------------------------------------------------------
(* addMember and removeMember.                                              *)

\* Only a trainee or member can be given another role than leader.
OpenAdd(c, g, p, r) ==
  /\ g \in Live
  /\ role[g][p] = "leader" => r = "leader"
  /\ Open(c, [op |-> "add", group |-> g, person |-> p, role |-> r, found |-> role[g][p] # "none"])

\* The row it found is updated, and is there; the row it did not find is made,
\* unless another request made it.
CommitAdd(c) ==
  LET r == request[c]
  IN  /\ r.op = "add" /\ r.group \in Live
      /\ r.found <=> role[r.group][r.person] # "none"
      /\ role' = [role EXCEPT ![r.group][r.person] = r.role]
      /\ Wrote(c, r.group)
      /\ UNCHANGED <<leader, type, active, late>>

\* Mutant: the leader can be removed.
OpenExpelAny(c, g, p) ==
  /\ g \in Live /\ role[g][p] # "none"
  /\ Open(c, [op |-> "expel", group |-> g, person |-> p])

OpenExpel(c, g, p) ==
  /\ g \in Live /\ leader[g] # p /\ role[g][p] # "none"
  /\ Open(c, [op |-> "expel", group |-> g, person |-> p])

CommitExpel(c) ==
  LET r == request[c]
  IN  /\ r.op = "expel" /\ role[r.group][r.person] # "none"
      /\ role' = [role EXCEPT ![r.group][r.person] = "none"]
      /\ Wrote(c, r.group)
      /\ UNCHANGED <<leader, type, active, late>>

-----------------------------------------------------------------------------
(* deactivate of a type.  Nothing makes a type active again.                *)

OpenDeactivate(c, t) == (\A g \in Live : type[g] # t) /\ Open(c, [op |-> "deactivate", type |-> t])

CommitDeactivate(c) ==
  /\ request[c].op = "deactivate"
  /\ active' = [active EXCEPT ![request[c].type] = FALSE]
  /\ request' = [request EXCEPT ![c] = Idle]
  /\ UNCHANGED <<leader, type, role, crossed, late>>

\* A statement fails, or finds its row gone or made by another request.
Rollback(c) ==
  /\ request[c] # Idle
  /\ request' = [request EXCEPT ![c] = Idle]
  /\ UNCHANGED <<leader, type, role, active, crossed, late>>

-----------------------------------------------------------------------------
Next ==
  \/ \E g \in Groups :
       \/ \E p \in Persons, t \in Types : Create(g, p, t)
       \/ Remove(g)
  \/ \E c \in Sessions :
       \/ \E g \in Groups :
            \/ \E p \in Persons \cup {Keep}, t \in Types \cup {Keep} : OpenUpdate(c, g, p, t)
            \/ \E p \in Persons, r \in Roles : OpenAdd(c, g, p, r)
            \/ \E p \in Persons : OpenExpel(c, g, p)
       \/ \E t \in Types : OpenDeactivate(c, t)
       \/ CommitFields(c)
       \/ CommitLeader(c)
       \/ CommitAdd(c)
       \/ CommitExpel(c)
       \/ CommitDeactivate(c)
       \/ Rollback(c)

Spec == Init /\ [][Next]_groupVars

-----------------------------------------------------------------------------
(* Properties.                                                              *)

\* The leader a group names is a member of it with the role of leader.  Only
\* requests on one group that overlap can break it: a form saved with the
\* leader it was opened with undoes a change of leader in the group and not
\* in the memberships, and a member can be removed or given another role
\* while another request makes that person leader.
LeaderLeads == \A g \in Live \ crossed : role[g][leader[g]] = "leader"

\* A group whose type was deactivated was linked to it while that happened,
\* or afterwards: create and update look for the type, and not at is_active.
InactiveIsUnused == \A g \in Live \ late : active[type[g]]

\* What SmallGroups checks of its states.
GroupsCohere == TypeOK /\ LeaderLeads /\ InactiveIsUnused
==============================================================================
