----------------------------- MODULE PeopleProofs -----------------------------
(***************************************************************************)
(* The components of MCPeople cohere for any persons, groups, ministries,  *)
(* meetings, materials, categories and connections.                        *)
(***************************************************************************)
EXTENDS MCPeople, FiniteSetTheorems, TLAPS

\* Each part takes its own steps or rests.
LEMMA PartsMoveAlone ==
  ASSUME [AllNext]_allVars
  PROVE  /\ [Person!Next]_(Person!personVars)
         /\ [Visitor!Next]_(Visitor!visitorVars)
         /\ [Group!Next]_(Group!groupVars)
         /\ [Meeting!Next]_(Meeting!meetingVars)
         /\ [Team!Next]_(Team!teamVars)
         /\ [Material!Next]_(Material!materialVars)
         /\ [Book!Next]_(Book!categoryVars)
  BY DEF allVars, AllNext, PersonStep, VisitorStep, GroupStep, MeetingStep, TeamStep, MaterialStep, BookStep,
         personPart, visitorPart, groupPart, meetingPart, teamPart, materialPart, bookPart,
         Person!personVars, Visitor!visitorVars, Group!groupVars, Meeting!meetingVars, Team!teamVars,
         Material!materialVars, Book!categoryVars

-----------------------------------------------------------------------------
(* SmallGroups.                                                             *)

\* The marks of a group without a leader and of a field left out are no persons.
LEMMA GroupMarksApart == Group!None \notin Three /\ Group!Gone \notin Three /\ Group!Keep \notin Three
  BY MarksApart DEF Group!None, Group!Gone, Group!Keep

USE GroupMarksApart

\* The requests that decide on a group.
GroupDeciding(c) == groupRequest[c].op \in {"update", "add", "expel"}

\* What an open request decided still holds of its group unless another
\* request wrote the group meanwhile: the leader it found, that it does not
\* take the role of leader away, and that it does not expel the leader.
GroupDecided ==
  \A c \in Sessions : GroupDeciding(c) =>
    LET r == groupRequest[c]
    IN  /\ leader[r.group] # Group!None
        /\ r.group \in Group!Live \ groupCrossed =>
             /\ r.op = "update" => r.found = leader[r.group]
             /\ r.op = "add" /\ r.person = leader[r.group] => r.role = "leader"
             /\ r.op = "expel" => r.person # leader[r.group]

\* A type a request found unused is one no group has been linked to since,
\* but for those that came late.
GroupFoundUnused ==
  \A c \in Sessions : groupRequest[c].op = "deactivate" =>
    \A g \in Group!Live \ late : type[g] # groupRequest[c].type

GroupsInv == Group!GroupsCohere /\ GroupDecided /\ GroupFoundUnused

-----------------------------------------------------------------------------
LEMMA GroupInitHolds == Group!Init => GroupsInv
  BY DEF Group!Init, GroupsInv, Group!GroupsCohere, Group!TypeOK, Group!LeaderLeads, Group!InactiveIsUnused,
     GroupDecided, GroupFoundUnused,
         GroupDeciding, Group!Live, Group!Roles, Group!None, Group!Gone, Group!Idle

\* A request that writes a group another one decided on crosses it.
LEMMA GroupCrossedByWriting ==
  ASSUME Group!TypeOK, NEW c \in Sessions, NEW g \in Groups, Group!Wrote(c, g)
  PROVE  /\ groupRequest' \in [Sessions -> {Group!Idle} \cup {groupRequest[d] : d \in Sessions}]
         /\ groupRequest'[c] = Group!Idle
         /\ \A d \in Sessions \ {c} : groupRequest'[d] = groupRequest[d]
         /\ groupCrossed \subseteq groupCrossed' /\ groupCrossed' \subseteq Groups
         /\ \A d \in Sessions \ {c} : GroupDeciding(d) /\ groupRequest[d].group = g => g \in groupCrossed'
  BY DEF Group!TypeOK, Group!Wrote, Group!Contended, GroupDeciding

-----------------------------------------------------------------------------
(* The requests that only decide.                                           *)

LEMMA GroupOpenUpdateKeeps ==
  ASSUME GroupsInv, NEW c \in Sessions, NEW g \in Groups,
         NEW p \in Three \cup {Group!Keep}, NEW t \in Types \cup {Group!Keep}, Group!OpenUpdate(c, g, p, t)
  PROVE  GroupsInv'
  <1> USE DEF Group!OpenUpdate, Group!Open, Group!Live
  <1>1. Group!TypeOK'
    BY DEF GroupsInv, Group!GroupsCohere, Group!TypeOK
  <1>2. Group!LeaderLeads' /\ Group!InactiveIsUnused'
    BY DEF GroupsInv, Group!GroupsCohere, Group!LeaderLeads, Group!InactiveIsUnused
  <1>3. GroupDecided' /\ GroupFoundUnused'
    BY DEF GroupsInv, Group!GroupsCohere, Group!TypeOK, GroupDecided, GroupFoundUnused, GroupDeciding
  <1>4. QED
    BY <1>1, <1>2, <1>3 DEF GroupsInv, Group!GroupsCohere

LEMMA GroupOpenAddKeeps ==
  ASSUME GroupsInv, NEW c \in Sessions, NEW g \in Groups,
         NEW p \in Three, NEW r \in Group!Roles, Group!OpenAdd(c, g, p, r)
  PROVE  GroupsInv'
  <1> USE DEF Group!OpenAdd, Group!Open, Group!Live
  <1>1. Group!TypeOK'
    BY DEF GroupsInv, Group!GroupsCohere, Group!TypeOK
  <1>2. Group!LeaderLeads' /\ Group!InactiveIsUnused'
    BY DEF GroupsInv, Group!GroupsCohere, Group!LeaderLeads, Group!InactiveIsUnused
  <1>3. GroupDecided' /\ GroupFoundUnused'
    BY DEF GroupsInv, Group!GroupsCohere, Group!TypeOK, Group!LeaderLeads, GroupDecided, GroupFoundUnused,
       GroupDeciding
  <1>4. QED
    BY <1>1, <1>2, <1>3 DEF GroupsInv, Group!GroupsCohere

LEMMA GroupOpenExpelKeeps ==
  ASSUME GroupsInv, NEW c \in Sessions, NEW g \in Groups, NEW p \in Three, Group!OpenExpel(c, g, p)
  PROVE  GroupsInv'
  <1> USE DEF Group!OpenExpel, Group!Open, Group!Live
  <1>1. Group!TypeOK'
    BY DEF GroupsInv, Group!GroupsCohere, Group!TypeOK
  <1>2. Group!LeaderLeads' /\ Group!InactiveIsUnused'
    BY DEF GroupsInv, Group!GroupsCohere, Group!LeaderLeads, Group!InactiveIsUnused
  <1>3. GroupDecided' /\ GroupFoundUnused'
    BY DEF GroupsInv, Group!GroupsCohere, Group!TypeOK, GroupDecided, GroupFoundUnused, GroupDeciding
  <1>4. QED
    BY <1>1, <1>2, <1>3 DEF GroupsInv, Group!GroupsCohere

LEMMA GroupOpenDeactivateKeeps ==
  ASSUME GroupsInv, NEW c \in Sessions, NEW t \in Types, Group!OpenDeactivate(c, t)
  PROVE  GroupsInv'
  <1> USE DEF Group!OpenDeactivate, Group!Open, Group!Live
  <1>1. Group!TypeOK'
    BY DEF GroupsInv, Group!GroupsCohere, Group!TypeOK
  <1>2. Group!LeaderLeads' /\ Group!InactiveIsUnused'
    BY DEF GroupsInv, Group!GroupsCohere, Group!LeaderLeads, Group!InactiveIsUnused
  <1>3. GroupDecided' /\ GroupFoundUnused'
    BY DEF GroupsInv, Group!GroupsCohere, Group!TypeOK, GroupDecided, GroupFoundUnused, GroupDeciding
  <1>4. QED
    BY <1>1, <1>2, <1>3 DEF GroupsInv, Group!GroupsCohere

LEMMA GroupRollbackKeeps ==
  ASSUME GroupsInv, NEW c \in Sessions, Group!Rollback(c)
  PROVE  GroupsInv'
  <1> USE DEF Group!Rollback, Group!Live
  <1>1. Group!TypeOK'
    BY DEF GroupsInv, Group!GroupsCohere, Group!TypeOK
  <1>2. Group!LeaderLeads' /\ Group!InactiveIsUnused'
    BY DEF GroupsInv, Group!GroupsCohere, Group!LeaderLeads, Group!InactiveIsUnused
  <1>3. GroupDecided' /\ GroupFoundUnused'
    BY DEF GroupsInv, Group!GroupsCohere, Group!TypeOK, GroupDecided, GroupFoundUnused, GroupDeciding,
       Group!Idle
  <1>4. QED
    BY <1>1, <1>2, <1>3 DEF GroupsInv, Group!GroupsCohere

-----------------------------------------------------------------------------
(* Groups come and go.                                                      *)

LEMMA GroupCreateKeeps ==
  ASSUME GroupsInv, NEW g \in Groups, NEW p \in Three, NEW t \in Types, Group!Create(g, p, t)
  PROVE  GroupsInv'
  <1> USE DEF Group!Create, Group!Live
  <1>1. Group!TypeOK'
    BY DEF GroupsInv, Group!GroupsCohere, Group!TypeOK, Group!Linked, Group!Roles
  <1>2. Group!LeaderLeads'
    BY DEF GroupsInv, Group!GroupsCohere, Group!TypeOK, Group!LeaderLeads
  <1>3. Group!InactiveIsUnused'
    BY DEF GroupsInv, Group!GroupsCohere, Group!TypeOK, Group!InactiveIsUnused, Group!Linked
  <1>4. GroupDecided'
    BY DEF GroupsInv, Group!GroupsCohere, Group!TypeOK, GroupDecided, GroupDeciding
  <1>5. GroupFoundUnused'
    <2> SUFFICES ASSUME NEW c \in Sessions, groupRequest[c].op = "deactivate",
                        NEW h \in Groups, h \in Group!Live' \ late'
                 PROVE  type'[h] # groupRequest[c].type
      BY DEF GroupFoundUnused
    <2>1. CASE h = g
      <3>1. groupRequest[c] # [op |-> "deactivate", type |-> t]
        BY <2>1 DEF Group!Linked
      <3>2. groupRequest[c] \in [op : {"deactivate"}, type : Types]
        BY DEF GroupsInv, Group!GroupsCohere, Group!TypeOK, Group!Idle
      <3>3. QED
        BY <2>1, <3>1, <3>2 DEF GroupsInv, Group!GroupsCohere, Group!TypeOK
    <2>2. CASE h # g
      BY <2>2 DEF GroupsInv, Group!GroupsCohere, Group!TypeOK, GroupFoundUnused, Group!Linked
    <2>3. QED
      BY <2>1, <2>2
  <1>6. QED
    BY <1>1, <1>2, <1>3, <1>4, <1>5 DEF GroupsInv, Group!GroupsCohere

LEMMA GroupRemoveKeeps ==
  ASSUME GroupsInv, NEW g \in Groups, Group!Remove(g)
  PROVE  GroupsInv'
  <1> USE DEF Group!Remove, Group!Live
  <1>1. Group!TypeOK'
    BY DEF GroupsInv, Group!GroupsCohere, Group!TypeOK
  <1>2. Group!LeaderLeads' /\ Group!InactiveIsUnused'
    BY DEF GroupsInv, Group!GroupsCohere, Group!TypeOK, Group!LeaderLeads, Group!InactiveIsUnused
  <1>3. GroupDecided' /\ GroupFoundUnused'
    BY DEF GroupsInv, Group!GroupsCohere, Group!TypeOK, GroupDecided, GroupFoundUnused, GroupDeciding,
       Group!None, Group!Gone
  <1>4. QED
    BY <1>1, <1>2, <1>3 DEF GroupsInv, Group!GroupsCohere

-----------------------------------------------------------------------------
(* The requests that write.                                                 *)

\* Linking group g to type t keeps what is known of the types in use.
LEMMA GroupLinkedKeeps ==
  ASSUME Group!TypeOK, Group!InactiveIsUnused, GroupFoundUnused, NEW g \in Group!Live, NEW t \in Types,
         Group!Live' = Group!Live, type' = [type EXCEPT ![g] = t], late' = Group!Linked(g, t), UNCHANGED inUse,
         NEW c \in Sessions, groupRequest[c].op # "deactivate",
         \A d \in Sessions \ {c} : groupRequest'[d] = groupRequest[d], groupRequest'[c] = Group!Idle
  PROVE  Group!InactiveIsUnused' /\ GroupFoundUnused'
  <1>1. Group!InactiveIsUnused'
    BY DEF Group!TypeOK, Group!InactiveIsUnused, Group!Linked, Group!Live
  <1>2. ASSUME NEW d \in Sessions, groupRequest'[d].op = "deactivate", NEW h \in Group!Live' \ late'
        PROVE  type'[h] # groupRequest'[d].type
    <2>1. d # c /\ groupRequest'[d] = groupRequest[d]
      BY <1>2 DEF Group!Idle
    <2>2. groupRequest[d] = [op |-> "deactivate", type |-> groupRequest[d].type]
      BY <1>2, <2>1 DEF Group!TypeOK, Group!Idle
    <2>3. CASE h = g
      BY <2>1, <2>2, <2>3, <1>2 DEF Group!TypeOK, Group!Linked, Group!Live
    <2>4. CASE h # g
      BY <2>1, <2>4, <1>2 DEF Group!TypeOK, GroupFoundUnused, Group!Linked, Group!Live
    <2>5. QED
      BY <2>3, <2>4
  <1>3. QED
    BY <1>1, <1>2 DEF GroupFoundUnused

\* The types in use when a request leaves the links alone.
LEMMA GroupUnlinkedKeeps ==
  ASSUME Group!InactiveIsUnused, GroupFoundUnused, Group!Live' = Group!Live, UNCHANGED <<type, late, inUse>>,
         NEW c \in Sessions, \A d \in Sessions \ {c} : groupRequest'[d] = groupRequest[d], groupRequest'[c] = Group!Idle
  PROVE  Group!InactiveIsUnused' /\ GroupFoundUnused'
  BY DEF Group!InactiveIsUnused, GroupFoundUnused, Group!Idle

\* What update writes beside the memberships.
LEMMA GroupWriteFieldsKeeps ==
  ASSUME GroupsInv, NEW c \in Sessions, groupRequest[c].op = "update", groupRequest[c].group \in Group!Live,
         Group!WriteFields(groupRequest[c]), Group!Wrote(c, groupRequest[c].group), UNCHANGED inUse
  PROVE  /\ leader' \in [Groups -> Three \cup {Group!None, Group!Gone}]
         /\ type' \in [Groups -> Types \cup {Group!None}]
         /\ late' \subseteq Groups
         /\ Group!Live' = Group!Live
         /\ Group!InactiveIsUnused' /\ GroupFoundUnused'
  <1> DEFINE r == groupRequest[c]
  <1>1. /\ r.group \in Groups
        /\ r.leader \in Three \cup {Group!Keep}
        /\ r.type \in Types \cup {Group!Keep}
    BY DEF GroupsInv, Group!GroupsCohere, Group!TypeOK, Group!Idle
  <1>2. leader' \in [Groups -> Three \cup {Group!None, Group!Gone}] /\ Group!Live' = Group!Live
    BY <1>1 DEF GroupsInv, Group!GroupsCohere, Group!TypeOK, Group!WriteFields, Group!Live
  <1>3. type' \in [Groups -> Types \cup {Group!None}] /\ late' \subseteq Groups
    BY <1>1 DEF GroupsInv, Group!GroupsCohere, Group!TypeOK, Group!WriteFields, Group!Linked
  <1>4. groupRequest'[c] = Group!Idle /\ \A d \in Sessions \ {c} : groupRequest'[d] = groupRequest[d]
    BY <1>1, GroupCrossedByWriting DEF GroupsInv, Group!GroupsCohere
  <1>5. CASE r.type = Group!Keep
    <2>1. UNCHANGED <<type, late, inUse>>
      BY <1>5 DEF GroupsInv, Group!GroupsCohere, Group!TypeOK, Group!WriteFields
    <2>2. QED
      BY <2>1, <1>2, <1>3, <1>4, GroupUnlinkedKeeps DEF GroupsInv, Group!GroupsCohere
  <1>6. CASE r.type # Group!Keep
    <2>1. type' = [type EXCEPT ![r.group] = r.type] /\ late' = Group!Linked(r.group, r.type)
      BY <1>6 DEF Group!WriteFields
    <2>2. QED
      BY <2>1, <1>1, <1>2, <1>3, <1>4, <1>6, GroupLinkedKeeps DEF GroupsInv, Group!GroupsCohere
  <1>7. QED
    BY <1>2, <1>3, <1>5, <1>6

LEMMA GroupCommitFieldsKeeps ==
  ASSUME GroupsInv, NEW c \in Sessions, Group!CommitFields(c)
  PROVE  GroupsInv'
  <1> DEFINE r == groupRequest[c]
  <1>1. r.op = "update" /\ r.group \in Group!Live /\ r.group \in Groups /\ r.leader \in {Group!Keep, r.found}
    BY DEF Group!CommitFields, Group!Live
  <1>2. Group!WriteFields(r) /\ Group!Wrote(c, r.group) /\ UNCHANGED <<role, inUse>>
    BY DEF Group!CommitFields
  <1>3. Group!TypeOK' /\ Group!Live' = Group!Live /\ Group!InactiveIsUnused' /\ GroupFoundUnused'
    BY <1>1, <1>2, GroupWriteFieldsKeeps, GroupCrossedByWriting DEF GroupsInv, Group!GroupsCohere, Group!TypeOK
  <1>4. \A g \in Groups \ {r.group} : leader'[g] = leader[g]
    BY <1>1, <1>2 DEF GroupsInv, Group!GroupsCohere, Group!TypeOK, Group!WriteFields
  <1>5. r.group \notin groupCrossed => leader'[r.group] = leader[r.group]
    BY <1>1, <1>2 DEF GroupsInv, Group!GroupsCohere, Group!TypeOK, GroupDecided, GroupDeciding,
       Group!WriteFields
  <1>6. Group!LeaderLeads'
    BY <1>1, <1>2, <1>3, <1>4, <1>5, GroupCrossedByWriting DEF GroupsInv, Group!GroupsCohere,
       Group!LeaderLeads, Group!Live
  <1>7. leader'[r.group] # Group!None
    BY <1>1, <1>3 DEF Group!Live
  <1>8. GroupDecided'
    BY <1>1, <1>2, <1>3, <1>4, <1>5, <1>7, GroupCrossedByWriting
       DEF GroupsInv, Group!GroupsCohere, Group!TypeOK, GroupDecided, GroupDeciding, Group!Idle
  <1>9. QED
    BY <1>3, <1>6, <1>8 DEF GroupsInv, Group!GroupsCohere

LEMMA GroupCommitLeaderKeeps ==
  ASSUME GroupsInv, NEW c \in Sessions, Group!CommitLeader(c)
  PROVE  GroupsInv'
  <1> DEFINE r == groupRequest[c]
  <1>1. r.op = "update" /\ r.group \in Group!Live /\ r.group \in Groups /\ r.leader \notin {Group!Keep, r.found}
    BY DEF Group!CommitLeader, Group!Live
  <1>2. Group!WriteFields(r) /\ Group!Wrote(c, r.group) /\ UNCHANGED inUse
    BY DEF Group!CommitLeader
  <1>3. r.leader \in Three
    BY <1>1 DEF GroupsInv, Group!GroupsCohere, Group!TypeOK, Group!Idle
  <1>4. /\ role' \in [Groups -> [Three -> Group!Roles \cup {"none"}]]
        /\ role'[r.group][r.leader] = "leader"
        /\ \A g \in Groups \ {r.group} : role'[g] = role[g]
    <2>1. role' = [role EXCEPT ![r.group] = [p \in Three |->
                     CASE p = r.leader -> "leader"
                       [] p = r.found /\ role[r.group][p] # "none" -> "member"
                       [] OTHER -> role[r.group][p]]]
      BY DEF Group!CommitLeader
    <2>2. [p \in Three |->
             CASE p = r.leader -> "leader"
               [] p = r.found /\ role[r.group][p] # "none" -> "member"
               [] OTHER -> role[r.group][p]] \in [Three -> Group!Roles \cup {"none"}]
      BY <1>1 DEF GroupsInv, Group!GroupsCohere, Group!TypeOK, Group!Roles
    <2>3. QED
      BY <2>1, <2>2, <1>1, <1>3 DEF GroupsInv, Group!GroupsCohere, Group!TypeOK
  <1>5. Group!TypeOK' /\ Group!Live' = Group!Live /\ Group!InactiveIsUnused' /\ GroupFoundUnused'
    BY <1>1, <1>2, <1>4, GroupWriteFieldsKeeps, GroupCrossedByWriting DEF GroupsInv, Group!GroupsCohere,
       Group!TypeOK
  <1>6. leader'[r.group] = r.leader /\ \A g \in Groups \ {r.group} : leader'[g] = leader[g]
    BY <1>1, <1>2 DEF GroupsInv, Group!GroupsCohere, Group!TypeOK, Group!WriteFields
  <1>7. Group!LeaderLeads'
    BY <1>1, <1>2, <1>4, <1>5, <1>6, GroupCrossedByWriting DEF GroupsInv, Group!GroupsCohere,
       Group!LeaderLeads, Group!Live
  <1>8. GroupDecided'
    <2> SUFFICES ASSUME NEW d \in Sessions, GroupDeciding(d)'
        PROVE  LET q == groupRequest'[d]
               IN  /\ leader'[q.group] # Group!None
                   /\ q.group \in Group!Live \ groupCrossed' =>
                        /\ q.op = "update" => q.found = leader'[q.group]
                        /\ q.op = "add" /\ q.person = leader'[q.group] => q.role = "leader"
                        /\ q.op = "expel" => q.person # leader'[q.group]
      BY <1>5 DEF GroupDecided
    <2>1. /\ d # c /\ groupRequest'[d] = groupRequest[d] /\ GroupDeciding(d) /\ groupCrossed \subseteq groupCrossed'
          /\ groupRequest[d].group = r.group => r.group \in groupCrossed'
      BY <1>1, <1>2, GroupCrossedByWriting DEF GroupsInv, Group!GroupsCohere, GroupDeciding, Group!Idle
    <2>2. groupRequest[d].group \in Groups
      BY <2>1 DEF GroupsInv, Group!GroupsCohere, Group!TypeOK, GroupDeciding, Group!Idle
    <2>3. CASE groupRequest[d].group = r.group
      <3>1. leader'[r.group] # Group!None
        BY <1>3, <1>6
      <3>2. QED
        BY <2>1, <2>3, <3>1
    <2>4. CASE groupRequest[d].group # r.group
      <3>1. leader'[groupRequest[d].group] = leader[groupRequest[d].group]
        BY <1>6, <2>2, <2>4
      <3>2. QED
        BY <2>1, <3>1 DEF GroupsInv, GroupDecided
    <2>5. QED
      BY <2>3, <2>4
  <1>9. QED
    BY <1>5, <1>7, <1>8 DEF GroupsInv, Group!GroupsCohere

\* A request writes the role of one person in its group.
LEMMA GroupCommitRoleKeeps ==
  ASSUME GroupsInv, NEW c \in Sessions, GroupDeciding(c), NEW as \in Group!Roles \cup {"none"},
         groupRequest[c].group \in Groups, groupRequest[c].person \in Three,
         groupRequest[c].group \in Group!Live \ groupCrossed /\ groupRequest[c].person = leader[groupRequest[c].group] => as = "leader",
         role' = [role EXCEPT ![groupRequest[c].group][groupRequest[c].person] = as],
         Group!Wrote(c, groupRequest[c].group), UNCHANGED <<leader, type, inUse, late>>
  PROVE  GroupsInv'
  <1>1. Group!TypeOK' /\ Group!Live' = Group!Live
    <2>1. Group!TypeOK /\ Group!Live' = Group!Live
      BY DEF GroupsInv, Group!GroupsCohere, Group!Live
    <2>2. role' \in [Groups -> [Three -> Group!Roles \cup {"none"}]]
      BY <2>1 DEF Group!TypeOK
    <2>3. groupRequest' \in [Sessions -> {Group!Idle} \cup {groupRequest[d] : d \in Sessions}] /\ groupCrossed' \subseteq Groups
      BY <2>1, GroupCrossedByWriting
    <2> DEFINE Requests == {Group!Idle}
                 \cup [op : {"update"}, group : Groups, leader : Three \cup {Group!Keep}, type : Types \cup {Group!Keep},
                       found : Three]
                 \cup [op : {"add"}, group : Groups, person : Three, role : Group!Roles, found : BOOLEAN]
                 \cup [op : {"expel"}, group : Groups, person : Three]
                 \cup [op : {"deactivate"}, type : Types]
    <2>4. groupRequest' \in [Sessions -> Requests]
      <3>1. groupRequest \in [Sessions -> Requests] /\ Group!Idle \in Requests
        BY <2>1 DEF Group!TypeOK
      <3> HIDE DEF Requests
      <3>2. QED
        BY <2>3, <3>1
    <2>5. QED
      BY <2>1, <2>2, <2>3, <2>4 DEF Group!TypeOK
  <1>2. Group!LeaderLeads'
    <2> SUFFICES ASSUME NEW g \in Group!Live \ groupCrossed' PROVE role'[g][leader[g]] = "leader"
      BY <1>1 DEF Group!LeaderLeads
    <2>1. g \notin groupCrossed /\ g \in Groups /\ leader[g] \in Three
      BY GroupCrossedByWriting DEF GroupsInv, Group!GroupsCohere, Group!Live
    <2>2. role[g][leader[g]] = "leader"
      BY <2>1 DEF GroupsInv, Group!GroupsCohere, Group!LeaderLeads
    <2>3. QED
      BY <2>1, <2>2 DEF GroupsInv, Group!GroupsCohere, Group!TypeOK
  <1>3. Group!InactiveIsUnused' /\ GroupFoundUnused'
    BY <1>1, GroupCrossedByWriting, GroupUnlinkedKeeps DEF GroupsInv, Group!GroupsCohere
  <1>4. GroupDecided'
    BY <1>1, GroupCrossedByWriting DEF GroupsInv, Group!GroupsCohere, Group!TypeOK, GroupDecided,
       GroupDeciding, Group!Idle
  <1>5. QED
    BY <1>1, <1>2, <1>3, <1>4 DEF GroupsInv, Group!GroupsCohere

LEMMA GroupCommitAddKeeps ==
  ASSUME GroupsInv, NEW c \in Sessions, Group!CommitAdd(c)
  PROVE  GroupsInv'
  <1>1. groupRequest[c] \in [op : {"add"}, group : Groups, person : Three, role : Group!Roles, found : BOOLEAN]
    BY DEF GroupsInv, Group!GroupsCohere, Group!TypeOK, Group!CommitAdd, Group!Idle
  <1>2. QED
    BY <1>1, GroupCommitRoleKeeps DEF Group!CommitAdd, GroupsInv, GroupDecided, GroupDeciding

LEMMA GroupCommitExpelKeeps ==
  ASSUME GroupsInv, NEW c \in Sessions, Group!CommitExpel(c)
  PROVE  GroupsInv'
  <1>1. groupRequest[c] \in [op : {"expel"}, group : Groups, person : Three]
    BY DEF GroupsInv, Group!GroupsCohere, Group!TypeOK, Group!CommitExpel, Group!Idle
  <1>2. QED
    BY <1>1, GroupCommitRoleKeeps DEF Group!CommitExpel, GroupsInv, GroupDecided, GroupDeciding

LEMMA GroupCommitDeactivateKeeps ==
  ASSUME GroupsInv, NEW c \in Sessions, Group!CommitDeactivate(c)
  PROVE  GroupsInv'
  <1> USE DEF Group!CommitDeactivate, Group!Live
  <1>1. Group!TypeOK'
    BY DEF GroupsInv, Group!GroupsCohere, Group!TypeOK
  <1>2. groupRequest[c] \in [op : {"deactivate"}, type : Types]
    BY DEF GroupsInv, Group!GroupsCohere, Group!TypeOK, Group!Idle
  <1>3. Group!LeaderLeads' /\ GroupDecided'
    BY DEF GroupsInv, Group!GroupsCohere, Group!TypeOK, Group!LeaderLeads, GroupDecided, GroupDeciding,
       Group!Idle
  <1>4. Group!InactiveIsUnused' /\ GroupFoundUnused'
    BY <1>2 DEF GroupsInv, Group!GroupsCohere, Group!TypeOK, Group!InactiveIsUnused, GroupFoundUnused,
       Group!Idle
  <1>5. QED
    BY <1>1, <1>3, <1>4 DEF GroupsInv, Group!GroupsCohere

-----------------------------------------------------------------------------
LEMMA GroupNextKeeps == GroupsInv /\ [Group!Next]_(Group!groupVars) => GroupsInv'
  <1> SUFFICES ASSUME GroupsInv, [Group!Next]_(Group!groupVars) PROVE GroupsInv'
    OBVIOUS
  <1>1. CASE UNCHANGED Group!groupVars
    BY <1>1 DEF Group!groupVars, GroupsInv, Group!GroupsCohere, Group!TypeOK, Group!LeaderLeads,
       Group!InactiveIsUnused, GroupDecided,
                GroupFoundUnused, GroupDeciding, Group!Live
  <1>2. CASE Group!Next
    BY <1>2, GroupCreateKeeps, GroupRemoveKeeps, GroupOpenUpdateKeeps, GroupOpenAddKeeps,
       GroupOpenExpelKeeps, GroupOpenDeactivateKeeps,
       GroupCommitFieldsKeeps, GroupCommitLeaderKeeps, GroupCommitAddKeeps, GroupCommitExpelKeeps,
       GroupCommitDeactivateKeeps,
       GroupRollbackKeeps DEF Group!Next
  <1>3. QED
    BY <1>1, <1>2

HIDE GroupMarksApart

\* The register of groups coheres in every reachable state: the leader a group
\* names has the role of leader among its members unless two requests on the
\* group overlapped, and a group of an inactive type was linked to it late.
THEOREM GroupsStayCoherent == AllSpec => []GroupsCohere
  <1>1. AllInit => GroupsInv
    BY GroupInitHolds DEF AllInit
  <1>2. GroupsInv /\ [AllNext]_allVars => GroupsInv'
    BY PartsMoveAlone, GroupNextKeeps
  <1>3. GroupsInv => GroupsCohere
    BY DEF GroupsInv, GroupsCohere
  <1>4. QED
    BY <1>1, <1>2, <1>3, PTL DEF AllSpec

-----------------------------------------------------------------------------
(* Persons.                                                                 *)

PersonDeciding(c) == request[c].op \in {"visit", "reclassify", "edit"}

\* What an open request has read of its person still holds
PersonReadsHold(r) ==
  /\ r.op = "visit" /\ r.counted =>
       IF r.from = Person!Keep THEN person[r.on].class = "visitor" => visits[r.on] + 1 < 3
                               ELSE r.from = "visitor" /\ person[r.on].class = "visitor"
  /\ r.op = "reclassify" =>
       /\ r.from = person[r.on].class
       /\ r.to = "member" => person[r.on].dated
  /\ r.op = "edit" /\ r.to = "member" => r.date = "given" \/ person[r.on].dated

\* unless another request wrote the person meanwhile.
PersonDecided ==
  \A c \in Sessions : PersonDeciding(c) =>
    /\ person[request[c].on] # Person!NoRow
    /\ request[c].on \in Person!Live \ crossed => PersonReadsHold(request[c])

\* A person not made yet has no visits and no history.
PersonUnmade ==
  \A p \in Registered : person[p] = Person!NoRow =>
    visits[p] = 0 /\ history[p] = Person!Keep /\ p \notin broken

PersonInv == Person!PersonsCohere /\ PersonDecided /\ PersonUnmade

PersonRow == [row : {"live"}, class : Person!Classes, dated : BOOLEAN]

LEMMA PersonInitHolds == Person!Init => PersonInv
  <1> SUFFICES ASSUME Person!Init PROVE PersonInv
    OBVIOUS
  <1> USE DEF Person!Init
  <1>1. Person!TypeOK
    BY BoundsAssumption DEF Person!TypeOK
  <1>2. Person!Live = {}
    BY DEF Person!Live, Person!NoRow
  <1>3. PersonDecided /\ PersonUnmade
    BY DEF PersonDecided, PersonUnmade, PersonDeciding, Person!Idle
  <1>4. QED
    BY <1>1, <1>2, <1>3 DEF PersonInv, Person!PersonsCohere, Person!VisitorsAreNoticed, Person!HistoryIsChain,
                            Person!MembersAreDated

LEMMA PersonRows ==
  ASSUME Person!TypeOK, NEW p \in Person!Live
  PROVE  p \in Registered /\ person[p] \in PersonRow
  BY DEF Person!TypeOK, Person!Live, Person!NoRow, Person!Gone, PersonRow

\* The rows stay as they are, and request c goes on with what it has read.
LEMMA PersonGotoKeeps ==
  ASSUME PersonInv, NEW c \in Sessions, NEW next, Person!Goto(c, next), Person!TypeOK',
         PersonDecided'
  PROVE  PersonInv'
  <1> USE DEF Person!Goto
  <1>1. Person!Live' = Person!Live
    BY DEF Person!Live
  <1>2. PersonUnmade'
    BY DEF PersonInv, PersonUnmade
  <1>3. Person!VisitorsAreNoticed' /\ Person!HistoryIsChain' /\ Person!MembersAreDated'
    BY <1>1 DEF PersonInv, Person!PersonsCohere, Person!VisitorsAreNoticed, Person!HistoryIsChain,
                Person!MembersAreDated
  <1>4. QED
    BY <1>2, <1>3 DEF PersonInv, Person!PersonsCohere

LEMMA PersonOpenKeeps ==
  ASSUME PersonInv, NEW c \in Sessions, NEW p \in Registered,
         \/ \E to \in Person!Classes \cup {Person!Keep}, date \in {Person!Keep, "given", "null"} :
              Person!OpenEdit(c, p, to, date)
         \/ Person!OpenVisit(c, p)
         \/ \E to \in Person!Classes : Person!OpenReclassify(c, p, to)
  PROVE  PersonInv'
  <1> USE DEF Person!Open
  <1>1. ASSUME NEW next, Person!Open(c, next), p \in Person!Live,
               next \in [op : {"visit"}, on : {p}, counted : {FALSE}, from : {Person!Keep}]
                          \cup [op : {"reclassify"}, on : {p}, from : {person[p].class}, to : Person!Classes]
                          \cup [op : {"edit"}, on : {p}, to : Person!Classes \cup {Person!Keep},
                                date : {Person!Keep, "given", "null"}],
               next.op = "reclassify" /\ next.to = "member" => person[p].dated,
               next.op = "edit" /\ next.to = "member" => next.date = "given" \/ person[p].dated
        PROVE  PersonInv'
    <2>1. person[p].class \in Person!Classes
      BY <1>1, PersonRows DEF PersonInv, Person!PersonsCohere, PersonRow
    <2>2. Person!TypeOK'
      BY <1>1, <2>1 DEF PersonInv, Person!PersonsCohere, Person!TypeOK, Person!Goto
    <2>3. /\ request'[c] = next /\ \A d \in Sessions \ {c} : request'[d] = request[d]
          /\ UNCHANGED <<person, visits, crossed>>
      BY <1>1 DEF PersonInv, Person!PersonsCohere, Person!TypeOK, Person!Goto
    <2>4. PersonDecided'
      <3>1. PersonReadsHold(next) /\ next.on = p
        BY <1>1 DEF PersonReadsHold
      <3>2. person[p] # Person!NoRow
        BY <1>1 DEF Person!Live, Person!NoRow
      <3>3. ASSUME NEW d \in Sessions, PersonDeciding(d)'
            PROVE  /\ person[request'[d].on] # Person!NoRow
                   /\ request'[d].on \in Person!Live \ crossed => PersonReadsHold(request'[d])
        <4>1. CASE d = c
          BY <2>3, <3>1, <3>2, <4>1
        <4>2. CASE d # c
          BY <2>3, <3>3, <4>2 DEF PersonInv, PersonDecided, PersonDeciding
        <4>3. QED
          BY <4>1, <4>2
      <3>4. QED
        BY <2>3, <3>3 DEF PersonDecided, PersonReadsHold, Person!Live
    <2>5. QED
      BY <1>1, <2>2, <2>4, PersonGotoKeeps
  <1>2. ASSUME NEW to \in Person!Classes \cup {Person!Keep}, NEW date \in {Person!Keep, "given", "null"},
               Person!OpenEdit(c, p, to, date)
        PROVE  PersonInv'
    BY <1>1, <1>2 DEF Person!OpenEdit
  <1>3. CASE Person!OpenVisit(c, p)
    BY <1>1, <1>3 DEF Person!OpenVisit
  <1>4. ASSUME NEW to \in Person!Classes, Person!OpenReclassify(c, p, to)
        PROVE  PersonInv'
    BY <1>1, <1>4 DEF Person!OpenReclassify
  <1>5. QED
    BY <1>2, <1>3, <1>4

LEMMA PersonCountKeeps ==
  ASSUME PersonInv, NEW c \in Sessions, Person!Count(c)
  PROVE  PersonInv'
  <1> DEFINE p == request[c].on
             next == [request[c] EXCEPT !.counted = TRUE,
                        !.from = IF person[p].class = "visitor" /\ visits[p] + 1 >= 3 THEN "visitor"
                                 ELSE Person!Keep]
  <1>1. request[c].op = "visit" /\ ~request[c].counted /\ p \in Person!Live /\ Person!Goto(c, next)
    BY DEF Person!Count
  <1>2. request[c] \in [op : {"visit"}, on : Registered, counted : BOOLEAN,
                        from : Person!Classes \cup {Person!Keep}]
    BY <1>1 DEF PersonInv, Person!PersonsCohere, Person!TypeOK, Person!Idle
  <1>3. /\ next \in [op : {"visit"}, on : Registered, counted : BOOLEAN, from : Person!Classes \cup {Person!Keep}]
        /\ next.op = "visit" /\ next.on = p /\ next.counted
        /\ next.from = IF person[p].class = "visitor" /\ visits[p] + 1 >= 3 THEN "visitor" ELSE Person!Keep
    BY <1>2 DEF Person!Classes
  <1> HIDE DEF next
  <1>4. visits[p] \in Nat
    BY <1>1, BoundsAssumption DEF PersonInv, Person!PersonsCohere, Person!TypeOK, Person!Live
  <1>5. Person!TypeOK'
    BY <1>1, <1>3 DEF PersonInv, Person!PersonsCohere, Person!TypeOK, Person!Goto
  <1>6. /\ request'[c] = next /\ \A d \in Sessions \ {c} : request'[d] = request[d]
        /\ UNCHANGED <<person, visits, crossed>>
    BY <1>1 DEF PersonInv, Person!PersonsCohere, Person!TypeOK, Person!Goto
  <1>7. PersonDecided'
    <2>1. PersonReadsHold(next) /\ person[p] # Person!NoRow
      BY <1>1, <1>3, <1>4 DEF PersonReadsHold, Person!Keep, Person!Live, Person!NoRow
    <2>2. ASSUME NEW d \in Sessions, PersonDeciding(d)'
          PROVE  /\ person[request'[d].on] # Person!NoRow
                 /\ request'[d].on \in Person!Live \ crossed => PersonReadsHold(request'[d])
      <3>1. CASE d = c
        BY <1>3, <1>6, <2>1, <3>1
      <3>2. CASE d # c
        BY <1>6, <2>2, <3>2 DEF PersonInv, PersonDecided, PersonDeciding
      <3>3. QED
        BY <3>1, <3>2
    <2>3. QED
      BY <1>6, <2>2 DEF PersonDecided, PersonReadsHold, Person!Live
  <1>8. QED
    BY <1>1, <1>5, <1>7, PersonGotoKeeps

LEMMA PersonRollbackKeeps ==
  ASSUME PersonInv, NEW c \in Sessions, Person!Rollback(c)
  PROVE  PersonInv'
  <1> USE DEF Person!Rollback
  <1>1. Person!TypeOK'
    BY DEF PersonInv, Person!PersonsCohere, Person!TypeOK, Person!Goto
  <1>2. PersonDecided'
    BY DEF PersonInv, Person!PersonsCohere, Person!TypeOK, PersonDecided, PersonDeciding, PersonReadsHold,
       Person!Live,
           Person!Idle, Person!Goto
  <1>3. QED
    BY <1>1, <1>2, PersonGotoKeeps

LEMMA PersonCreateKeeps ==
  ASSUME PersonInv, NEW p \in Registered, NEW new \in Person!Classes, NEW dated \in BOOLEAN,
         Person!Create(p, new, dated)
  PROVE  PersonInv'
  <1> USE DEF Person!Create
  <1>1. Person!TypeOK'
    BY DEF PersonInv, Person!PersonsCohere, Person!TypeOK
  <1>2. \A q \in Registered : person'[q] = IF q = p THEN [row |-> "live", class |-> new, dated |-> dated]
                                            ELSE person[q]
    BY DEF PersonInv, Person!PersonsCohere, Person!TypeOK
  <1>3. visits[p] = 0 /\ history[p] = Person!Keep /\ p \notin broken /\ p \notin Person!Live
    BY DEF PersonInv, PersonUnmade, Person!Live, Person!NoRow
  <1>4. Person!Live' = Person!Live \cup {p}
    BY <1>2 DEF Person!Live
  <1>5. Person!VisitorsAreNoticed'
    BY <1>2, <1>3, <1>4 DEF PersonInv, Person!PersonsCohere, Person!VisitorsAreNoticed, Person!Live
  <1>6. Person!HistoryIsChain'
    BY <1>2, <1>3, <1>4 DEF PersonInv, Person!PersonsCohere, Person!HistoryIsChain, Person!Live
  <1>7. Person!MembersAreDated'
    BY <1>2, <1>3, <1>4 DEF PersonInv, Person!PersonsCohere, Person!MembersAreDated, Person!Live
  <1>8. PersonDecided'
    <2>1. person'[p] # Person!NoRow
      BY <1>2 DEF Person!NoRow
    <2>2. \A d \in Sessions : PersonDeciding(d) => request[d].on # p
      BY DEF PersonInv, PersonDecided
    <2>3. \A d \in Sessions : PersonDeciding(d) => request[d].on \in Registered
      BY DEF PersonInv, Person!PersonsCohere, Person!TypeOK, PersonDeciding, Person!Idle
    <2>4. ASSUME NEW d \in Sessions, PersonDeciding(d), request[d].on \in (Person!Live \ crossed)'
          PROVE  PersonReadsHold(request[d])'
      BY <1>2, <1>4, <2>2, <2>4 DEF PersonInv, PersonDecided, PersonReadsHold, Person!Live
    <2>5. QED
      BY <1>2, <2>2, <2>3, <2>4 DEF PersonInv, PersonDecided, PersonDeciding
  <1>9. PersonUnmade'
    <2>1. person'[p] # Person!NoRow
      BY <1>2 DEF Person!NoRow
    <2>2. QED
      BY <1>2, <2>1 DEF PersonInv, PersonUnmade
  <1>10. QED
    BY <1>1, <1>5, <1>6, <1>7, <1>8, <1>9 DEF PersonInv, Person!PersonsCohere

LEMMA PersonRemoveKeeps ==
  ASSUME PersonInv, NEW p \in Registered, Person!Remove(p)
  PROVE  PersonInv'
  <1> USE DEF Person!Remove
  <1>1. Person!TypeOK'
    BY BoundsAssumption DEF PersonInv, Person!PersonsCohere, Person!TypeOK
  <1>2. /\ \A q \in Registered : person'[q] = IF q = p THEN Person!Gone ELSE person[q]
        /\ \A q \in Registered : visits'[q] = IF q = p THEN 0 ELSE visits[q]
        /\ \A q \in Registered : history'[q] = IF q = p THEN Person!Keep ELSE history[q]
    BY DEF PersonInv, Person!PersonsCohere, Person!TypeOK
  <1>3. Person!Live' = Person!Live \ {p} /\ Person!Gone # Person!NoRow
    BY <1>2 DEF Person!Live, Person!Gone, Person!NoRow
  <1>4. Person!VisitorsAreNoticed' /\ Person!HistoryIsChain' /\ Person!MembersAreDated'
    BY <1>2, <1>3 DEF PersonInv, Person!PersonsCohere, Person!VisitorsAreNoticed, Person!HistoryIsChain,
                      Person!MembersAreDated, Person!Live
  <1>5. \A d \in Sessions : PersonDeciding(d) => request[d].on \in Registered
    BY DEF PersonInv, Person!PersonsCohere, Person!TypeOK, PersonDeciding, Person!Idle
  <1>6. PersonDecided'
    BY <1>2, <1>3, <1>5 DEF PersonInv, PersonDecided, PersonDeciding, PersonReadsHold, Person!Live
  <1>7. PersonUnmade'
    BY <1>2, <1>3 DEF PersonInv, PersonUnmade
  <1>8. QED
    BY <1>1, <1>4, <1>6, <1>7 DEF PersonInv, Person!PersonsCohere

LEMMA PersonAgeKeeps ==
  ASSUME PersonInv, NEW p \in Registered, Person!Age(p)
  PROVE  PersonInv'
  <1> USE DEF Person!Age
  <1>1. Person!TypeOK'
    BY BoundsAssumption DEF PersonInv, Person!PersonsCohere, Person!TypeOK
  <1>2. \A q \in Registered : visits'[q] = IF q = p THEN 0 ELSE visits[q]
    BY DEF PersonInv, Person!PersonsCohere, Person!TypeOK
  <1>3. Person!Live' = Person!Live
    BY DEF Person!Live
  <1>4. Person!VisitorsAreNoticed' /\ Person!HistoryIsChain' /\ Person!MembersAreDated'
    BY <1>2, <1>3 DEF PersonInv, Person!PersonsCohere, Person!VisitorsAreNoticed, Person!HistoryIsChain,
                      Person!MembersAreDated, Person!Live
  <1>5. \A d \in Sessions : PersonDeciding(d) => request[d].on \in Registered
    BY DEF PersonInv, Person!PersonsCohere, Person!TypeOK, PersonDeciding, Person!Idle
  <1>6. PersonDecided'
    BY <1>2, <1>3, <1>5 DEF PersonInv, PersonDecided, PersonDeciding, PersonReadsHold
  <1>7. PersonUnmade'
    BY <1>2 DEF PersonInv, PersonUnmade
  <1>8. QED
    BY <1>1, <1>4, <1>6, <1>7 DEF PersonInv, Person!PersonsCohere

\* A commit writes its person: what the other requests on it have read does
\* not count any more, and what they have read of others still holds.
LEMMA PersonWroteDecides ==
  ASSUME PersonInv, NEW c \in Sessions, NEW p \in Person!Live, PersonDeciding(c), request[c].on = p,
         Person!Wrote(c, p), person'[p].row = "live",
         \A q \in Registered \ {p} : person'[q] = person[q] /\ visits'[q] = visits[q]
  PROVE  /\ PersonDecided'
         /\ Person!Live' = Person!Live
         /\ crossed \subseteq crossed'
         /\ p \in Registered
         /\ request' \in [Sessions -> {Person!Idle} \cup {request[d] : d \in Sessions}]
         /\ crossed' \subseteq Registered
  <1>1. Person!Live' = Person!Live /\ p \in Registered
    BY DEF Person!Live
  <1>2. crossed \subseteq crossed' /\ crossed' \subseteq Registered
    BY <1>1 DEF Person!Wrote, PersonInv, Person!PersonsCohere, Person!TypeOK
  <1>3. /\ request' \in [Sessions -> {Person!Idle} \cup {request[d] : d \in Sessions}]
        /\ request'[c] = Person!Idle
        /\ \A d \in Sessions \ {c} : request'[d] = request[d]
    BY DEF Person!Wrote, PersonInv, Person!PersonsCohere, Person!TypeOK
  <1>4. \A d \in Sessions \ {c} : PersonDeciding(d) /\ request[d].on = p => p \in crossed'
    BY DEF Person!Wrote, Person!Contended, PersonDeciding
  <1>5. \A d \in Sessions : PersonDeciding(d) => request[d].on \in Registered
    BY DEF PersonInv, Person!PersonsCohere, Person!TypeOK, PersonDeciding, Person!Idle
  <1>6. PersonDecided'
    <2> SUFFICES ASSUME NEW d \in Sessions, PersonDeciding(d)'
                 PROVE  /\ person'[request'[d].on] # Person!NoRow
                        /\ request'[d].on \in (Person!Live \ crossed)' => PersonReadsHold(request[d])'
      BY <1>3 DEF PersonDecided, PersonDeciding, PersonReadsHold, Person!Idle
    <2>1. d # c /\ request'[d] = request[d] /\ PersonDeciding(d) /\ request[d].on \in Registered
      BY <1>3, <1>5 DEF PersonDeciding, Person!Idle
    <2>2. CASE request[d].on = p
      BY <1>4, <2>1, <2>2 DEF Person!NoRow
    <2>3. CASE request[d].on # p
      BY <1>1, <1>2, <2>1, <2>3 DEF PersonInv, PersonDecided, PersonReadsHold
    <2>4. QED
      BY <2>2, <2>3
  <1>7. QED
    BY <1>1, <1>2, <1>3, <1>6

PersonRequestsTyped ==
  request \in [Sessions -> {Person!Idle}
    \cup [op : {"visit"}, on : Registered, counted : BOOLEAN, from : Person!Classes \cup {Person!Keep}]
    \cup [op : {"reclassify"}, on : Registered, from : Person!Classes, to : Person!Classes]
    \cup [op : {"edit"}, on : Registered, to : Person!Classes \cup {Person!Keep},
          date : {Person!Keep, "given", "null"}]]

LEMMA PersonRequestsKeep ==
  ASSUME PersonInv, request' \in [Sessions -> {Person!Idle} \cup {request[d] : d \in Sessions}]
  PROVE  PersonRequestsTyped'
  <1> DEFINE Requests == {Person!Idle}
    \cup [op : {"visit"}, on : Registered, counted : BOOLEAN, from : Person!Classes \cup {Person!Keep}]
    \cup [op : {"reclassify"}, on : Registered, from : Person!Classes, to : Person!Classes]
    \cup [op : {"edit"}, on : Registered, to : Person!Classes \cup {Person!Keep},
          date : {Person!Keep, "given", "null"}]
  <1>1. request \in [Sessions -> Requests] /\ Person!Idle \in Requests
    BY DEF PersonInv, Person!PersonsCohere, Person!TypeOK
  <1>2. request' \in [Sessions -> Requests]
    <2> HIDE DEF Requests
    <2>1. QED
      BY <1>1
  <1>3. QED
    BY <1>2 DEF PersonRequestsTyped

LEMMA PersonUnmadeKept ==
  ASSUME PersonInv, NEW p \in Person!Live, person'[p].row = "live", broken' \subseteq broken \cup {p},
         \A q \in Registered \ {p} :
           person'[q] = person[q] /\ visits'[q] = visits[q] /\ history'[q] = history[q]
  PROVE  PersonUnmade'
  BY DEF PersonInv, PersonUnmade, Person!NoRow

LEMMA PersonTypes ==
  ASSUME PersonInv
  PROVE  /\ person \in [Registered -> {Person!NoRow, Person!Gone} \cup PersonRow]
         /\ visits \in [Registered -> 0..MaxVisits]
         /\ history \in [Registered -> Person!Classes \cup {Person!Keep}]
         /\ broken \subseteq Registered /\ edited \subseteq Registered
         /\ demoted \subseteq Registered /\ cleared \subseteq Registered
  BY DEF PersonInv, Person!PersonsCohere, Person!TypeOK, PersonRow

LEMMA PersonTyped ==
  ASSUME person' \in [Registered -> {Person!NoRow, Person!Gone} \cup PersonRow],
         visits' \in [Registered -> 0..MaxVisits],
         history' \in [Registered -> Person!Classes \cup {Person!Keep}],
         PersonRequestsTyped',
         crossed' \subseteq Registered, edited' \subseteq Registered, demoted' \subseteq Registered,
         cleared' \subseteq Registered, broken' \subseteq Registered
  PROVE  Person!TypeOK'
  BY DEF Person!TypeOK, PersonRow, PersonRequestsTyped

LEMMA PersonCommitEditKeeps ==
  ASSUME PersonInv, NEW c \in Sessions, Person!CommitEdit(c)
  PROVE  PersonInv'
  <1> DEFINE r == request[c]
             p == r.on
  <1>1. r.op = "edit" /\ p \in Person!Live /\ p \in Registered /\ person[p] \in PersonRow
    BY PersonRows DEF Person!CommitEdit, PersonInv, Person!PersonsCohere
  <1>2. r \in [op : {"edit"}, on : Registered, to : Person!Classes \cup {Person!Keep},
               date : {Person!Keep, "given", "null"}]
    BY <1>1 DEF PersonInv, Person!PersonsCohere, Person!TypeOK, Person!Idle
  <1> DEFINE newClass == IF r.to = Person!Keep THEN person[p].class ELSE r.to
             newDate == IF r.date = Person!Keep THEN person[p].dated ELSE r.date = "given"
             new == [row |-> "live", class |-> newClass, dated |-> newDate]
  <1>3. /\ person' = [person EXCEPT ![p] = new]
        /\ edited' = IF r.to \in {Person!Keep, person[p].class} THEN edited ELSE edited \cup {p}
        /\ demoted' = IF r.to = "visitor" THEN demoted \cup {p} ELSE demoted
        /\ cleared' = IF r.date = "null" THEN cleared \cup {p} ELSE cleared
        /\ Person!Wrote(c, p)
        /\ UNCHANGED <<visits, history, broken>>
    BY DEF Person!CommitEdit
  <1>4. newClass \in Person!Classes /\ newDate \in BOOLEAN
    BY <1>1, <1>2 DEF PersonRow
  <1>5. /\ new \in PersonRow
        /\ new.row = "live"
        /\ new.class = newClass
        /\ r.date = Person!Keep => new.dated = person[p].dated
        /\ r.date = "given" => new.dated
    BY <1>4 DEF PersonRow, Person!Keep
  <1> HIDE DEF new
  <1>6. DOMAIN person' = Registered /\ person' = [q \in Registered |-> person'[q]]
    BY <1>3 DEF PersonInv, Person!PersonsCohere, Person!TypeOK
  <1>7. \A q \in Registered : person'[q] = IF q = p THEN new ELSE person[q]
    BY <1>1, <1>3 DEF PersonInv, Person!PersonsCohere, Person!TypeOK
  <1> HIDE DEF r, p
  <1>8. /\ PersonDecided' /\ Person!Live' = Person!Live /\ crossed \subseteq crossed' /\ crossed' \subseteq Registered
        /\ request' \in [Sessions -> {Person!Idle} \cup {request[d] : d \in Sessions}]
    BY <1>1, <1>3, <1>5, <1>7, PersonWroteDecides DEF PersonDeciding, r, p
  <1>9. PersonUnmade'
    BY <1>1, <1>3, <1>5, <1>7, PersonUnmadeKept
  <1>10. Person!TypeOK'
    <2>1. person' \in [Registered -> {Person!NoRow, Person!Gone} \cup PersonRow]
      BY <1>5, <1>6, <1>7, PersonTypes
    <2>2. PersonRequestsTyped'
      BY <1>8, PersonRequestsKeep
    <2>3. edited' \subseteq Registered /\ demoted' \subseteq Registered /\ cleared' \subseteq Registered
      BY <1>1, <1>3 DEF PersonInv, Person!PersonsCohere, Person!TypeOK
    <2>4. visits' \in [Registered -> 0..MaxVisits] /\ history' \in [Registered -> Person!Classes \cup {Person!Keep}]
      BY <1>3 DEF PersonInv, Person!PersonsCohere, Person!TypeOK
    <2>5. broken' \subseteq Registered /\ crossed' \subseteq Registered
      BY <1>3, <1>8 DEF PersonInv, Person!PersonsCohere, Person!TypeOK
    <2>6. QED
      BY <2>1, <2>2, <2>3, <2>4, <2>5, PersonTyped
  <1>11. Person!VisitorsAreNoticed'
    BY <1>1, <1>3, <1>5, <1>7, <1>8 DEF PersonInv, Person!PersonsCohere, Person!VisitorsAreNoticed, Person!Live
  <1>12. Person!HistoryIsChain'
    BY <1>1, <1>3, <1>5, <1>7, <1>8 DEF PersonInv, Person!PersonsCohere, Person!HistoryIsChain, Person!Live
  <1>13. Person!MembersAreDated'
    <2> SUFFICES ASSUME NEW q \in Person!Live \ (crossed' \cup cleared'), person'[q].class = "member"
                 PROVE  person'[q].dated
      BY <1>8 DEF Person!MembersAreDated
    <2>1. CASE q # p
      BY <1>3, <1>5, <1>8, <2>1 DEF PersonInv, Person!PersonsCohere, Person!MembersAreDated, Person!Live
    <2>2. CASE q = p
      <3>1. PersonReadsHold(r)
        BY <1>1, <1>8, <2>2 DEF PersonInv, PersonDecided, PersonDeciding, r, p
      <3>2. r.date # "null" /\ r.date \in {Person!Keep, "given", "null"}
        BY <1>2, <1>3, <2>2
      <3>3. r.to = Person!Keep => person[p].dated \/ person[p].class # "member"
        BY <1>1, <1>3, <1>8, <2>2 DEF PersonInv, Person!PersonsCohere, Person!MembersAreDated
      <3>4. r.to = "member" => r.date = "given" \/ person[p].dated
        BY <1>1, <3>1 DEF PersonReadsHold, p
      <3>5. QED
        BY <1>1, <1>5, <1>7, <2>2, <3>2, <3>3, <3>4
    <2>3. QED
      BY <2>1, <2>2
  <1>14. QED
    BY <1>8, <1>9, <1>10, <1>11, <1>12, <1>13 DEF PersonInv, Person!PersonsCohere

LEMMA PersonReclassified ==
  ASSUME PersonInv, NEW p \in Person!Live, NEW from, NEW to \in Person!Classes,
         Person!Reclassified(p, from, to)
  PROVE  /\ person' \in [Registered -> {Person!NoRow, Person!Gone} \cup PersonRow]
         /\ person'[p].row = "live" /\ person'[p].class = to /\ person'[p].dated = person[p].dated
         /\ \A q \in Registered \ {p} : person'[q] = person[q] /\ history'[q] = history[q]
         /\ history' \in [Registered -> Person!Classes \cup {Person!Keep}] /\ history'[p] = to
         /\ broken' \subseteq broken \cup {p}
         /\ history[p] \in {Person!Keep, from} => broken' = broken
  <1>1. p \in Registered /\ person[p] \in PersonRow
    BY PersonRows DEF PersonInv, Person!PersonsCohere
  <1> DEFINE new == [person[p] EXCEPT !.class = to]
  <1>2. new \in PersonRow /\ new.row = "live" /\ new.class = to /\ new.dated = person[p].dated
    BY <1>1 DEF PersonRow
  <1>3. person' = [person EXCEPT ![p] = new]
    BY DEF Person!Reclassified
  <1> HIDE DEF new
  <1>4. QED
    BY <1>1, <1>2, <1>3, PersonTypes DEF Person!Reclassified

LEMMA PersonCommitReclassifyKeeps ==
  ASSUME PersonInv, NEW c \in Sessions, Person!CommitReclassify(c)
  PROVE  PersonInv'
  <1> DEFINE r == request[c]
             p == r.on
  <1>1. /\ r.op = "reclassify" /\ p \in Person!Live /\ p \in Registered
        /\ Person!Reclassified(p, r.from, r.to)
        /\ demoted' = IF r.to = "visitor" THEN demoted \cup {p} ELSE demoted
        /\ Person!Wrote(c, p)
        /\ UNCHANGED <<visits, edited, cleared>>
    BY PersonRows DEF Person!CommitReclassify, PersonInv, Person!PersonsCohere
  <1>2. r.to \in Person!Classes
    BY <1>1 DEF PersonInv, Person!PersonsCohere, Person!TypeOK, Person!Idle
  <1> HIDE DEF r, p
  <1>3. /\ person' \in [Registered -> {Person!NoRow, Person!Gone} \cup PersonRow]
        /\ person'[p].row = "live" /\ person'[p].class = r.to /\ person'[p].dated = person[p].dated
        /\ \A q \in Registered \ {p} : person'[q] = person[q] /\ history'[q] = history[q]
        /\ history' \in [Registered -> Person!Classes \cup {Person!Keep}] /\ history'[p] = r.to
        /\ broken' \subseteq broken \cup {p}
        /\ history[p] \in {Person!Keep, r.from} => broken' = broken
    BY <1>1, <1>2, PersonReclassified
  <1>4. /\ PersonDecided' /\ Person!Live' = Person!Live /\ crossed \subseteq crossed' /\ crossed' \subseteq Registered
        /\ request' \in [Sessions -> {Person!Idle} \cup {request[d] : d \in Sessions}]
    BY <1>1, <1>3, PersonWroteDecides DEF PersonDeciding, r, p
  <1>5. PersonUnmade'
    BY <1>1, <1>3, PersonUnmadeKept
  <1>6. Person!TypeOK'
    BY <1>1, <1>3, <1>4, PersonRequestsKeep, PersonTypes, PersonTyped
  <1>7. p \notin crossed => PersonReadsHold(r)
    BY <1>1 DEF PersonInv, PersonDecided, PersonDeciding, r, p
  <1>8. p \notin crossed => r.from = person[p].class /\ (r.to = "member" => person[p].dated)
    BY <1>1, <1>7 DEF PersonReadsHold, p
  <1>9. Person!VisitorsAreNoticed'
    BY <1>1, <1>3, <1>4 DEF PersonInv, Person!PersonsCohere, Person!VisitorsAreNoticed, Person!Live
  <1>10. Person!HistoryIsChain'
    BY <1>1, <1>3, <1>4, <1>8 DEF PersonInv, Person!PersonsCohere, Person!HistoryIsChain, Person!Live
  <1>11. Person!MembersAreDated'
    BY <1>1, <1>3, <1>4, <1>8 DEF PersonInv, Person!PersonsCohere, Person!MembersAreDated, Person!Live
  <1>12. QED
    BY <1>4, <1>5, <1>6, <1>9, <1>10, <1>11 DEF PersonInv, Person!PersonsCohere

LEMMA PersonCommitVisitKeeps ==
  ASSUME PersonInv, NEW c \in Sessions, Person!CommitVisit(c)
  PROVE  PersonInv'
  <1> DEFINE r == request[c]
             p == r.on
  <1>1. /\ r.op = "visit" /\ r.counted /\ p \in Person!Live /\ p \in Registered
        /\ visits[p] < MaxVisits
        /\ visits' = [visits EXCEPT ![p] = visits[p] + 1]
        /\ IF r.from = Person!Keep THEN UNCHANGED <<person, history, broken>>
                                   ELSE Person!Reclassified(p, "visitor", "attendee")
        /\ Person!Wrote(c, p)
        /\ UNCHANGED <<edited, demoted, cleared>>
    BY PersonRows DEF Person!CommitVisit, PersonInv, Person!PersonsCohere
  <1> HIDE DEF r, p
  <1>2. /\ visits' \in [Registered -> 0..MaxVisits] /\ visits'[p] = visits[p] + 1 /\ visits[p] \in Nat
        /\ \A q \in Registered \ {p} : visits'[q] = visits[q]
    BY <1>1, PersonTypes, BoundsAssumption
  <1>3. /\ person' \in [Registered -> {Person!NoRow, Person!Gone} \cup PersonRow]
        /\ history' \in [Registered -> Person!Classes \cup {Person!Keep}]
        /\ person'[p].row = "live" /\ person'[p].dated = person[p].dated
        /\ \A q \in Registered \ {p} : person'[q] = person[q] /\ history'[q] = history[q]
        /\ broken' \subseteq broken \cup {p}
    <2>1. CASE r.from = Person!Keep
      BY <1>1, <2>1, PersonTypes DEF Person!Live
    <2>2. CASE r.from # Person!Keep
      BY <1>1, <2>2, PersonReclassified DEF Person!Classes
    <2>3. QED
      BY <2>1, <2>2
  <1>4. /\ PersonDecided' /\ Person!Live' = Person!Live /\ crossed \subseteq crossed' /\ crossed' \subseteq Registered
        /\ request' \in [Sessions -> {Person!Idle} \cup {request[d] : d \in Sessions}]
    BY <1>1, <1>2, <1>3, PersonWroteDecides DEF PersonDeciding, r, p
  <1>5. PersonUnmade'
    BY <1>1, <1>2, <1>3, PersonUnmadeKept
  <1>6. Person!TypeOK'
    BY <1>1, <1>2, <1>3, <1>4, PersonRequestsKeep, PersonTypes, PersonTyped
  <1>7. p \notin crossed => PersonReadsHold(r)
    BY <1>1 DEF PersonInv, PersonDecided, PersonDeciding, r, p
  <1>8. /\ Person!VisitorsAreNoticed' /\ Person!HistoryIsChain' /\ Person!MembersAreDated'
    <2>1. CASE r.from = Person!Keep
      <3>1. p \notin crossed /\ person[p].class = "visitor" => visits[p] + 1 < 3
        BY <1>1, <1>7, <2>1 DEF PersonReadsHold, p
      <3>2. QED
        BY <1>1, <1>2, <1>4, <2>1, <3>1 DEF PersonInv, Person!PersonsCohere, Person!VisitorsAreNoticed,
           Person!HistoryIsChain, Person!MembersAreDated, Person!Live
    <2>2. CASE r.from # Person!Keep
      <3>1. p \notin crossed => person[p].class = "visitor"
        BY <1>1, <1>7, <2>2 DEF PersonReadsHold, p
      <3>2. /\ person'[p].class = "attendee" /\ history'[p] = "attendee"
            /\ history[p] \in {Person!Keep, "visitor"} => broken' = broken
        BY <1>1, <2>2, PersonReclassified DEF Person!Classes
      <3>3. QED
        BY <1>1, <1>2, <1>3, <1>4, <3>1, <3>2 DEF PersonInv, Person!PersonsCohere, Person!VisitorsAreNoticed,
           Person!HistoryIsChain, Person!MembersAreDated, Person!Live
    <2>3. QED
      BY <2>1, <2>2
  <1>9. QED
    BY <1>4, <1>5, <1>6, <1>8 DEF PersonInv, Person!PersonsCohere

-----------------------------------------------------------------------------
LEMMA PersonNextKeeps == PersonInv /\ [Person!Next]_(Person!personVars) => PersonInv'
  <1> SUFFICES ASSUME PersonInv, [Person!Next]_(Person!personVars) PROVE PersonInv'
    OBVIOUS
  <1>1. CASE UNCHANGED Person!personVars
    BY <1>1 DEF Person!personVars, PersonInv, Person!PersonsCohere, Person!TypeOK, Person!VisitorsAreNoticed,
                Person!HistoryIsChain, Person!MembersAreDated, PersonDecided, PersonDeciding, PersonReadsHold,
                PersonUnmade, Person!Live
  <1>2. CASE Person!Next
    BY <1>2, PersonCreateKeeps, PersonRemoveKeeps, PersonAgeKeeps, PersonOpenKeeps, PersonCommitEditKeeps,
       PersonCountKeeps, PersonCommitVisitKeeps, PersonCommitReclassifyKeeps,
       PersonRollbackKeeps DEF Person!Next
  <1>3. QED
    BY <1>1, <1>2

\* The register of persons coheres in every reachable state: where no two
\* requests on a person overlapped, three recent visits make no visitor, the
\* rows of history lead to the classification, and a member has a date.
THEOREM PersonsStayCoherent == AllSpec => []PersonsCohere
  <1>1. AllInit => PersonInv
    BY PersonInitHolds DEF AllInit
  <1>2. PersonInv /\ [AllNext]_allVars => PersonInv'
    BY PartsMoveAlone, PersonNextKeeps
  <1>3. PersonInv => PersonsCohere
    BY DEF PersonInv, PersonsCohere
  <1>4. QED
    BY <1>1, <1>2, <1>3, PTL DEF AllSpec

-----------------------------------------------------------------------------
(* GroupMeetings.                                                           *)

\* A meeting that is not held has nobody present, and what was removed of one
\* that was never held is nothing.
MeetingsUnheld ==
  \A m \in Meetings \ held : present[m] = {} /\ (m \notin gone => removed[m] = 0)

MeetingsInv == Meeting!MeetingsCohere /\ MeetingsUnheld

LEMMA MeetingCounts == \A S : Meeting!Cardinality(S) = Cardinality(S)
  BY DEF Meeting!Cardinality, Cardinality

LEMMA MeetingInitHolds == Meeting!Init => MeetingsInv
  BY MeetingCounts, FS_EmptySet DEF Meeting!Init, MeetingsInv, Meeting!MeetingsCohere, Meeting!TypeOK,
     Meeting!AnswersAddUp,
     MeetingsUnheld, Meeting!Idle

LEMMA MeetingListsAreFinite ==
  ASSUME Meeting!TypeOK, NEW m \in Meetings
  PROVE  IsFiniteSet(present[m]) /\ Cardinality(present[m]) \in Nat
  BY PeopleAreFinite, FS_Subset, FS_CardinalityType DEF Meeting!TypeOK

MeetingRequests ==
  {Meeting!Idle}
    \cup [op : {"create"}, persons : SUBSET Two]
    \cup [op : {"attend"}, meeting : Meetings, persons : SUBSET Two]
    \cup [op : {"leave"}, meeting : Meetings, person : Two]
    \cup [op : {"link", "unlink"}, meeting : Meetings, material : Handouts]

\* A request that opens or ends writes no list by that alone.
LEMMA MeetingRequestsKeep ==
  ASSUME MeetingsInv, NEW c \in Sessions,
         \/ \E next \in MeetingRequests : Meeting!Open(c, next)
         \/ Meeting!Close(c)
         \/ Meeting!CloseAlike(c)
  PROVE  meetingRequest' \in [Sessions -> MeetingRequests]
  <1>1. meetingRequest \in [Sessions -> MeetingRequests] /\ Meeting!Idle \in MeetingRequests
    BY DEF MeetingsInv, Meeting!MeetingsCohere, Meeting!TypeOK, MeetingRequests
  <1>2. QED
    BY <1>1 DEF Meeting!Open, Meeting!Close, Meeting!CloseAlike

LEMMA MeetingOpenKeeps ==
  ASSUME MeetingsInv, NEW c \in Sessions, NEW next \in MeetingRequests, Meeting!Open(c, next)
  PROVE  MeetingsInv'
  <1>1. meetingRequest' \in [Sessions -> MeetingRequests]
    BY MeetingRequestsKeep
  <1>2. UNCHANGED <<held, gone, present, linked, answered, removed>>
    BY DEF Meeting!Open
  <1>3. QED
    BY <1>1, <1>2 DEF MeetingsInv, Meeting!MeetingsCohere, Meeting!TypeOK, Meeting!AnswersAddUp, MeetingsUnheld,
                      MeetingRequests

LEMMA MeetingOpensKeep ==
  ASSUME MeetingsInv, NEW c \in Sessions, NEW m \in Meetings,
         \/ \E some \in SUBSET Two : Meeting!OpenCreate(c, some)
         \/ \E some \in SUBSET Two \ {{}} : Meeting!OpenAttend(c, m, some)
         \/ \E p \in Two : Meeting!OpenLeave(c, m, p)
         \/ \E x \in Handouts : Meeting!OpenLink(c, m, x) \/ Meeting!OpenUnlink(c, m, x)
  PROVE  MeetingsInv'
  BY MeetingOpenKeeps DEF Meeting!OpenCreate, Meeting!OpenAttend, Meeting!OpenLeave, Meeting!OpenLink,
     Meeting!OpenUnlink, MeetingRequests

LEMMA MeetingRollbackKeeps ==
  ASSUME MeetingsInv, NEW c \in Sessions, Meeting!Rollback(c)
  PROVE  MeetingsInv'
  <1>1. meetingRequest' \in [Sessions -> MeetingRequests]
    BY MeetingRequestsKeep DEF Meeting!Rollback
  <1>2. UNCHANGED <<held, gone, present, linked, answered, removed>>
    BY DEF Meeting!Rollback
  <1>3. QED
    BY <1>1, <1>2 DEF MeetingsInv, Meeting!MeetingsCohere, Meeting!TypeOK, Meeting!AnswersAddUp, MeetingsUnheld,
                      MeetingRequests

LEMMA MeetingCommitCreateKeeps ==
  ASSUME MeetingsInv, NEW c \in Sessions, NEW m \in Meetings, Meeting!CommitCreate(c, m)
  PROVE  MeetingsInv'
  <1> DEFINE some == meetingRequest[c].persons
  <1>1. some \in SUBSET Two
    BY DEF Meeting!CommitCreate, MeetingsInv, Meeting!MeetingsCohere, Meeting!TypeOK, Meeting!Idle
  <1>2. Cardinality(some) \in Nat
    BY <1>1, PeopleAreFinite, FS_Subset, FS_CardinalityType
  <1>3. meetingRequest' \in [Sessions -> MeetingRequests]
    BY MeetingRequestsKeep DEF Meeting!CommitCreate
  <1>4. /\ m \notin held \cup gone /\ held' = held \cup {m}
        /\ present' = [present EXCEPT ![m] = some]
        /\ answered' = [answered EXCEPT ![m] = Cardinality(some)]
        /\ UNCHANGED <<gone, linked, removed>>
    BY MeetingCounts DEF Meeting!CommitCreate
  <1> HIDE DEF some
  <1>5. Meeting!TypeOK'
    BY <1>1, <1>2, <1>3, <1>4 DEF MeetingsInv, Meeting!MeetingsCohere, Meeting!TypeOK, MeetingRequests
  <1>6. Meeting!AnswersAddUp' /\ MeetingsUnheld'
    BY <1>2, <1>4, MeetingCounts DEF MeetingsInv, Meeting!MeetingsCohere, Meeting!TypeOK, Meeting!AnswersAddUp,
       MeetingsUnheld
  <1>7. QED
    BY <1>5, <1>6 DEF MeetingsInv, Meeting!MeetingsCohere

LEMMA MeetingCommitAttendKeeps ==
  ASSUME MeetingsInv, NEW c \in Sessions, Meeting!CommitAttend(c)
  PROVE  MeetingsInv'
  <1> DEFINE m == meetingRequest[c].meeting
             some == meetingRequest[c].persons
             fresh == some \ present[m]
  <1>1. m \in held /\ m \in Meetings /\ some \in SUBSET Two
    BY DEF Meeting!CommitAttend, MeetingsInv, Meeting!MeetingsCohere, Meeting!TypeOK, Meeting!Idle
  <1>2. /\ present' = [present EXCEPT ![m] = present[m] \cup some]
        /\ answered' = [answered EXCEPT ![m] = answered[m] + Cardinality(fresh)]
        /\ UNCHANGED <<held, gone, linked, removed>>
    BY MeetingCounts DEF Meeting!CommitAttend
  <1>3. meetingRequest' \in [Sessions -> MeetingRequests]
    BY MeetingRequestsKeep DEF Meeting!CommitAttend
  <1>4. /\ IsFiniteSet(present[m]) /\ IsFiniteSet(fresh) /\ Cardinality(fresh) \in Nat
        /\ present[m] \cap fresh = {} /\ present[m] \cup some = present[m] \cup fresh
    BY <1>1, PeopleAreFinite, FS_Subset, FS_CardinalityType, MeetingListsAreFinite DEF MeetingsInv,
       Meeting!MeetingsCohere
  <1>5. Cardinality(present[m] \cup some) = Cardinality(present[m]) + Cardinality(fresh)
    <2>1. Cardinality(present[m] \cup fresh) =
            Cardinality(present[m]) + Cardinality(fresh) - Cardinality(present[m] \cap fresh)
      BY <1>4, FS_Union
    <2>2. Cardinality(present[m] \cap fresh) = 0 /\ Cardinality(present[m]) \in Nat
      BY <1>4, FS_EmptySet, FS_CardinalityType
    <2>3. QED
      BY <1>4, <2>1, <2>2
  <1> HIDE DEF m, some, fresh
  <1>6. Meeting!TypeOK'
    BY <1>1, <1>2, <1>3, <1>4 DEF MeetingsInv, Meeting!MeetingsCohere, Meeting!TypeOK, MeetingRequests
  <1>7. Meeting!AnswersAddUp'
    <2>1. Cardinality(present[m]) \in Nat /\ answered[m] \in Nat /\ removed[m] \in Nat
      BY <1>1, MeetingListsAreFinite DEF MeetingsInv, Meeting!MeetingsCohere, Meeting!TypeOK
    <2>2. answered[m] = Cardinality(present[m]) + removed[m]
      BY <1>1, MeetingCounts DEF MeetingsInv, Meeting!MeetingsCohere, Meeting!AnswersAddUp
    <2>3. /\ present'[m] = present[m] \cup some /\ answered'[m] = answered[m] + Cardinality(fresh)
          /\ \A n \in Meetings \ {m} : present'[n] = present[n] /\ answered'[n] = answered[n]
      BY <1>1, <1>2 DEF MeetingsInv, Meeting!MeetingsCohere, Meeting!TypeOK
    <2>4. answered'[m] = Cardinality(present'[m]) + removed'[m]
      <3>1. Cardinality(present'[m]) = Cardinality(present[m]) + Cardinality(fresh) /\ removed'[m] = removed[m]
        BY <1>2, <1>5, <2>3
      <3>2. QED
        BY <1>4, <2>1, <2>2, <2>3, <3>1
    <2>5. ASSUME NEW n \in held, n # m PROVE answered'[n] = Cardinality(present'[n]) + removed'[n]
      BY <1>2, <2>3, <2>5, MeetingCounts DEF MeetingsInv, Meeting!MeetingsCohere, Meeting!AnswersAddUp,
         Meeting!TypeOK
    <2>6. QED
      BY <1>2, <2>4, <2>5, MeetingCounts DEF Meeting!AnswersAddUp
  <1>8. MeetingsUnheld'
    BY <1>1, <1>2 DEF MeetingsInv, Meeting!MeetingsCohere, Meeting!TypeOK, MeetingsUnheld
  <1>9. QED
    BY <1>6, <1>7, <1>8 DEF MeetingsInv, Meeting!MeetingsCohere

LEMMA MeetingCommitLeaveKeeps ==
  ASSUME MeetingsInv, NEW c \in Sessions, Meeting!CommitLeave(c)
  PROVE  MeetingsInv'
  <1> DEFINE m == meetingRequest[c].meeting
             p == meetingRequest[c].person
  <1>1. m \in Meetings /\ p \in Two /\ p \in present[m]
    BY DEF Meeting!CommitLeave, MeetingsInv, Meeting!MeetingsCohere, Meeting!TypeOK, Meeting!Idle
  <1>2. /\ present' = [present EXCEPT ![m] = present[m] \ {p}]
        /\ removed' = [removed EXCEPT ![m] = removed[m] + 1]
        /\ UNCHANGED <<held, gone, linked, answered>>
    BY DEF Meeting!CommitLeave
  <1>3. meetingRequest' \in [Sessions -> MeetingRequests]
    BY MeetingRequestsKeep DEF Meeting!CommitLeave
  <1> HIDE DEF m, p
  <1>4. m \in held
    BY <1>1 DEF MeetingsInv, MeetingsUnheld
  <1>5. /\ Cardinality(present[m]) \in Nat
        /\ Cardinality(present[m] \ {p}) = Cardinality(present[m]) - 1
    BY <1>1, MeetingListsAreFinite, FS_RemoveElement DEF MeetingsInv, Meeting!MeetingsCohere
  <1>6. Meeting!TypeOK'
    BY <1>1, <1>2, <1>3 DEF MeetingsInv, Meeting!MeetingsCohere, Meeting!TypeOK, MeetingRequests
  <1>7. Meeting!AnswersAddUp'
    <2>1. answered[m] \in Nat /\ removed[m] \in Nat
      BY <1>1 DEF MeetingsInv, Meeting!MeetingsCohere, Meeting!TypeOK
    <2>2. answered[m] = Cardinality(present[m]) + removed[m]
      BY <1>4, MeetingCounts DEF MeetingsInv, Meeting!MeetingsCohere, Meeting!AnswersAddUp
    <2>3. /\ present'[m] = present[m] \ {p} /\ removed'[m] = removed[m] + 1
          /\ \A n \in Meetings \ {m} : present'[n] = present[n] /\ removed'[n] = removed[n]
      BY <1>1, <1>2 DEF MeetingsInv, Meeting!MeetingsCohere, Meeting!TypeOK
    <2>4. answered'[m] = Cardinality(present'[m]) + removed'[m]
      <3>1. Cardinality(present'[m]) = Cardinality(present[m]) - 1 /\ answered'[m] = answered[m]
        BY <1>2, <1>5, <2>3
      <3>2. QED
        BY <1>5, <2>1, <2>2, <2>3, <3>1
    <2>5. ASSUME NEW n \in held, n # m PROVE answered'[n] = Cardinality(present'[n]) + removed'[n]
      BY <1>2, <2>3, <2>5, MeetingCounts DEF MeetingsInv, Meeting!MeetingsCohere, Meeting!AnswersAddUp,
         Meeting!TypeOK
    <2>6. QED
      BY <1>2, <2>4, <2>5, MeetingCounts DEF Meeting!AnswersAddUp
  <1>8. MeetingsUnheld'
    BY <1>1, <1>2, <1>4 DEF MeetingsInv, Meeting!MeetingsCohere, Meeting!TypeOK, MeetingsUnheld
  <1>9. QED
    BY <1>6, <1>7, <1>8 DEF MeetingsInv, Meeting!MeetingsCohere

LEMMA MeetingCommitLinksKeep ==
  ASSUME MeetingsInv, NEW c \in Sessions, Meeting!CommitLink(c) \/ Meeting!CommitUnlink(c)
  PROVE  MeetingsInv'
  <1>1. meetingRequest' \in [Sessions -> MeetingRequests]
    BY MeetingRequestsKeep DEF Meeting!CommitLink, Meeting!CommitUnlink
  <1>2. UNCHANGED <<held, gone, present, answered, removed>>
    BY DEF Meeting!CommitLink, Meeting!CommitUnlink
  <1>3. linked' \in [Meetings -> SUBSET Handouts]
    BY DEF Meeting!CommitLink, Meeting!CommitUnlink, MeetingsInv, Meeting!MeetingsCohere, Meeting!TypeOK,
       Meeting!Idle
  <1>4. QED
    BY <1>1, <1>2, <1>3 DEF MeetingsInv, Meeting!MeetingsCohere, Meeting!TypeOK, Meeting!AnswersAddUp,
       MeetingsUnheld,
                            MeetingRequests

LEMMA MeetingGroupRemovedKeeps ==
  ASSUME MeetingsInv, Meeting!GroupRemoved
  PROVE  MeetingsInv'
  BY DEF Meeting!GroupRemoved, MeetingsInv, Meeting!MeetingsCohere, Meeting!TypeOK, Meeting!AnswersAddUp,
     MeetingsUnheld

LEMMA MeetingNextKeeps == MeetingsInv /\ [Meeting!Next]_(Meeting!meetingVars) => MeetingsInv'
  <1> SUFFICES ASSUME MeetingsInv, [Meeting!Next]_(Meeting!meetingVars) PROVE MeetingsInv'
    OBVIOUS
  <1>1. CASE UNCHANGED Meeting!meetingVars
    BY <1>1 DEF Meeting!meetingVars, MeetingsInv, Meeting!MeetingsCohere, Meeting!TypeOK, Meeting!AnswersAddUp,
                MeetingsUnheld
  <1>2. CASE Meeting!Next
    <2>1. ASSUME NEW c \in Sessions, NEW some \in SUBSET Two, Meeting!OpenCreate(c, some) PROVE MeetingsInv'
      BY <2>1, MeetingOpenKeeps DEF Meeting!OpenCreate, MeetingRequests
    <2>2. QED
      BY <1>2, <2>1, MeetingOpensKeep, MeetingRollbackKeeps, MeetingCommitCreateKeeps, MeetingCommitAttendKeeps,
         MeetingCommitLeaveKeeps, MeetingCommitLinksKeep, MeetingGroupRemovedKeeps DEF Meeting!Next
  <1>3. QED
    BY <1>1, <1>2

\* The lists of the meetings cohere in every reachable state: what the answers
\* said was added and removed is what the list has, whatever the order of the
\* requests.
THEOREM MeetingsStayCoherent == AllSpec => []MeetingsCohere
  <1>1. AllInit => MeetingsInv
    BY MeetingInitHolds DEF AllInit
  <1>2. MeetingsInv /\ [AllNext]_allVars => MeetingsInv'
    BY PartsMoveAlone, MeetingNextKeeps
  <1>3. MeetingsInv => MeetingsCohere
    BY DEF MeetingsInv, MeetingsCohere
  <1>4. QED
    BY <1>1, <1>2, <1>3, PTL DEF AllSpec

-----------------------------------------------------------------------------
(* Categories.                                                              *)

LEMMA BookMarks == /\ Book!None \notin Rows \cup Cats /\ Book!Keep \notin Rows \cup Cats
                   /\ Book!None # Book!Keep
  BY BookMarksApart DEF Book!None, Book!Keep

\* What an operation asks for.
BookAsked(q) ==
  /\ q.op \in {"book", "change"} => q.category \in Cats /\ q.type \in Book!Kinds
  /\ q.op = "add" => q.type \in Book!Kinds
  /\ q.op = "drop" => q.category \in Cats
  /\ q.op = "edit" => q.row \in Rows /\ q.category \in Cats \cup {Book!Keep}

\* What a request found holds when it commits, but for what another request
\* wrote meanwhile: then it is stale.
BookFound(q) ==
  /\ q.category \in Cats => kind[q.category] # Book!Unmade
  /\ q.row \in Rows => rowType[q.row] # Book!Unmade
  /\ ~q.stale =>
       /\ q.op = "book" => kind[q.category] = q.type
       /\ q.op = "edit" /\ q.category # Book!Keep /\ q.row \in Book!LiveRows =>
            kind[q.category] = IF q.type = Book!Keep THEN rowType[q.row] ELSE q.type
       /\ q.op = "change" => q.type = kind[q.category] \/ Book!RowsOf(q.category) = {}

\* A row has the type of its category unless it is excused.
BookRowsAgree == \A r \in Book!LiveRows \ excused : kind[category[r]] = rowType[r]

BooksInv ==
  /\ Book!TypeOK
  /\ \A c \in Sessions : BookAsked(bookRequest[c]) /\ BookFound(bookRequest[c])
  /\ BookRowsAgree

LEMMA BookInitHolds == Book!Init => BooksInv
  <1> SUFFICES ASSUME Book!Init PROVE BooksInv
    OBVIOUS
  <1>1. Book!LiveRows = {}
    BY DEF Book!Init, Book!LiveRows, Book!Unmade, Book!Kinds
  <1>2. Book!TypeOK
    BY <1>1 DEF Book!Init, Book!TypeOK, Book!Idle, Book!Kinds
  <1>3. QED
    BY <1>1, <1>2, BookMarks DEF Book!Init, BooksInv, BookAsked, BookFound, BookRowsAgree, Book!Idle

\* The reports draw the same line because the rows agree with their categories.
LEMMA BookReports == BooksInv => Book!BooksCohere
  <1> SUFFICES ASSUME BooksInv PROVE Book!ReportsAgree
    BY DEF BooksInv, Book!BooksCohere
  <1>1. \A r \in Book!LiveRows :
          /\ kind[category[r]] \in Book!Kinds /\ rowType[r] \in Book!Kinds
          /\ r \notin excused => kind[category[r]] = rowType[r]
    BY DEF BooksInv, BookRowsAgree, Book!TypeOK, Book!LiveRows, Book!LiveCats
  <1>2. ASSUME NEW first, NEW last
        PROVE  /\ Book!Revenue(first, last) \ excused = {r \in Book!In(first, last) : rowType[r] = "income"} \ excused
               /\ Book!Expenses(first, last) \ excused = {r \in Book!In(first, last) : rowType[r] = "expense"} \ excused
    BY <1>1 DEF Book!Revenue, Book!Expenses, Book!In, Book!Kinds
  <1>3. /\ Book!Revenue(MonthStart, Now) \ excused = Book!MonthOf("income") \ excused
        /\ Book!Expenses(MonthStart, Now) \ excused = Book!MonthOf("expense") \ excused
    BY <1>2 DEF Book!MonthOf
  <1> DEFINE first == Book!PreviousFirst(MonthStart, MonthStart + MonthLength - 1)
             last  == Book!PreviousLast(MonthStart, MonthStart + MonthLength - 1)
  <1>4. first = MonthStart - MonthLength /\ last = MonthStart - 1
    BY CalendarAssumption DEF Book!PreviousFirst, Book!PreviousLast
  <1>5. Book!Revenue(first, last) \ excused = Book!LastMonthOf("income") \ excused
    BY <1>2, <1>4 DEF Book!LastMonthOf
  <1>6. first..last \subseteq (MonthStart - 3 * MonthLength)..(MonthStart - 1)
    BY <1>4, CalendarAssumption
  <1>7. Book!Revenue(first, last) \ excused \subseteq Book!History
    BY <1>2, <1>6 DEF Book!History, Book!In
  <1>8. \A k \in Book!TopCategories : kind[k] = "income" \/ Book!RowsOf(k) \cap excused # {}
    BY <1>1 DEF Book!TopCategories, Book!RowsOf
  <1>9. QED
    BY <1>3, <1>5, <1>7, <1>8 DEF Book!ReportsAgree

\* Neither a request that opens with what it found nor one that is rolled back
\* writes a row.
LEMMA BookRequestKeeps ==
  ASSUME BooksInv, NEW c \in Sessions, NEW next,
         bookRequest' = [bookRequest EXCEPT ![c] = next], UNCHANGED <<kind, rowType, category, excused>>,
         next \in [op : {"idle", "book", "edit", "add", "change", "drop"}, row : Rows \cup {Book!None},
                   category : Cats \cup {Book!None, Book!Keep}, type : Book!Kinds \cup {Book!Keep}, stale : BOOLEAN],
         BookAsked(next), BookFound(next)
  PROVE  BooksInv'
  <1>1. Book!LiveRows' = Book!LiveRows /\ Book!LiveCats' = Book!LiveCats
    BY DEF Book!LiveRows, Book!LiveCats
  <1>2. Book!TypeOK'
    BY <1>1 DEF BooksInv, Book!TypeOK
  <1>3. bookRequest'[c] = next /\ \A d \in Sessions \ {c} : bookRequest'[d] = bookRequest[d]
    BY DEF BooksInv, Book!TypeOK
  <1>4. ASSUME NEW d \in Sessions PROVE (BookAsked(bookRequest[d]) /\ BookFound(bookRequest[d]))'
    <2>1. CASE d = c
      BY <1>1, <1>3, <2>1 DEF BookAsked, BookFound, Book!RowsOf
    <2>2. CASE d # c
      BY <1>1, <1>3, <2>2 DEF BooksInv, BookAsked, BookFound, Book!RowsOf
    <2>3. QED
      BY <2>1, <2>2
  <1>5. BookRowsAgree'
    BY <1>1 DEF BooksInv, BookRowsAgree
  <1>6. QED
    BY <1>2, <1>4, <1>5 DEF BooksInv

LEMMA BookOpensKeep ==
  ASSUME BooksInv, NEW c \in Sessions,
         \/ \E k \in Cats, t \in Book!Kinds : Book!OpenBook(c, k, t) \/ Book!OpenChange(c, k, t)
         \/ \E r \in Rows, k \in Cats \cup {Book!Keep}, t \in Book!Kinds \cup {Book!Keep} :
              Book!OpenEdit(c, r, k, t)
         \/ \E t \in Book!Kinds : Book!OpenAdd(c, t)
         \/ \E k \in Cats : Book!OpenDrop(c, k)
         \/ Book!Rollback(c)
  PROVE  BooksInv'
  <1> USE DEF Book!Open, Book!Idle, BookAsked, BookFound
  <1>1. ASSUME NEW k \in Cats, NEW t \in Book!Kinds, Book!OpenBook(c, k, t) \/ Book!OpenChange(c, k, t)
        PROVE  BooksInv'
    BY <1>1, BookRequestKeeps, BookMarks DEF Book!OpenBook, Book!OpenChange, Book!LiveCats, Book!Kinds,
       Book!Unmade
  <1>2. ASSUME NEW r \in Rows, NEW k \in Cats \cup {Book!Keep}, NEW t \in Book!Kinds \cup {Book!Keep},
               Book!OpenEdit(c, r, k, t)
        PROVE  BooksInv'
    BY <1>2, BookRequestKeeps, BookMarks DEF Book!OpenEdit, Book!LiveCats, Book!LiveRows, Book!Kinds,
       Book!Unmade
  <1>3. ASSUME NEW t \in Book!Kinds, Book!OpenAdd(c, t)
        PROVE  BooksInv'
    BY <1>3, BookRequestKeeps, BookMarks DEF Book!OpenAdd
  <1>4. ASSUME NEW k \in Cats, Book!OpenDrop(c, k)
        PROVE  BooksInv'
    BY <1>4, BookRequestKeeps, BookMarks DEF Book!OpenDrop, Book!LiveCats, Book!Kinds, Book!Unmade
  <1>5. CASE Book!Rollback(c)
    BY <1>5, BookRequestKeeps, BookMarks DEF Book!Rollback
  <1>6. QED
    BY <1>1, <1>2, <1>3, <1>4, <1>5

LEMMA BookRemoveRowKeeps ==
  ASSUME BooksInv, NEW r \in Rows, Book!RemoveRow(r)
  PROVE  BooksInv'
  <1>1. Book!LiveRows' = Book!LiveRows \ {r} /\ Book!LiveCats' = Book!LiveCats
    BY DEF BooksInv, Book!TypeOK, Book!RemoveRow, Book!LiveRows, Book!LiveCats, Book!Gone, Book!Kinds
  <1>2. \A q \in Rows : rowType'[q] = IF q = r THEN Book!Gone ELSE rowType[q]
    BY DEF BooksInv, Book!TypeOK, Book!RemoveRow
  <1>3. Book!TypeOK'
    BY <1>1 DEF BooksInv, Book!TypeOK, Book!RemoveRow
  <1>4. ASSUME NEW c \in Sessions PROVE BookFound(bookRequest[c])'
    BY <1>1, <1>2 DEF BooksInv, BookFound, Book!RowsOf, Book!RemoveRow, Book!Gone, Book!Unmade
  <1>5. BookRowsAgree'
    BY <1>1, <1>2 DEF BooksInv, BookRowsAgree, Book!RemoveRow
  <1>6. QED
    BY <1>3, <1>4, <1>5 DEF BooksInv, BookAsked, Book!RemoveRow

\* Request c ends.  It wrote only what it had read, and what it made: then what
\* the others found still holds unless they are stale now.
LEMMA BookCloseKeeps ==
  ASSUME BooksInv, NEW c \in Sessions, NEW written, NEW alone, Book!Close(c, written, alone),
         \A k \in Cats : kind[k] # Book!Unmade =>
           kind'[k] # Book!Unmade /\ (k \notin Book!Read(bookRequest[c]) => kind'[k] = kind[k]),
         \A r \in Rows : rowType[r] # Book!Unmade =>
           rowType'[r] # Book!Unmade /\ (r \notin Book!Read(bookRequest[c]) => rowType'[r] = rowType[r]),
         \A k \in Cats \ Book!Read(bookRequest[c]) : Book!RowsOf(k)' \subseteq Book!RowsOf(k)
  PROVE  /\ bookRequest' \in [Sessions -> [op : {"idle", "book", "edit", "add", "change", "drop"},
              row : Rows \cup {Book!None}, category : Cats \cup {Book!None, Book!Keep},
              type : Book!Kinds \cup {Book!Keep}, stale : BOOLEAN]]
         /\ \A d \in Sessions : (BookAsked(bookRequest[d]) /\ BookFound(bookRequest[d]))'
  <1> DEFINE Requests == [op : {"idle", "book", "edit", "add", "change", "drop"},
               row : Rows \cup {Book!None}, category : Cats \cup {Book!None, Book!Keep},
               type : Book!Kinds \cup {Book!Keep}, stale : BOOLEAN]
             meets(d) == Book!Read(bookRequest[c]) \cap Book!Read(bookRequest[d]) # {}
             stale(d) == bookRequest[d].stale \/ meets(d)
  <1>1. bookRequest \in [Sessions -> Requests] /\ Book!Idle \in Requests
    BY DEF BooksInv, Book!TypeOK, Book!Idle
  <1>2. bookRequest' = [d \in Sessions |->
          IF d = c THEN Book!Idle ELSE [bookRequest[d] EXCEPT !.stale = stale(d)]]
    BY DEF Book!Close
  <1>3. ASSUME NEW d \in Sessions, d # c
        PROVE  /\ bookRequest'[d] \in Requests
               /\ bookRequest'[d].op = bookRequest[d].op /\ bookRequest'[d].row = bookRequest[d].row
               /\ bookRequest'[d].category = bookRequest[d].category
               /\ bookRequest'[d].type = bookRequest[d].type
               /\ ~bookRequest'[d].stale => ~bookRequest[d].stale /\ ~meets(d)
    <2>1. stale(d) \in BOOLEAN /\ (~stale(d) => ~bookRequest[d].stale /\ ~meets(d))
      BY <1>1
    <2> HIDE DEF stale, meets
    <2>2. QED
      BY <1>1, <1>2, <1>3, <2>1
  <1>4. bookRequest' \in [Sessions -> Requests]
    <2>1. \A d \in Sessions : bookRequest'[d] \in Requests
      BY <1>1, <1>2, <1>3
    <2>2. QED
      BY <1>2, <2>1
  <1>5. ASSUME NEW d \in Sessions PROVE (BookAsked(bookRequest[d]) /\ BookFound(bookRequest[d]))'
    <2>1. CASE d = c
      BY <1>2, <2>1, BookMarks DEF BookAsked, BookFound, Book!Idle
    <2>2. CASE d # c
      <3> DEFINE q == bookRequest[d]
                 R == Book!Read(bookRequest[c])
      <3>1. BookAsked(q) /\ BookFound(q)
        BY DEF BooksInv
      <3>2. BookAsked(bookRequest[d])'
        BY <1>3, <2>2, <3>1 DEF BookAsked
      <3>3. (q.category \in Cats => kind'[q.category] # Book!Unmade) /\ (q.row \in Rows => rowType'[q.row] # Book!Unmade)
        BY <3>1 DEF BookFound
      <3>4. ASSUME ~bookRequest'[d].stale
            PROVE  /\ ~q.stale
                   /\ q.category \in Cats => q.category \notin R /\ kind'[q.category] = kind[q.category]
                   /\ q.row \in Rows => q.row \notin R /\ rowType'[q.row] = rowType[q.row]
        <4>1. ~q.stale /\ ~meets(d)
          BY <1>3, <2>2, <3>4
        <4>2. /\ q.category \in Cats => q.category \in Book!Read(q)
              /\ q.row \in Rows => q.row \in Book!Read(q)
          BY BookMarks DEF Book!Read
        <4>3. QED
          BY <3>1, <4>1, <4>2 DEF BookFound
      <3> HIDE DEF R
      <3>5. BookFound(bookRequest[d])'
        <4>1. ASSUME ~bookRequest'[d].stale, q.op = "book" PROVE kind'[q.category] = q.type
          BY <3>1, <3>4, <4>1 DEF BookFound, BookAsked
        <4>2. ASSUME ~bookRequest'[d].stale, q.op = "edit", q.category # Book!Keep, q.row \in Book!LiveRows'
              PROVE  kind'[q.category] = IF q.type = Book!Keep THEN rowType'[q.row] ELSE q.type
          BY <3>1, <3>4, <4>2 DEF BookFound, BookAsked, Book!LiveRows
        <4>3. ASSUME ~bookRequest'[d].stale, q.op = "change"
              PROVE  q.type = kind'[q.category] \/ Book!RowsOf(bookRequest[d].category)' = {}
          BY <1>3, <2>2, <3>1, <3>4, <4>3 DEF BookFound, BookAsked, R
        <4>4. /\ bookRequest'[d].op = q.op /\ bookRequest'[d].row = q.row
              /\ bookRequest'[d].category = q.category /\ bookRequest'[d].type = q.type
          BY <1>3, <2>2
        <4> HIDE DEF q
        <4>5. QED
          BY <3>3, <4>1, <4>2, <4>3, <4>4 DEF BookFound
      <3>6. QED
        BY <3>2, <3>5
    <2>3. QED
      BY <2>1, <2>2
  <1>6. QED
    BY <1>4, <1>5

LEMMA BookCommitBookKeeps ==
  ASSUME BooksInv, NEW c \in Sessions, NEW r \in Rows, Book!CommitBook(c, r)
  PROVE  BooksInv'
  <1> DEFINE q == bookRequest[c]
  <1>1. /\ q.op = "book" /\ rowType[r] = Book!Unmade /\ q.category \in Book!LiveCats
        /\ rowType' = [rowType EXCEPT ![r] = q.type]
        /\ category' = [category EXCEPT ![r] = q.category]
        /\ Book!Close(c, {r}, {}) /\ kind' = kind
    BY DEF Book!CommitBook
  <1>2. BookAsked(q) /\ BookFound(q)
    BY DEF BooksInv
  <1>3. q.category \in Cats /\ q.type \in Book!Kinds /\ (~q.stale => kind[q.category] = q.type)
    BY <1>1, <1>2 DEF BookAsked, BookFound
  <1>4. q.category \in Book!Read(q)
    BY <1>3, BookMarks DEF Book!Read
  <1>5. excused' = excused \cup (IF q.stale THEN {r} ELSE {})
    BY <1>1 DEF Book!Close
  <1> HIDE DEF q
  <1>6. /\ \A s \in Rows : rowType'[s] = IF s = r THEN q.type ELSE rowType[s]
        /\ \A s \in Rows : category'[s] = IF s = r THEN q.category ELSE category[s]
    BY <1>1 DEF BooksInv, Book!TypeOK
  <1>7. Book!LiveRows' = Book!LiveRows \cup {r} /\ Book!LiveCats' = Book!LiveCats
    BY <1>1, <1>3, <1>6 DEF Book!LiveRows, Book!LiveCats
  <1>8. \A k \in Cats \ Book!Read(q) : Book!RowsOf(k)' \subseteq Book!RowsOf(k)
    BY <1>4, <1>6, <1>7 DEF Book!RowsOf, Book!LiveRows
  <1>9. /\ bookRequest' \in [Sessions -> [op : {"idle", "book", "edit", "add", "change", "drop"},
             row : Rows \cup {Book!None}, category : Cats \cup {Book!None, Book!Keep},
             type : Book!Kinds \cup {Book!Keep}, stale : BOOLEAN]]
        /\ \A d \in Sessions : (BookAsked(bookRequest[d]) /\ BookFound(bookRequest[d]))'
    BY <1>1, <1>6, <1>8, BookCloseKeeps DEF q
  <1>10. Book!TypeOK'
    BY <1>1, <1>3, <1>5, <1>6, <1>7, <1>9 DEF BooksInv, Book!TypeOK
  <1>11. BookRowsAgree'
    BY <1>1, <1>3, <1>5, <1>6, <1>7 DEF BooksInv, BookRowsAgree, Book!LiveRows
  <1>12. QED
    BY <1>9, <1>10, <1>11 DEF BooksInv

LEMMA BookCommitEditKeeps ==
  ASSUME BooksInv, NEW c \in Sessions, Book!CommitEdit(c)
  PROVE  BooksInv'
  <1> DEFINE q == bookRequest[c]
             r == q.row
             newType == IF q.type = Book!Keep THEN rowType[r] ELSE q.type
             newCategory == IF q.category = Book!Keep THEN category[r] ELSE q.category
             alone == IF q.type # Book!Keep /\ category' = category THEN {r} ELSE {}
  <1>1. /\ q.op = "edit" /\ r \in Book!LiveRows /\ r \in Rows
        /\ q.category = Book!Keep \/ q.category \in Book!LiveCats
        /\ rowType' = [rowType EXCEPT ![r] = newType]
        /\ category' = [category EXCEPT ![r] = newCategory]
        /\ Book!Close(c, {r}, alone) /\ kind' = kind
    BY DEF Book!CommitEdit, Book!LiveRows
  <1>2. BookAsked(q) /\ BookFound(q)
    BY DEF BooksInv
  <1>3. /\ newType \in Book!Kinds /\ newCategory \in Cats /\ newCategory \in Book!LiveCats
        /\ newCategory \in Book!Read(q) /\ r \in Book!Read(q)
    BY <1>1, <1>2, BookMarks DEF BookAsked, BooksInv, Book!TypeOK, Book!LiveRows, Book!LiveCats, Book!Read
  <1>4. excused' = excused \cup alone \cup (IF q.stale THEN {r} ELSE {})
    BY <1>1 DEF Book!Close
  <1>5. r \in excused' \/ kind[newCategory] = newType
    <2>1. CASE q.stale
      BY <1>4, <2>1
    <2>2. CASE ~q.stale /\ q.category # Book!Keep
      BY <1>1, <1>2, <2>2 DEF BookFound
    <2>3. CASE q.category = Book!Keep /\ q.type # Book!Keep
      <3>1. category' = category
        BY <1>1, <2>3 DEF BooksInv, Book!TypeOK
      <3>2. QED
        BY <1>4, <2>3, <3>1
    <2>4. CASE q.category = Book!Keep /\ q.type = Book!Keep
      BY <1>1, <1>4, <2>4 DEF BooksInv, BookRowsAgree
    <2>5. QED
      BY <2>1, <2>2, <2>3, <2>4
  <1>6. /\ excused \subseteq excused' /\ excused' \subseteq Rows
    BY <1>1, <1>4 DEF BooksInv, Book!TypeOK
  <1> HIDE DEF q, r, newType, newCategory, alone
  <1>7. /\ \A s \in Rows : rowType'[s] = IF s = r THEN newType ELSE rowType[s]
        /\ \A s \in Rows : category'[s] = IF s = r THEN newCategory ELSE category[s]
    BY <1>1 DEF BooksInv, Book!TypeOK
  <1>8. Book!LiveRows' = Book!LiveRows /\ Book!LiveCats' = Book!LiveCats
    BY <1>1, <1>3, <1>7 DEF Book!LiveRows, Book!LiveCats
  <1>9. \A k \in Cats \ Book!Read(q) : Book!RowsOf(k)' \subseteq Book!RowsOf(k)
    BY <1>3, <1>7, <1>8 DEF Book!RowsOf, Book!LiveRows
  <1>10. /\ bookRequest' \in [Sessions -> [op : {"idle", "book", "edit", "add", "change", "drop"},
              row : Rows \cup {Book!None}, category : Cats \cup {Book!None, Book!Keep},
              type : Book!Kinds \cup {Book!Keep}, stale : BOOLEAN]]
         /\ \A d \in Sessions : (BookAsked(bookRequest[d]) /\ BookFound(bookRequest[d]))'
    <2>1. newType # Book!Unmade
      BY <1>3 DEF Book!Kinds, Book!Unmade
    <2>2. QED
      BY <1>1, <1>3, <1>7, <1>9, <2>1, BookCloseKeeps DEF q
  <1>11. Book!TypeOK'
    BY <1>1, <1>3, <1>6, <1>7, <1>8, <1>10 DEF BooksInv, Book!TypeOK
  <1>12. BookRowsAgree'
    BY <1>1, <1>5, <1>6, <1>7, <1>8 DEF BooksInv, BookRowsAgree, Book!LiveRows
  <1>13. QED
    BY <1>10, <1>11, <1>12 DEF BooksInv

LEMMA BookCommitChangeKeeps ==
  ASSUME BooksInv, NEW c \in Sessions, Book!CommitChange(c)
  PROVE  BooksInv'
  <1> DEFINE q == bookRequest[c]
             k == q.category
  <1>1. /\ q.op = "change" /\ k \in Book!LiveCats /\ k \in Cats
        /\ kind' = [kind EXCEPT ![k] = q.type]
        /\ Book!Close(c, Book!RowsOf(k), {}) /\ UNCHANGED <<rowType, category>>
    BY DEF Book!CommitChange, Book!LiveCats
  <1>2. /\ q.type \in Book!Kinds
        /\ ~q.stale => q.type = kind[k] \/ Book!RowsOf(k) = {}
    BY <1>1 DEF BooksInv, BookAsked, BookFound
  <1>3. k \in Book!Read(q)
    BY <1>1, BookMarks DEF Book!Read
  <1>4. excused' = excused \cup (IF q.stale THEN Book!RowsOf(k) ELSE {})
    BY <1>1 DEF Book!Close
  <1> HIDE DEF q, k
  <1>5. \A j \in Cats : kind'[j] = IF j = k THEN q.type ELSE kind[j]
    BY <1>1 DEF BooksInv, Book!TypeOK
  <1>6. /\ Book!LiveRows' = Book!LiveRows /\ Book!LiveCats' = Book!LiveCats
        /\ \A j : Book!RowsOf(j)' = Book!RowsOf(j)
    BY <1>1, <1>2, <1>5 DEF Book!LiveRows, Book!LiveCats, Book!RowsOf
  <1>7. /\ bookRequest' \in [Sessions -> [op : {"idle", "book", "edit", "add", "change", "drop"},
             row : Rows \cup {Book!None}, category : Cats \cup {Book!None, Book!Keep},
             type : Book!Kinds \cup {Book!Keep}, stale : BOOLEAN]]
        /\ \A d \in Sessions : (BookAsked(bookRequest[d]) /\ BookFound(bookRequest[d]))'
    <2>1. q.type # Book!Unmade
      BY <1>2 DEF Book!Kinds, Book!Unmade
    <2>2. QED
      BY <1>1, <1>3, <1>5, <1>6, <2>1, BookCloseKeeps DEF q
  <1>8. Book!TypeOK'
    BY <1>1, <1>2, <1>4, <1>5, <1>6, <1>7 DEF BooksInv, Book!TypeOK, Book!RowsOf, Book!LiveRows
  <1>9. BookRowsAgree'
    BY <1>1, <1>2, <1>4, <1>5, <1>6 DEF BooksInv, BookRowsAgree, Book!RowsOf, Book!LiveRows, Book!TypeOK,
       Book!LiveCats
  <1>10. QED
    BY <1>7, <1>8, <1>9 DEF BooksInv

\* A category is made, or dropped without rows.
LEMMA BookCommitCategoryKeeps ==
  ASSUME BooksInv, NEW c \in Sessions, NEW k \in Cats, NEW new \in Book!Kinds \cup {Book!Gone},
         Book!RowsOf(k) = {}, Book!Close(c, {}, {}), kind' = [kind EXCEPT ![k] = new],
         UNCHANGED <<rowType, category>>,
         kind[k] = Book!Unmade \/ k \in Book!Read(bookRequest[c])
  PROVE  BooksInv'
  <1>1. \A j \in Cats : kind'[j] = IF j = k THEN new ELSE kind[j]
    BY DEF BooksInv, Book!TypeOK
  <1>2. Book!LiveRows' = Book!LiveRows /\ \A j : Book!RowsOf(j)' = Book!RowsOf(j)
    BY DEF Book!LiveRows, Book!RowsOf
  <1>3. new # Book!Unmade /\ excused' = excused
    BY DEF Book!Close, Book!Kinds, Book!Gone, Book!Unmade
  <1>4. /\ bookRequest' \in [Sessions -> [op : {"idle", "book", "edit", "add", "change", "drop"},
             row : Rows \cup {Book!None}, category : Cats \cup {Book!None, Book!Keep},
             type : Book!Kinds \cup {Book!Keep}, stale : BOOLEAN]]
        /\ \A d \in Sessions : (BookAsked(bookRequest[d]) /\ BookFound(bookRequest[d]))'
    BY <1>1, <1>2, <1>3, BookCloseKeeps
  <1>5. \A r \in Book!LiveRows : category[r] # k
    BY DEF Book!RowsOf
  <1>6. Book!TypeOK'
    BY <1>1, <1>2, <1>3, <1>4, <1>5 DEF BooksInv, Book!TypeOK, Book!LiveCats
  <1>7. BookRowsAgree'
    BY <1>1, <1>2, <1>3, <1>5 DEF BooksInv, BookRowsAgree, Book!TypeOK, Book!LiveCats
  <1>8. QED
    BY <1>4, <1>6, <1>7 DEF BooksInv

LEMMA BookNextKeeps == BooksInv /\ [Book!Next]_(Book!categoryVars) => BooksInv'
  <1> SUFFICES ASSUME BooksInv, [Book!Next]_(Book!categoryVars) PROVE BooksInv'
    OBVIOUS
  <1>1. CASE UNCHANGED Book!categoryVars
    BY <1>1 DEF Book!categoryVars, BooksInv, Book!TypeOK, BookAsked, BookFound, BookRowsAgree, Book!LiveRows,
                Book!LiveCats, Book!RowsOf
  <1>2. ASSUME NEW c \in Sessions, NEW k \in Cats, Book!CommitAdd(c, k) PROVE BooksInv'
    <2>1. Book!RowsOf(k) = {} /\ bookRequest[c].type \in Book!Kinds
      BY <1>2 DEF Book!CommitAdd, BooksInv, BookAsked, Book!TypeOK, Book!RowsOf, Book!LiveCats, Book!Kinds,
         Book!Unmade
    <2>2. QED
      BY <1>2, <2>1, BookCommitCategoryKeeps DEF Book!CommitAdd
  <1>3. ASSUME NEW c \in Sessions, Book!CommitDrop(c) PROVE BooksInv'
    <2>1. bookRequest[c].category \in Cats /\ bookRequest[c].category \in Book!Read(bookRequest[c])
      BY <1>3, BookMarks DEF Book!CommitDrop, Book!LiveCats, Book!Read
    <2>2. QED
      BY <1>3, <2>1, BookCommitCategoryKeeps DEF Book!CommitDrop
  <1>4. CASE Book!Next
    BY <1>2, <1>3, <1>4, BookOpensKeep, BookRemoveRowKeeps, BookCommitBookKeeps, BookCommitEditKeeps,
       BookCommitChangeKeeps DEF Book!Next
  <1>5. QED
    BY <1>1, <1>4

\* The reports agree in every reachable state: the income statement and the
\* dashboard put a row on the same side unless its type was edited alone or
\* requests on it overlapped.
THEOREM BooksStayCoherent == AllSpec => []BooksCohere
  <1>1. AllInit => BooksInv
    BY BookInitHolds DEF AllInit
  <1>2. BooksInv /\ [AllNext]_allVars => BooksInv'
    BY PartsMoveAlone, BookNextKeeps
  <1>3. BooksInv => BooksCohere
    BY BookReports DEF BooksCohere
  <1>4. QED
    BY <1>1, <1>2, <1>3, PTL DEF AllSpec

-----------------------------------------------------------------------------
(* MinistryTeams.                                                           *)

TeamPlaces ==
  [op : {"add", "change", "remove"}, ministry : Ministries, person : Two,
   role : Team!Roles \cup {Team!None}, primary : BOOLEAN, held : BOOLEAN, demoted : SUBSET Two]

TeamRequests == {Team!Idle} \cup [op : {"profile"}, person : Two] \cup TeamPlaces

\* What an open request asks of a place is what the person may have, and the
\* person keeps the profile as long as it is open.
TeamAsked ==
  \A c \in Team!Busy : LET q == teamRequest[c] IN
    /\ q.role # Team!None => q.person \in profiles
    /\ q.primary => q.role = "leader"
    /\ q.role = "leader" => class[q.person] = "member" \/ q.person \in moved
    /\ q.role = "volunteer" => class[q.person] # "visitor" \/ q.person \in moved

\* The primary leaders of a ministry are demoted by the request that makes the
\* next one, unless two make one at once.
TeamDemoted ==
  /\ \A c \in Team!Held : LET q == teamRequest[c] IN
       q.primary /\ q.ministry \notin raced => primary[q.ministry] \subseteq q.demoted \cup {q.person}
  /\ \A c, d \in Team!Held :
       /\ c # d /\ teamRequest[c].primary /\ teamRequest[d].primary
       /\ teamRequest[c].ministry = teamRequest[d].ministry
       => teamRequest[c].ministry \in raced

TeamsInv == Team!TeamsCohere /\ TeamAsked /\ TeamDemoted

LEMMA TeamInitHolds == Team!Init => TeamsInv
  <1> SUFFICES ASSUME Team!Init PROVE TeamsInv
    OBVIOUS
  <1> USE DEF Team!Init
  <1>1. Team!TypeOK
    BY DEF Team!TypeOK
  <1>2. Team!Busy = {} /\ Team!Held = {}
    BY DEF Team!Busy, Team!Held, Team!Idle
  <1>3. Team!OnePrimaryLeader /\ Team!PlacesAreDeserved
    BY DEF Team!OnePrimaryLeader, Team!PlacesAreDeserved, Team!None
  <1>4. QED
    BY <1>1, <1>2, <1>3 DEF TeamsInv, Team!TeamsCohere, TeamAsked, TeamDemoted

\* The parts of the type that the steps rely on.
LEMMA TeamTypes ==
  ASSUME TeamsInv
  PROVE  /\ class \in [Two -> Team!Classes] /\ profiles \subseteq Two
         /\ place \in [Ministries -> [Two -> Team!Roles \cup {Team!None}]]
         /\ primary \in [Ministries -> SUBSET Two]
         /\ teamRequest \in [Sessions -> TeamRequests]
         /\ raced \subseteq Ministries /\ moved \subseteq Two
         /\ \A m \in Ministries, p \in Two :
              (place[m][p] # Team!None => p \in profiles) /\ (p \in primary[m] => place[m][p] # Team!None)
  BY DEF TeamsInv, Team!TeamsCohere, Team!TypeOK, TeamRequests, TeamPlaces

LEMMA TeamTyped ==
  ASSUME class' \in [Two -> Team!Classes], profiles' \subseteq Two,
         place' \in [Ministries -> [Two -> Team!Roles \cup {Team!None}]],
         primary' \in [Ministries -> SUBSET Two],
         teamRequest' \in [Sessions -> TeamRequests],
         raced' \subseteq Ministries, moved' \subseteq Two,
         \A m \in Ministries, p \in Two :
           (place'[m][p] # Team!None => p \in profiles') /\ (p \in primary'[m] => place'[m][p] # Team!None)
  PROVE  Team!TypeOK'
  BY DEF Team!TypeOK, TeamRequests, TeamPlaces

LEMMA TeamBusyPlaces ==
  ASSUME TeamsInv, NEW c \in Team!Busy
  PROVE  c \in Sessions /\ teamRequest[c] \in TeamPlaces
  BY TeamTypes DEF Team!Busy, TeamRequests, Team!Idle

\* The places stay as they are, and request c goes on.
LEMMA TeamRequestKeeps ==
  ASSUME TeamsInv, NEW c \in Sessions, NEW next \in TeamRequests,
         teamRequest' = [teamRequest EXCEPT ![c] = next],
         UNCHANGED <<class, place, primary, moved>>,
         raced \subseteq raced', raced' \subseteq Ministries, profiles \subseteq profiles', profiles' \subseteq Two,
         next \in TeamPlaces =>
           /\ next.role # Team!None => next.person \in profiles
           /\ next.primary => next.role = "leader"
           /\ next.role = "leader" => class[next.person] = "member" \/ next.person \in moved
           /\ next.role = "volunteer" => class[next.person] # "visitor" \/ next.person \in moved
           /\ next.held /\ next.primary =>
                /\ primary[next.ministry] \subseteq next.demoted \cup {next.person}
                /\ \A d \in Team!Held \ {c} :
                     teamRequest[d].primary /\ teamRequest[d].ministry = next.ministry => next.ministry \in raced'
  PROVE  TeamsInv'
  <1>1. teamRequest'[c] = next /\ \A d \in Sessions \ {c} : teamRequest'[d] = teamRequest[d]
    BY TeamTypes
  <1>2. teamRequest' \in [Sessions -> TeamRequests]
    <2> HIDE DEF TeamRequests
    <2>1. QED
      BY TeamTypes
  <1>3. Team!TypeOK'
    BY <1>2, TeamTypes, TeamTyped
  <1>4. Team!OnePrimaryLeader' /\ Team!PlacesAreDeserved'
    BY DEF TeamsInv, Team!TeamsCohere, Team!OnePrimaryLeader, Team!PlacesAreDeserved
  <1>5. next.op \in {"add", "change", "remove"} => next \in TeamPlaces
    BY DEF TeamRequests, Team!Idle
  <1>6. TeamAsked'
    <2> SUFFICES ASSUME NEW d \in Team!Busy'
                 PROVE  /\ teamRequest'[d].role # Team!None => teamRequest'[d].person \in profiles'
                        /\ teamRequest'[d].primary => teamRequest'[d].role = "leader"
                        /\ teamRequest'[d].role = "leader" =>
                             class[teamRequest'[d].person] = "member" \/ teamRequest'[d].person \in moved
                        /\ teamRequest'[d].role = "volunteer" =>
                             class[teamRequest'[d].person] # "visitor" \/ teamRequest'[d].person \in moved
      BY DEF TeamAsked
    <2>1. CASE d = c
      BY <1>1, <1>5, <2>1 DEF Team!Busy
    <2>2. CASE d # c
      BY <1>1, <2>2 DEF Team!Busy, TeamsInv, TeamAsked
    <2>3. QED
      BY <2>1, <2>2
  <1>7. TeamDemoted'
    <2>1. \A d \in Team!Held' \ {c} : d \in Team!Held /\ teamRequest'[d] = teamRequest[d]
      BY <1>1 DEF Team!Held, Team!Busy
    <2>2. c \in Team!Held' => next \in TeamPlaces /\ next.held
      BY <1>1, <1>5 DEF Team!Held, Team!Busy
    <2>3. ASSUME NEW d \in Team!Held', teamRequest'[d].primary, teamRequest'[d].ministry \notin raced'
          PROVE  primary[teamRequest'[d].ministry] \subseteq teamRequest'[d].demoted \cup {teamRequest'[d].person}
      <3>1. CASE d = c
        BY <1>1, <2>2, <2>3, <3>1
      <3>2. CASE d # c
        BY <2>1, <2>3, <3>2 DEF TeamsInv, TeamDemoted
      <3>3. QED
        BY <3>1, <3>2
    <2>4. ASSUME NEW d \in Team!Held', NEW e \in Team!Held', d # e,
                 teamRequest'[d].primary, teamRequest'[e].primary,
                 teamRequest'[d].ministry = teamRequest'[e].ministry
          PROVE  teamRequest'[d].ministry \in raced'
      <3>1. CASE d = c
        BY <1>1, <2>1, <2>2, <2>4, <3>1
      <3>2. CASE e = c
        BY <1>1, <2>1, <2>2, <2>4, <3>2
      <3>3. CASE d # c /\ e # c
        BY <2>1, <2>4, <3>3 DEF TeamsInv, TeamDemoted
      <3>4. QED
        BY <3>1, <3>2, <3>3
    <2>5. QED
      BY <2>3, <2>4 DEF TeamDemoted
  <1>8. QED
    BY <1>3, <1>4, <1>6, <1>7 DEF TeamsInv, Team!TeamsCohere

LEMMA TeamOpensKeep ==
  ASSUME TeamsInv, NEW c \in Sessions,
         \/ \E p \in Two : Team!OpenProfile(c, p)
         \/ Team!CommitProfile(c)
         \/ Team!Rollback(c)
  PROVE  TeamsInv'
  <1>1. ASSUME NEW next \in TeamRequests \ TeamPlaces, teamRequest' = [teamRequest EXCEPT ![c] = next],
               UNCHANGED <<class, place, primary, moved, raced>>, profiles \subseteq profiles', profiles' \subseteq Two
        PROVE  TeamsInv'
    BY <1>1, TeamRequestKeeps, TeamTypes
  <1>2. Team!Idle \in TeamRequests \ TeamPlaces
    BY DEF TeamRequests, TeamPlaces, Team!Idle
  <1>3. \A p \in Two : [op |-> "profile", person |-> p] \in TeamRequests \ TeamPlaces
    BY DEF TeamRequests, TeamPlaces
  <1>4. teamRequest[c].op = "profile" => teamRequest[c].person \in Two
    BY TeamTypes DEF TeamRequests, TeamPlaces, Team!Idle
  <1>5. QED
    BY <1>1, <1>2, <1>3, <1>4, TeamTypes DEF Team!OpenProfile, Team!Open, Team!CommitProfile, Team!Rollback

LEMMA TeamPlaceKeeps ==
  ASSUME TeamsInv, NEW c \in Sessions, NEW op \in {"add", "change", "remove"}, NEW m \in Ministries, NEW p \in Two,
         NEW as \in Team!Roles \cup {Team!None}, NEW first \in BOOLEAN,
         Team!Open(c, Team!Place(op, m, p, as, first)),
         as # Team!None => p \in profiles, Team!Allowed(p, as, first)
  PROVE  TeamsInv'
  <1> DEFINE next == Team!Place(op, m, p, as, first)
  <1>1. /\ next \in TeamPlaces
        /\ next.role = as /\ next.person = p /\ next.primary = first /\ ~next.held
    BY DEF Team!Place, TeamPlaces
  <1>2. next \in TeamRequests
    BY <1>1 DEF TeamRequests
  <1>3. teamRequest' = [teamRequest EXCEPT ![c] = next] /\ UNCHANGED <<class, profiles, place, primary, raced, moved>>
    BY DEF Team!Open
  <1> HIDE DEF next
  <1>4. QED
    BY <1>1, <1>2, <1>3, TeamRequestKeeps, TeamTypes DEF Team!Allowed

LEMMA TeamPlacesKeep ==
  ASSUME TeamsInv, NEW c \in Sessions, NEW m \in Ministries, NEW p \in Two,
         \/ \E as \in Team!Roles, first \in BOOLEAN : Team!OpenAssign(c, m, p, as, first)
         \/ \E as \in Team!Roles \cup {Team!Keep}, first \in {"yes", "no", Team!Keep} :
              Team!OpenChange(c, m, p, as, first)
         \/ Team!OpenRemove(c, m, p)
  PROVE  TeamsInv'
  <1>1. ASSUME NEW as \in Team!Roles, NEW first \in BOOLEAN, Team!OpenAssign(c, m, p, as, first)
        PROVE  TeamsInv'
    BY <1>1, TeamPlaceKeeps DEF Team!OpenAssign
  <1>2. ASSUME NEW as \in Team!Roles \cup {Team!Keep}, NEW first \in {"yes", "no", Team!Keep},
               Team!OpenChange(c, m, p, as, first)
        PROVE  TeamsInv'
    <2> DEFINE newRole  == IF as = Team!Keep THEN place[m][p] ELSE as
               newFirst == IF first = Team!Keep THEN p \in primary[m] ELSE first = "yes"
    <2>1. newRole \in Team!Roles \cup {Team!None} /\ newFirst \in BOOLEAN /\ p \in profiles
      <3>1. place[m][p] \in Team!Roles \cup {Team!None} /\ place[m][p] # Team!None /\ p \in profiles
        BY <1>2, TeamTypes DEF Team!OpenChange
      <3>2. (p \in primary[m]) \in BOOLEAN /\ (first = "yes") \in BOOLEAN
        OBVIOUS
      <3>3. QED
        BY <3>1, <3>2
    <2>2. Team!Allowed(p, newRole, newFirst) /\ Team!Open(c, Team!Place("change", m, p, newRole, newFirst))
      BY <1>2 DEF Team!OpenChange
    <2> HIDE DEF newRole, newFirst
    <2>3. QED
      BY <2>1, <2>2, TeamPlaceKeeps
  <1>3. CASE Team!OpenRemove(c, m, p)
    BY <1>3, TeamPlaceKeeps DEF Team!OpenRemove, Team!Allowed, Team!None
  <1>4. QED
    BY <1>1, <1>2, <1>3

LEMMA TeamDemoteKeeps ==
  ASSUME TeamsInv, NEW c \in Sessions, Team!Demote(c)
  PROVE  TeamsInv'
  <1> DEFINE q == teamRequest[c]
             there == IF q.primary THEN primary[q.ministry] \ (IF q.op = "change" THEN {q.person} ELSE {}) ELSE {}
             next == [q EXCEPT !.held = TRUE, !.demoted = there]
  <1>1. c \in Team!Busy /\ q \in TeamPlaces
    BY TeamBusyPlaces DEF Team!Demote
  <1>2. /\ teamRequest' = [teamRequest EXCEPT ![c] = next]
        /\ raced' = IF q.primary /\ \E d \in Team!Held : teamRequest[d].ministry = q.ministry /\ teamRequest[d].primary
                    THEN raced \cup {q.ministry} ELSE raced
        /\ UNCHANGED <<class, profiles, place, primary, moved>>
    BY DEF Team!Demote
  <1>3. there \in SUBSET Two /\ (q.primary => primary[q.ministry] \subseteq there \cup {q.person})
    BY <1>1, TeamTypes DEF TeamPlaces
  <1> HIDE DEF there
  <1>4. /\ next \in TeamPlaces /\ next.role = q.role /\ next.person = q.person /\ next.primary = q.primary
        /\ next.ministry = q.ministry /\ next.demoted = there
    BY <1>1, <1>3 DEF TeamPlaces
  <1>5. next \in TeamRequests /\ q.ministry \in Ministries
    BY <1>1, <1>4 DEF TeamRequests, TeamPlaces
  <1>6. /\ q.role # Team!None => q.person \in profiles
        /\ q.primary => q.role = "leader"
        /\ q.role = "leader" => class[q.person] = "member" \/ q.person \in moved
        /\ q.role = "volunteer" => class[q.person] # "visitor" \/ q.person \in moved
    BY <1>1 DEF TeamsInv, TeamAsked
  <1>7. raced \subseteq raced' /\ raced' \subseteq Ministries
    BY <1>2, <1>5, TeamTypes
  <1> HIDE DEF next, q
  <1>8. QED
    BY <1>2, <1>3, <1>4, <1>5, <1>6, <1>7, TeamRequestKeeps, TeamTypes

LEMMA TeamReclassifyKeeps ==
  ASSUME TeamsInv, NEW p \in Two, NEW new \in Team!Classes, Team!Reclassify(p, new)
  PROVE  TeamsInv'
  <1>1. /\ \A q \in Two \ {p} : class'[q] = class[q]
        /\ class' \in [Two -> Team!Classes]
        /\ UNCHANGED <<profiles, place, primary, teamRequest, raced>>
        /\ moved \subseteq moved' /\ moved' \subseteq Two
    BY TeamTypes DEF Team!Reclassify
  <1>2. \A m \in Ministries : place[m][p] # Team!None \/ Team!Wanted(m, p) => p \in moved'
    BY DEF Team!Reclassify
  <1>3. Team!TypeOK'
    BY <1>1, TeamTypes, TeamTyped
  <1>4. Team!PlacesAreDeserved'
    BY <1>1, <1>2 DEF TeamsInv, Team!TeamsCohere, Team!PlacesAreDeserved, Team!None
  <1>5. Team!Busy' = Team!Busy /\ Team!Held' = Team!Held
    BY <1>1 DEF Team!Busy, Team!Held
  <1>6. ASSUME NEW c \in Team!Busy
        PROVE  teamRequest[c].person \in Two /\ (teamRequest[c].person = p => p \in moved')
    BY <1>2, TeamBusyPlaces DEF Team!Wanted, TeamPlaces
  <1>7. TeamAsked'
    BY <1>1, <1>5, <1>6 DEF TeamsInv, TeamAsked
  <1>8. TeamDemoted' /\ Team!OnePrimaryLeader'
    BY <1>1, <1>5 DEF TeamsInv, Team!TeamsCohere, TeamDemoted, Team!OnePrimaryLeader
  <1>9. QED
    BY <1>3, <1>4, <1>7, <1>8 DEF TeamsInv, Team!TeamsCohere

LEMMA TeamRemoveProfileKeeps ==
  ASSUME TeamsInv, NEW p \in Two, Team!RemoveProfile(p)
  PROVE  TeamsInv'
  <1>1. /\ profiles' = profiles \ {p} /\ moved' = moved \ {p}
        /\ place' = [m \in Ministries |-> [place[m] EXCEPT ![p] = Team!None]]
        /\ primary' = [m \in Ministries |-> primary[m] \ {p}]
        /\ UNCHANGED <<class, teamRequest, raced>>
        /\ \A m \in Ministries : ~Team!Wanted(m, p)
    BY DEF Team!RemoveProfile
  <1>2. \A m \in Ministries, q \in Two : place'[m][q] = IF q = p THEN Team!None ELSE place[m][q]
    BY <1>1, TeamTypes
  <1>3. place' \in [Ministries -> [Two -> Team!Roles \cup {Team!None}]]
    <2>1. \A m \in Ministries : [place[m] EXCEPT ![p] = Team!None] \in [Two -> Team!Roles \cup {Team!None}]
      BY TeamTypes
    <2>2. QED
      BY <1>1, <2>1
  <1>4. primary' \in [Ministries -> SUBSET Two] /\ \A m \in Ministries : primary'[m] = primary[m] \ {p}
    BY <1>1, TeamTypes
  <1>5. Team!TypeOK'
    BY <1>1, <1>2, <1>3, <1>4, TeamTypes, TeamTyped
  <1>6. Team!OnePrimaryLeader' /\ Team!PlacesAreDeserved'
    BY <1>1, <1>2, <1>4 DEF TeamsInv, Team!TeamsCohere, Team!OnePrimaryLeader, Team!PlacesAreDeserved, Team!None
  <1>7. Team!Busy' = Team!Busy /\ Team!Held' = Team!Held /\ Team!Held \subseteq Team!Busy
    BY <1>1 DEF Team!Busy, Team!Held
  <1>8. \A c \in Team!Busy : teamRequest[c].person # p /\ teamRequest[c].ministry \in Ministries
    BY <1>1, TeamBusyPlaces DEF Team!Wanted, TeamPlaces
  <1>9. TeamAsked'
    BY <1>1, <1>7, <1>8 DEF TeamsInv, TeamAsked
  <1>10. TeamDemoted'
    BY <1>1, <1>4, <1>7, <1>8 DEF TeamsInv, TeamDemoted
  <1>11. QED
    BY <1>5, <1>6, <1>9, <1>10 DEF TeamsInv, Team!TeamsCohere

LEMMA TeamCommitKeeps ==
  ASSUME TeamsInv, NEW c \in Sessions, Team!Commit(c)
  PROVE  TeamsInv'
  <1> DEFINE q == teamRequest[c]
             m == q.ministry
             first == (primary[m] \ (q.demoted \cup {q.person})) \cup (IF q.primary THEN {q.person} ELSE {})
  <1>1. /\ c \in Team!Held /\ c \in Team!Busy /\ q.held
        /\ place' = [place EXCEPT ![m][q.person] = q.role]
        /\ primary' = [primary EXCEPT ![m] = first]
        /\ teamRequest' = [d \in Sessions |-> IF d = c \/ Team!Orphaned(c, d) THEN Team!Idle ELSE teamRequest[d]]
        /\ UNCHANGED <<class, profiles, raced, moved>>
    BY DEF Team!Commit, Team!Held
  <1>2. q \in TeamPlaces /\ m \in Ministries /\ q.person \in Two
    BY <1>1, TeamBusyPlaces DEF TeamPlaces
  <1>3. /\ q.role # Team!None => q.person \in profiles
        /\ q.primary => q.role = "leader"
        /\ q.role = "leader" => class[q.person] = "member" \/ q.person \in moved
        /\ q.role = "volunteer" => class[q.person] # "visitor" \/ q.person \in moved
        /\ q.primary /\ m \notin raced => primary[m] \subseteq q.demoted \cup {q.person}
    BY <1>1 DEF TeamsInv, TeamAsked, TeamDemoted
  <1>4. /\ q.primary => q.person \in first
        /\ ~q.primary => q.person \notin first
        /\ first \subseteq primary[m] \cup {q.person} /\ first \in SUBSET Two
        /\ q.primary /\ m \notin raced => first = {q.person}
        /\ ~q.primary => first \subseteq primary[m]
    BY <1>2, <1>3, TeamTypes
  <1>5. q.role \in Team!Roles \cup {Team!None}
    BY <1>2 DEF TeamPlaces
  <1> HIDE DEF first, q, m
  <1>6. /\ place'[m][q.person] = q.role
        /\ \A n \in Ministries, p \in Two : n # m \/ p # q.person => place'[n][p] = place[n][p]
        /\ place' \in [Ministries -> [Two -> Team!Roles \cup {Team!None}]]
    <2>1. [place[m] EXCEPT ![q.person] = q.role] \in [Two -> Team!Roles \cup {Team!None}]
      BY <1>2, <1>5, TeamTypes
    <2>2. QED
      BY <1>1, <1>2, <2>1, TeamTypes
  <1>7. /\ primary'[m] = first /\ \A n \in Ministries \ {m} : primary'[n] = primary[n]
        /\ primary' \in [Ministries -> SUBSET Two]
    BY <1>1, <1>2, <1>4, TeamTypes
  <1>8. /\ teamRequest' \in [Sessions -> TeamRequests]
        /\ \A d \in Team!Busy' : d # c /\ d \in Team!Busy /\ teamRequest'[d] = teamRequest[d]
        /\ \A d \in Team!Held' : d \in Team!Held
    <2>1. Team!Idle \in TeamRequests /\ Team!Idle.op \notin {"add", "change", "remove"}
      BY DEF TeamRequests, Team!Idle
    <2>2. teamRequest' \in [Sessions -> TeamRequests]
      <3> HIDE DEF TeamRequests
      <3>1. QED
        BY <1>1, <2>1, TeamTypes
    <2>3. \A d \in Team!Busy' : d # c /\ d \in Team!Busy /\ teamRequest'[d] = teamRequest[d]
      BY <1>1, <2>1 DEF Team!Busy
    <2>4. QED
      BY <2>2, <2>3 DEF Team!Held
  <1>9. Team!TypeOK'
    <2>1. ASSUME NEW n \in Ministries, NEW p \in Two
          PROVE  (place'[n][p] # Team!None => p \in profiles) /\ (p \in primary'[n] => place'[n][p] # Team!None)
      <3>1. CASE n = m /\ p = q.person
        BY <1>3, <1>4, <1>6, <1>7, <3>1 DEF Team!None
      <3>2. CASE n = m /\ p # q.person
        BY <1>2, <1>4, <1>6, <1>7, <3>2, TeamTypes
      <3>3. CASE n # m
        BY <1>6, <1>7, <3>3, TeamTypes
      <3>4. QED
        BY <3>1, <3>2, <3>3
    <2>2. QED
      BY <1>1, <1>6, <1>7, <1>8, <2>1, TeamTypes, TeamTyped
  <1>10. Team!OnePrimaryLeader'
    <2> SUFFICES ASSUME NEW n \in Ministries \ raced, NEW p \in primary'[n], NEW r \in primary'[n]
                 PROVE  p = r
      BY <1>1 DEF Team!OnePrimaryLeader
    <2>1. CASE n = m /\ q.primary
      BY <1>4, <1>7, <2>1
    <2>2. CASE ~(n = m /\ q.primary)
      BY <1>4, <1>7, <2>2 DEF TeamsInv, Team!TeamsCohere, Team!OnePrimaryLeader
    <2>3. QED
      BY <2>1, <2>2
  <1>11. Team!PlacesAreDeserved'
    <2> SUFFICES ASSUME NEW n \in Ministries, NEW p \in Two
                 PROVE  /\ p \in primary'[n] => place'[n][p] = "leader"
                        /\ place'[n][p] = "leader" => class[p] = "member" \/ p \in moved
                        /\ place'[n][p] = "volunteer" => class[p] # "visitor" \/ p \in moved
      BY <1>1 DEF Team!PlacesAreDeserved
    <2>1. CASE n = m /\ p = q.person
      BY <1>3, <1>4, <1>6, <1>7, <2>1
    <2>2. CASE n = m /\ p # q.person
      BY <1>2, <1>4, <1>6, <1>7, <2>2 DEF TeamsInv, Team!TeamsCohere, Team!PlacesAreDeserved
    <2>3. CASE n # m
      BY <1>6, <1>7, <2>3 DEF TeamsInv, Team!TeamsCohere, Team!PlacesAreDeserved
    <2>4. QED
      BY <2>1, <2>2, <2>3
  <1>12. TeamAsked'
    BY <1>1, <1>8 DEF TeamsInv, TeamAsked
  <1>13. TeamDemoted'
    <2>1. \A d \in Team!Held' : d # c /\ d \in Team!Held /\ d \in Team!Busy /\ teamRequest'[d] = teamRequest[d]
      BY <1>8 DEF Team!Held
    <2>2. ASSUME NEW d \in Team!Held', teamRequest[d].primary, teamRequest[d].ministry \notin raced
          PROVE  primary'[teamRequest[d].ministry] \subseteq teamRequest[d].demoted \cup {teamRequest[d].person}
      <3>1. teamRequest[d].ministry \in Ministries
        BY <2>1, TeamBusyPlaces DEF TeamPlaces
      <3>2. primary[teamRequest[d].ministry] \subseteq teamRequest[d].demoted \cup {teamRequest[d].person}
        BY <2>1, <2>2 DEF TeamsInv, TeamDemoted
      <3>3. CASE teamRequest[d].ministry = m
        <4>1. ~q.primary
          BY <1>1, <2>1, <2>2, <3>3 DEF TeamsInv, TeamDemoted, q, m
        <4>2. QED
          BY <1>4, <1>7, <3>2, <3>3, <4>1
      <3>4. CASE teamRequest[d].ministry # m
        BY <1>7, <3>1, <3>2, <3>4
      <3>5. QED
        BY <3>3, <3>4
    <2>3. ASSUME NEW d \in Team!Held', NEW e \in Team!Held', d # e,
                 teamRequest[d].primary, teamRequest[e].primary, teamRequest[d].ministry = teamRequest[e].ministry
          PROVE  teamRequest[d].ministry \in raced
      BY <2>1, <2>3 DEF TeamsInv, TeamDemoted
    <2>4. \A d \in Team!Held' : teamRequest'[d].primary /\ teamRequest'[d].ministry \notin raced' =>
            primary'[teamRequest'[d].ministry] \subseteq teamRequest'[d].demoted \cup {teamRequest'[d].person}
      BY <1>1, <2>1, <2>2
    <2>5. \A d, e \in Team!Held' :
            /\ d # e /\ teamRequest'[d].primary /\ teamRequest'[e].primary
            /\ teamRequest'[d].ministry = teamRequest'[e].ministry
            => teamRequest'[d].ministry \in raced'
      BY <1>1, <2>1, <2>3
    <2>6. QED
      BY <2>4, <2>5 DEF TeamDemoted
  <1>14. QED
    BY <1>9, <1>10, <1>11, <1>12, <1>13 DEF TeamsInv, Team!TeamsCohere

LEMMA TeamNextKeeps == TeamsInv /\ [Team!Next]_(Team!teamVars) => TeamsInv'
  <1> SUFFICES ASSUME TeamsInv, [Team!Next]_(Team!teamVars) PROVE TeamsInv'
    OBVIOUS
  <1>1. CASE UNCHANGED Team!teamVars
    <2> USE <1>1 DEF Team!teamVars
    <2>1. Team!TypeOK'
      BY TeamTypes, TeamTyped
    <2>2. Team!Busy' = Team!Busy /\ Team!Held' = Team!Held
      BY DEF Team!Busy, Team!Held
    <2>3. QED
      BY <2>1, <2>2 DEF TeamsInv, Team!TeamsCohere, Team!OnePrimaryLeader, Team!PlacesAreDeserved, TeamAsked,
         TeamDemoted
  <1>2. CASE Team!Next
    BY <1>2, TeamOpensKeep, TeamPlacesKeep, TeamDemoteKeeps, TeamCommitKeeps, TeamRemoveProfileKeeps,
       TeamReclassifyKeeps DEF Team!Next
  <1>3. QED
    BY <1>1, <1>2

\* The teams cohere in every reachable state: a ministry has one primary leader
\* unless two requests made one at once, and who has a place has the
\* classification for it unless reclassified since.
THEOREM TeamsStayCoherent == AllSpec => []TeamsCohere
  <1>1. AllInit => TeamsInv
    BY TeamInitHolds DEF AllInit
  <1>2. TeamsInv /\ [AllNext]_allVars => TeamsInv'
    BY PartsMoveAlone, TeamNextKeeps
  <1>3. TeamsInv => TeamsCohere
    BY DEF TeamsInv, TeamsCohere
  <1>4. QED
    BY <1>1, <1>2, <1>3, PTL DEF AllSpec

-----------------------------------------------------------------------------
(* StudyMaterials.                                                          *)

\* A request that holds a file it has uploaded and no row has yet.
MaterialHolds(q, o) == (q.op = "create" /\ q.file = o) \/ (q.op = "write" /\ q.new = o)

\* One that has read the file of its row.
MaterialClaims(q) == q.op \in {"clear", "upload", "write", "edit", "discard", "remove"}

\* A file belongs to one row or to one request, and a request that has read the
\* file of a row can only delete that one.
MaterialFilesOnce ==
  /\ \A m, n \in Material!Owners : file[m] = file[n] /\ file[m] # Material!NoFile => m = n
  /\ \A c \in Sessions, m \in Material!Owners :
       MaterialClaims(edit[c]) /\ file[m] = edit[c].old /\ file[m] # Material!NoFile => m = edit[c].row
  /\ \A c \in Sessions, o \in Two : MaterialHolds(edit[c], o) =>
       /\ o \in stored /\ \A m \in Material!Owners : file[m] # o
       /\ \A d \in Sessions : (MaterialHolds(edit[d], o) => d = c) /\ (MaterialClaims(edit[d]) => edit[d].old # o)

\* The file a request has deleted is gone, or counted as wasted.
MaterialDeleted ==
  \A c \in Sessions : edit[c].op \in {"upload", "write", "remove"} => edit[c].old \notin stored \ wasted

\* A row that is not there has no file, and what a request writes is a file or
\* dates.
MaterialWrites ==
  /\ \A m \in Materials \ Material!Live : file[m] = Material!NoFile
  /\ \A c \in Sessions : /\ edit[c].op = "edit" => edit[c].dates \in Material!Dates
                         /\ edit[c].op = "write" => edit[c].new \in Two

MaterialFilesInv == Material!FilesMatchRows /\ MaterialFilesOnce /\ MaterialDeleted /\ MaterialWrites

\* A request that counts a reader found no count unless another one runs.
MaterialOpensInv ==
  /\ Material!OpenedOnce
  /\ \A c \in Sessions : edit[c].op = "open" =>
       /\ edit[c].row \notin openedTwice => opens[edit[c].row] = 0
       /\ \A d \in Sessions : edit[d].op = "open" /\ edit[d].row = edit[c].row =>
            d = c \/ edit[c].row \in openedTwice

\* What a cron is about to mark was pushed.
MaterialPushesInv == Material!NotifiedIsPushed /\ \A p \in Processes : sweep[p].sent \subseteq pushed

MaterialsInv == Material!TypeOK /\ MaterialFilesInv /\ MaterialOpensInv /\ MaterialPushesInv

MaterialRequests ==
  {Material!Idle}
    \cup [op : {"create"}, dates : Material!Dates, file : Two \cup {Material!NoFile}]
    \cup [op : {"clear", "upload", "write", "edit"}, row : Material!Owners, old : Two \cup {Material!NoFile},
          new : Two \cup {Material!NoFile}, dates : Material!Dates \cup {Material!Unmade}]
    \cup [op : {"discard", "remove"}, row : Materials, old : Two \cup {Material!NoFile}]
    \cup [op : {"open"}, row : Materials]

-----------------------------------------------------------------------------
LEMMA MaterialInitHolds == Material!Init => MaterialsInv
  <1> SUFFICES ASSUME Material!Init PROVE MaterialsInv
    OBVIOUS
  <1> USE DEF Material!Init
  <1>1. Material!TypeOK
    BY BoundsAssumption DEF Material!TypeOK, Material!Resting
  <1>2. Material!Live = {}
    BY DEF Material!Live
  <1>3. MaterialFilesInv
    BY <1>2 DEF MaterialFilesInv, Material!FilesMatchRows, MaterialFilesOnce, MaterialDeleted, MaterialWrites,
                MaterialHolds, MaterialClaims, Material!Idle, Material!Owners
  <1>4. MaterialOpensInv /\ MaterialPushesInv
    BY DEF MaterialOpensInv, MaterialPushesInv, Material!OpenedOnce, Material!NotifiedIsPushed, Material!Idle,
           Material!Resting
  <1>5. QED
    BY <1>1, <1>3, <1>4 DEF MaterialsInv

\* A material is listed under the status it shows: this follows from the dates.
LEMMA MaterialStatus == ASSUME Material!TypeOK PROVE Material!StatusIsListed
  <1> SUFFICES ASSUME NEW m \in Material!Live, dates[m].publish <= dates[m].expires,
                      NEW status \in {"scheduled", "published", "expired"}
               PROVE  m \in Material!Listed(status) <=> status = Material!Status(m)
    BY DEF Material!StatusIsListed
  <1>1. dates[m].publish \in Nat /\ dates[m].expires \in Nat /\ now \in Nat
    BY BoundsAssumption DEF Material!TypeOK, Material!Live, Material!Dates, Material!Never
  <1>2. CASE status = "scheduled"
    BY <1>1, <1>2 DEF Material!Listed, Material!Status
  <1>3. CASE status = "published"
    BY <1>1, <1>3 DEF Material!Listed, Material!Status
  <1>4. CASE status = "expired"
    BY <1>1, <1>4 DEF Material!Listed, Material!Status
  <1>5. QED
    BY <1>2, <1>3, <1>4

LEMMA MaterialTypes ==
  ASSUME Material!TypeOK
  PROVE  /\ file \in [Material!Owners -> Two \cup {Material!NoFile}]
         /\ dates \in [Materials -> Material!Dates \cup {Material!Unmade, Material!Gone}]
         /\ stored \subseteq Two /\ wasted \subseteq Two
         /\ opens \in [Materials -> Nat]
         /\ edit \in [Sessions -> MaterialRequests]
         /\ openedTwice \subseteq Materials /\ torn \subseteq Material!Owners
         /\ Material!NoFile \notin Two
  BY FileMarksApart DEF Material!TypeOK, MaterialRequests, Material!NoFile

\* The steps of a request leave the cron alone.
LEMMA MaterialTyped ==
  ASSUME Material!TypeOK,
         file' \in [Material!Owners -> Two \cup {Material!NoFile}],
         dates' \in [Materials -> Material!Dates \cup {Material!Unmade, Material!Gone}],
         stored' \subseteq Two, wasted' \subseteq Two,
         opens' \in [Materials -> Nat],
         edit' \in [Sessions -> MaterialRequests],
         openedTwice' \subseteq Materials, torn' \subseteq Material!Owners,
         faults' \in 0..MaxFaults, UNCHANGED <<Material!cron, now>>
  PROVE  Material!TypeOK'
  BY DEF Material!TypeOK, MaterialRequests, Material!cron

LEMMA MaterialPushesRest ==
  ASSUME MaterialPushesInv, UNCHANGED Material!cron
  PROVE  MaterialPushesInv'
  BY DEF MaterialPushesInv, Material!NotifiedIsPushed, Material!cron

\* A request that goes on with something else than counting a reader.
LEMMA MaterialOpensRest ==
  ASSUME Material!TypeOK, MaterialOpensInv, NEW c \in Sessions, NEW next, Material!Goto(c, next), next.op # "open",
         UNCHANGED openedTwice, \A m \in Materials : opens'[m] \in {opens[m], 0}
  PROVE  MaterialOpensInv'
  <1>1. edit'[c] = next /\ \A d \in Sessions \ {c} : edit'[d] = edit[d]
    BY MaterialTypes DEF Material!Goto
  <1>2. \A d \in Sessions : edit'[d].op = "open" =>
          d # c /\ edit'[d] = edit[d] /\ edit[d].row \in Materials
    BY <1>1, MaterialTypes DEF MaterialRequests, Material!Idle
  <1>3. Material!OpenedOnce'
    BY MaterialTypes DEF MaterialOpensInv, Material!OpenedOnce
  <1>4. QED
    BY <1>2, <1>3 DEF MaterialOpensInv

LEMMA MaterialGotoTypes ==
  ASSUME Material!TypeOK, NEW c \in Sessions, NEW next \in MaterialRequests, Material!Goto(c, next)
  PROVE  /\ edit' \in [Sessions -> MaterialRequests]
         /\ edit'[c] = next /\ \A d \in Sessions \ {c} : edit'[d] = edit[d]
  <1>1. edit \in [Sessions -> MaterialRequests]
    BY MaterialTypes
  <1> HIDE DEF MaterialRequests
  <1>2. QED
    BY <1>1 DEF Material!Goto

-----------------------------------------------------------------------------
\* Requests open: what they read of a row is the file it has now.
LEMMA MaterialOpenFiles ==
  ASSUME Material!TypeOK, MaterialFilesInv, NEW c \in Sessions, NEW next \in MaterialRequests,
         edit[c] = Material!Idle, Material!Goto(c, next), UNCHANGED <<file, dates, stored, torn, wasted>>,
         next.op \in {"clear", "edit", "discard", "open"} \/ (next.op = "create" /\ next.file = Material!NoFile),
         MaterialClaims(next) => next.old = file[next.row],
         next.op = "edit" => next.dates \in Material!Dates
  PROVE  MaterialFilesInv'
  <1>1. /\ edit'[c] = next /\ \A d \in Sessions \ {c} : edit'[d] = edit[d]
        /\ edit[c].op = "idle" /\ (MaterialClaims(next) => next.row \in Material!Owners)
        /\ \A o \in Two : ~MaterialHolds(next, o)
    <2>1. MaterialClaims(next) => next.row \in Material!Owners
      BY DEF MaterialRequests, MaterialClaims, Material!Idle, Material!Owners
    <2>2. \A o \in Two : ~MaterialHolds(next, o)
      BY MaterialTypes DEF MaterialHolds
    <2>3. QED
      BY <2>1, <2>2, MaterialGotoTypes DEF Material!Idle
  <1>2. Material!Live' = Material!Live
    BY DEF Material!Live
  <1>3. Material!FilesMatchRows'
    BY <1>1 DEF MaterialFilesInv, Material!FilesMatchRows, Material!Deleting, Material!Held
  <1>4. MaterialFilesOnce'
    <2>1. \A m, n \in Material!Owners : file'[m] = file'[n] /\ file'[m] # Material!NoFile => m = n
      BY DEF MaterialFilesInv, MaterialFilesOnce
    <2>2. ASSUME NEW d \in Sessions, NEW m \in Material!Owners, MaterialClaims(edit'[d]), file'[m] = edit'[d].old,
                 file'[m] # Material!NoFile
          PROVE  m = edit'[d].row
      <3>1. CASE d = c
        BY <1>1, <2>1, <2>2, <3>1
      <3>2. CASE d # c
        BY <1>1, <2>2, <3>2 DEF MaterialFilesInv, MaterialFilesOnce
      <3>3. QED
        BY <3>1, <3>2
    <2>3. ASSUME NEW d \in Sessions, NEW o \in Two, MaterialHolds(edit'[d], o)
          PROVE  /\ o \in stored' /\ \A m \in Material!Owners : file'[m] # o
                 /\ \A e \in Sessions : /\ MaterialHolds(edit'[e], o) => e = d
                                        /\ MaterialClaims(edit'[e]) => edit'[e].old # o
      <3>1. d # c /\ ~MaterialHolds(next, o)
        BY <1>1, <2>3
      <3>2. o \in stored /\ \A m \in Material!Owners : file[m] # o
        BY <1>1, <2>3, <3>1 DEF MaterialFilesInv, MaterialFilesOnce
      <3>3. ASSUME NEW e \in Sessions PROVE (MaterialHolds(edit'[e], o) => e = d) /\ (MaterialClaims(edit'[e]) => edit'[e].old # o)
        <4>1. CASE e = c
          BY <1>1, <3>1, <3>2, <4>1
        <4>2. CASE e # c
          BY <1>1, <2>3, <3>1, <4>2 DEF MaterialFilesInv, MaterialFilesOnce
        <4>3. QED
          BY <4>1, <4>2
      <3>4. QED
        BY <3>2, <3>3
    <2>4. QED
      BY <2>1, <2>2, <2>3 DEF MaterialFilesOnce
  <1>5. MaterialDeleted' /\ MaterialWrites'
    BY <1>1, <1>2 DEF MaterialFilesInv, MaterialDeleted, MaterialWrites
  <1>6. QED
    BY <1>3, <1>4, <1>5 DEF MaterialFilesInv

LEMMA MaterialOpenedKeeps ==
  ASSUME MaterialsInv, NEW c \in Sessions, NEW next \in MaterialRequests,
         edit[c] = Material!Idle, Material!Goto(c, next),
         UNCHANGED <<Material!rows, Material!cron, stored, now, faults, torn, wasted, openedTwice>>,
         next.op \in {"clear", "edit", "discard"} \/ (next.op = "create" /\ next.file = Material!NoFile),
         MaterialClaims(next) => next.old = file[next.row],
         next.op = "edit" => next.dates \in Material!Dates
  PROVE  MaterialsInv'
  <1> USE DEF MaterialsInv
  <1>1. edit' \in [Sessions -> MaterialRequests] /\ UNCHANGED <<file, dates, opens>>
    BY MaterialGotoTypes DEF Material!rows
  <1>2. Material!TypeOK'
    BY <1>1, MaterialTypes, MaterialTyped DEF Material!TypeOK
  <1>3. MaterialFilesInv'
    BY <1>1, MaterialOpenFiles
  <1>4. MaterialOpensInv'
    BY <1>1, MaterialOpensRest
  <1>5. QED
    BY <1>2, <1>3, <1>4, MaterialPushesRest

LEMMA MaterialOpenKeeps ==
  ASSUME MaterialsInv, NEW c \in Sessions,
         \/ \E m \in Materials, d \in Material!Dates : Material!OpenEdit(c, m, d)
         \/ \E m \in Material!Owners : Material!OpenReplace(c, m)
         \/ \E m \in Materials : Material!OpenRemove(c, m)
  PROVE  MaterialsInv'
  <1>1. ASSUME NEW m \in Materials, NEW d \in Material!Dates, Material!OpenEdit(c, m, d) PROVE MaterialsInv'
    <2>1. [op |-> "edit", row |-> m, old |-> file[m], new |-> Material!NoFile, dates |-> d] \in MaterialRequests
      BY MaterialTypes DEF MaterialsInv, MaterialRequests, Material!Owners
    <2>2. QED
      BY <1>1, <2>1, MaterialOpenedKeeps DEF Material!OpenEdit
  <1>2. ASSUME NEW m \in Material!Owners, Material!OpenReplace(c, m) PROVE MaterialsInv'
    <2>1. [op |-> "clear", row |-> m, old |-> file[m], new |-> Material!NoFile, dates |-> Material!Unmade] \in MaterialRequests
      BY MaterialTypes DEF MaterialsInv, MaterialRequests
    <2>2. QED
      BY <1>2, <2>1, MaterialOpenedKeeps DEF Material!OpenReplace
  <1>3. ASSUME NEW m \in Materials, Material!OpenRemove(c, m) PROVE MaterialsInv'
    <2>1. [op |-> "discard", row |-> m, old |-> file[m]] \in MaterialRequests
      BY MaterialTypes DEF MaterialsInv, MaterialRequests, Material!Owners
    <2>2. QED
      BY <1>3, <2>1, MaterialOpenedKeeps DEF Material!OpenRemove
  <1>4. QED
    BY <1>1, <1>2, <1>3

LEMMA MaterialOpenRecordKeeps ==
  ASSUME MaterialsInv, NEW c \in Sessions, NEW m \in Materials, Material!OpenRecord(c, m)
  PROVE  MaterialsInv'
  <1> DEFINE next == [op |-> "open", row |-> m]
  <1>1. /\ next \in MaterialRequests /\ next.op = "open" /\ next.row = m
        /\ edit[c] = Material!Idle /\ opens[m] = 0 /\ Material!Goto(c, next)
        /\ openedTwice' = IF \E d \in Sessions : edit[d] = next THEN openedTwice \cup {m} ELSE openedTwice
        /\ UNCHANGED <<file, dates, opens, Material!cron, stored, now, faults, torn, wasted>>
    BY DEF Material!OpenRecord, MaterialRequests, Material!rows
  <1>2. \A d \in Sessions : edit[d].op = "open" /\ edit[d].row = m => edit[d] = next
    BY MaterialTypes DEF MaterialsInv, MaterialRequests, Material!Idle
  <1> HIDE DEF next
  <1>3. /\ edit' \in [Sessions -> MaterialRequests]
        /\ edit'[c] = next /\ \A d \in Sessions \ {c} : edit'[d] = edit[d]
    BY <1>1, MaterialGotoTypes DEF MaterialsInv
  <1>4. Material!TypeOK'
    BY <1>1, <1>3, MaterialTypes, MaterialTyped DEF MaterialsInv, Material!TypeOK
  <1>5. MaterialFilesInv'
    BY <1>1, MaterialOpenFiles DEF MaterialsInv, MaterialClaims
  <1>6. MaterialOpensInv'
    <2>1. Material!OpenedOnce'
      BY <1>1 DEF MaterialsInv, MaterialOpensInv, Material!OpenedOnce
    <2>2. ASSUME NEW d \in Sessions, edit'[d].op = "open", edit'[d].row \notin openedTwice'
          PROVE  opens'[edit'[d].row] = 0
      BY <1>1, <1>3, <2>2 DEF MaterialsInv, MaterialOpensInv
    <2>3. ASSUME NEW d \in Sessions, NEW e \in Sessions, edit'[d].op = "open", edit'[e].op = "open",
                 edit'[d].row = edit'[e].row, d # e
          PROVE  edit'[d].row \in openedTwice'
      <3>1. CASE d = c
        BY <1>1, <1>2, <1>3, <2>3, <3>1
      <3>2. CASE e = c
        BY <1>1, <1>2, <1>3, <2>3, <3>2
      <3>3. CASE d # c /\ e # c
        BY <1>1, <1>3, <2>3, <3>3 DEF MaterialsInv, MaterialOpensInv
      <3>4. QED
        BY <3>1, <3>2, <3>3
    <2>4. QED
      BY <2>1, <2>2, <2>3 DEF MaterialOpensInv
  <1>7. QED
    BY <1>1, <1>4, <1>5, <1>6, MaterialPushesRest DEF MaterialsInv

LEMMA MaterialCommitRecordKeeps ==
  ASSUME MaterialsInv, NEW c \in Sessions, Material!CommitRecord(c)
  PROVE  MaterialsInv'
  <1> DEFINE m == edit[c].row
  <1>1. /\ edit[c].op = "open" /\ m \in Materials
        /\ opens' = [opens EXCEPT ![m] = opens[m] + 1]
        /\ Material!Goto(c, Material!Idle)
        /\ UNCHANGED <<file, dates, Material!cron, stored, now, faults, torn, wasted, openedTwice>>
    BY DEF Material!CommitRecord, Material!Live
  <1>2. Material!Idle \in MaterialRequests /\ Material!Idle.op = "idle"
    BY DEF MaterialRequests, Material!Idle
  <1>3. /\ edit' \in [Sessions -> MaterialRequests]
        /\ edit'[c] = Material!Idle /\ \A d \in Sessions \ {c} : edit'[d] = edit[d]
    BY <1>1, <1>2, MaterialGotoTypes DEF MaterialsInv
  <1>4. m \notin openedTwice => opens[m] = 0 /\ \A d \in Sessions \ {c} : edit[d].op = "open" => edit[d].row # m
    BY <1>1 DEF MaterialsInv, MaterialOpensInv
  <1> HIDE DEF m
  <1>5. /\ opens' \in [Materials -> Nat] /\ opens'[m] = opens[m] + 1
        /\ \A n \in Materials \ {m} : opens'[n] = opens[n]
    BY <1>1, MaterialTypes DEF MaterialsInv
  <1>6. Material!TypeOK'
    BY <1>1, <1>3, <1>5, MaterialTypes, MaterialTyped DEF MaterialsInv, Material!TypeOK
  <1>7. MaterialOpensInv'
    <2>1. Material!OpenedOnce'
      BY <1>1, <1>4, <1>5 DEF MaterialsInv, MaterialOpensInv, Material!OpenedOnce
    <2>2. \A d \in Sessions : edit'[d].op = "open" => d # c /\ edit'[d] = edit[d] /\ edit[d].row \in Materials
      BY <1>2, <1>3, MaterialTypes DEF MaterialsInv, MaterialRequests, Material!Idle
    <2>3. QED
      BY <1>1, <1>4, <1>5, <2>1, <2>2 DEF MaterialsInv, MaterialOpensInv
  <1>8. MaterialFilesInv'
    BY <1>1, <1>2, <1>3 DEF MaterialsInv, MaterialFilesInv, Material!FilesMatchRows, Material!Deleting,
       Material!Held,
       MaterialFilesOnce, MaterialDeleted, MaterialWrites, MaterialHolds, MaterialClaims, Material!Live
  <1>9. QED
    BY <1>1, <1>6, <1>7, <1>8, MaterialPushesRest DEF MaterialsInv

-----------------------------------------------------------------------------
\* A file is uploaded under a new address.
LEMMA MaterialUploadFiles ==
  ASSUME Material!TypeOK, MaterialFilesInv, NEW c \in Sessions, NEW next \in MaterialRequests,
         NEW o \in Two, o \notin Material!Used,
         Material!Goto(c, next), stored' = stored \cup {o}, UNCHANGED <<file, dates, torn, wasted>>,
         \/ edit[c] = Material!Idle /\ next.op = "create" /\ next.file = o
         \/ /\ edit[c].op = "upload" /\ next.op = "write" /\ next.new = o
            /\ next.row = edit[c].row /\ next.old = edit[c].old
  PROVE  MaterialFilesInv'
  <1>1. /\ edit'[c] = next /\ \A d \in Sessions \ {c} : edit'[d] = edit[d]
        /\ \A x \in Two : ~MaterialHolds(edit[c], x) /\ (MaterialHolds(next, x) => x = o) /\ MaterialHolds(next, o)
    BY MaterialGotoTypes DEF MaterialHolds, Material!Idle
  <1>2. /\ o \notin stored /\ o \notin wasted /\ \A m \in Material!Owners : file[m] # o
        /\ \A d \in Sessions : MaterialClaims(edit[d]) => edit[d].old # o
    BY DEF Material!Used, MaterialClaims
  <1>3. /\ \A d \in Sessions : MaterialClaims(edit'[d]) =>
             MaterialClaims(edit[d]) /\ edit'[d].row = edit[d].row /\ edit'[d].old = edit[d].old
        /\ \A d \in Sessions, x \in Two : MaterialHolds(edit'[d], x) => (d = c /\ x = o) \/ (d # c /\ MaterialHolds(edit[d], x))
    BY <1>1 DEF MaterialClaims, Material!Idle
  <1>4. \A d \in Sessions : /\ edit[d].op \in {"upload", "write", "remove"} =>
                                 edit'[d].op \in {"upload", "write", "remove"} /\ edit'[d].row = edit[d].row
                            /\ edit'[d].op \in {"upload", "write", "remove"} =>
                                 edit[d].op \in {"upload", "write", "remove"} /\ edit'[d].old = edit[d].old
    BY <1>1 DEF Material!Idle
  <1>5. \A d \in Sessions, x \in Two : MaterialHolds(edit[d], x) => d # c /\ MaterialHolds(edit'[d], x)
    BY <1>1
  <1>6. Material!FilesMatchRows'
    <2>1. ASSUME NEW m \in Material!Owners
          PROVE  file'[m] \in stored' \cup {Material!NoFile} \/ m \in torn' \/ Material!Deleting(m)'
      BY <1>4 DEF MaterialFilesInv, Material!FilesMatchRows, Material!Deleting
    <2>2. ASSUME NEW x \in stored' \ wasted'
          PROVE  (\E d \in Sessions : MaterialHolds(edit'[d], x)) \/ \E m \in Material!Owners : file'[m] = x
      <3>1. CASE x = o
        BY <1>1, <3>1
      <3>2. CASE x # o
        <4>1. (\E d \in Sessions : MaterialHolds(edit[d], x)) \/ \E m \in Material!Owners : file[m] = x
          BY <2>2, <3>2 DEF MaterialFilesInv, Material!FilesMatchRows, Material!Held, MaterialHolds
        <4>2. x \in Two
          BY <2>2, MaterialTypes
        <4>3. QED
          BY <1>5, <4>1, <4>2
      <3>3. QED
        BY <3>1, <3>2
    <2>3. QED
      BY <2>1, <2>2 DEF Material!FilesMatchRows, Material!Held, MaterialHolds
  <1>7. MaterialFilesOnce'
    <2>1. \A m, n \in Material!Owners : file'[m] = file'[n] /\ file'[m] # Material!NoFile => m = n
      BY DEF MaterialFilesInv, MaterialFilesOnce
    <2>2. ASSUME NEW d \in Sessions, NEW m \in Material!Owners, MaterialClaims(edit'[d]), file'[m] = edit'[d].old,
                 file'[m] # Material!NoFile
          PROVE  m = edit'[d].row
      BY <1>3, <2>2 DEF MaterialFilesInv, MaterialFilesOnce
    <2>3. ASSUME NEW d \in Sessions, NEW x \in Two, MaterialHolds(edit'[d], x)
          PROVE  /\ x \in stored' /\ \A m \in Material!Owners : file'[m] # x
                 /\ \A e \in Sessions : /\ MaterialHolds(edit'[e], x) => e = d
                                        /\ MaterialClaims(edit'[e]) => edit'[e].old # x
      <3>1. CASE d = c
        <4>1. x = o
          BY <1>1, <2>3, <3>1
        <4>2. \A e \in Sessions \ {c} : ~MaterialHolds(edit[e], o)
          BY <1>2 DEF MaterialFilesInv, MaterialFilesOnce
        <4>3. QED
          BY <1>2, <1>3, <3>1, <4>1, <4>2
      <3>2. CASE d # c
        <4>1. MaterialHolds(edit[d], x) /\ x # o
          BY <1>1, <1>2, <2>3, <3>2 DEF MaterialFilesInv, MaterialFilesOnce
        <4>2. /\ x \in stored /\ \A m \in Material!Owners : file[m] # x
              /\ \A e \in Sessions : /\ MaterialHolds(edit[e], x) => e = d
                                     /\ MaterialClaims(edit[e]) => edit[e].old # x
          BY <4>1 DEF MaterialFilesInv, MaterialFilesOnce
        <4>3. QED
          BY <1>3, <4>1, <4>2
      <3>3. QED
        BY <3>1, <3>2
    <2>4. QED
      BY <2>1, <2>2, <2>3 DEF MaterialFilesOnce
  <1>8. MaterialDeleted'
    <2>1. ASSUME NEW d \in Sessions, edit'[d].op \in {"upload", "write", "remove"}
          PROVE  edit'[d].old \notin stored' \ wasted'
      <3>1. MaterialClaims(edit[d]) /\ edit'[d].old = edit[d].old /\ edit[d].op \in {"upload", "write", "remove"}
        BY <1>4, <2>1 DEF MaterialClaims
      <3>2. QED
        BY <1>2, <3>1 DEF MaterialFilesInv, MaterialDeleted
    <2>2. QED
      BY <2>1 DEF MaterialDeleted
  <1>9. MaterialWrites'
    BY <1>1 DEF MaterialFilesInv, MaterialWrites, Material!Live
  <1>10. QED
    BY <1>6, <1>7, <1>8, <1>9 DEF MaterialFilesInv

LEMMA MaterialUploadedKeeps ==
  ASSUME MaterialsInv, NEW c \in Sessions, NEW next \in MaterialRequests, NEW o \in Two, o \notin Material!Used,
         Material!Goto(c, next), stored' = stored \cup {o},
         UNCHANGED <<Material!rows, Material!cron, now, faults, torn, wasted, openedTwice>>,
         \/ edit[c] = Material!Idle /\ next.op = "create" /\ next.file = o
         \/ /\ edit[c].op = "upload" /\ next.op = "write" /\ next.new = o
            /\ next.row = edit[c].row /\ next.old = edit[c].old
  PROVE  MaterialsInv'
  <1> USE DEF MaterialsInv
  <1>1. edit' \in [Sessions -> MaterialRequests] /\ UNCHANGED <<file, dates, opens>>
    BY MaterialGotoTypes DEF Material!rows
  <1>2. Material!TypeOK'
    BY <1>1, MaterialTypes, MaterialTyped DEF Material!TypeOK
  <1>3. MaterialFilesInv'
    BY <1>1, MaterialUploadFiles
  <1>4. MaterialOpensInv'
    BY <1>1, MaterialOpensRest
  <1>5. QED
    BY <1>2, <1>3, <1>4, MaterialPushesRest

LEMMA MaterialOpenCreateKeeps ==
  ASSUME MaterialsInv, NEW c \in Sessions, NEW d \in Material!Dates, Material!OpenCreate(c, d)
  PROVE  MaterialsInv'
  <1>1. \A o \in Two \cup {Material!NoFile} : [op |-> "create", dates |-> d, file |-> o] \in MaterialRequests
    BY DEF MaterialRequests
  <1>2. CASE Material!Goto(c, [op |-> "create", dates |-> d, file |-> Material!NoFile]) /\ UNCHANGED stored
    BY <1>1, <1>2, MaterialOpenedKeeps DEF Material!OpenCreate, MaterialClaims
  <1>3. ASSUME NEW o \in Two \ Material!Used, Material!Goto(c, [op |-> "create", dates |-> d, file |-> o]),
               stored' = stored \cup {o}
        PROVE  MaterialsInv'
    BY <1>1, <1>3, MaterialUploadedKeeps DEF Material!OpenCreate
  <1>4. QED
    BY <1>2, <1>3 DEF Material!OpenCreate

LEMMA MaterialUploadKeeps ==
  ASSUME MaterialsInv, NEW c \in Sessions, NEW o \in Two, Material!Upload(c, o)
  PROVE  MaterialsInv'
  <1> DEFINE next == [edit[c] EXCEPT !.op = "write", !.new = o]
  <1>1. edit[c] \in [op : {"clear", "upload", "write", "edit"}, row : Material!Owners, old : Two \cup {Material!NoFile},
                     new : Two \cup {Material!NoFile}, dates : Material!Dates \cup {Material!Unmade}]
    BY MaterialTypes DEF Material!Upload, MaterialsInv, MaterialRequests, Material!Idle
  <1>2. /\ next \in MaterialRequests /\ next.op = "write" /\ next.new = o
        /\ next.row = edit[c].row /\ next.old = edit[c].old
    BY <1>1 DEF MaterialRequests
  <1>3. edit[c].op = "upload" /\ o \notin Material!Used /\ Material!Goto(c, next) /\ stored' = stored \cup {o}
    BY DEF Material!Upload
  <1> HIDE DEF next
  <1>4. QED
    BY <1>2, <1>3, MaterialUploadedKeeps DEF Material!Upload

-----------------------------------------------------------------------------
\* A request ends, having written at most the file it held into its row.
LEMMA MaterialEndFiles ==
  ASSUME Material!TypeOK, MaterialFilesInv, NEW c \in Sessions, Material!Goto(c, Material!Idle),
         NEW r \in Material!Owners,
         \A m \in Material!Owners \ {r} : file'[m] = file[m],
         file'[r] \in {file[r], Material!NoFile} \/ (file'[r] \in Two /\ MaterialHolds(edit[c], file'[r])),
         UNCHANGED stored, wasted \subseteq wasted', torn \subseteq torn', MaterialWrites',
         edit[c].op \in {"upload", "write", "remove"} =>
           edit[c].row = r /\ (r \in torn' \/ file'[r] \in stored \cup {Material!NoFile}),
         \A o \in stored \ wasted' : MaterialHolds(edit[c], o) \/ file[r] = o => file'[r] = o
  PROVE  MaterialFilesInv'
  <1>1. /\ edit'[c] = Material!Idle /\ \A d \in Sessions \ {c} : edit'[d] = edit[d]
        /\ \A x : ~MaterialHolds(Material!Idle, x)
        /\ ~MaterialClaims(Material!Idle) /\ Material!Idle.op = "idle"
    BY MaterialGotoTypes DEF MaterialRequests, MaterialHolds, MaterialClaims, Material!Idle
  <1>2. \A x \in Two : file'[r] = x => file[r] = x \/ MaterialHolds(edit[c], x)
    BY MaterialTypes
  <1>3. Material!FilesMatchRows'
    <2>1. ASSUME NEW m \in Material!Owners
          PROVE  file'[m] \in stored \cup {Material!NoFile} \/ m \in torn' \/ Material!Deleting(m)'
      <3>1. CASE m = r /\ file'[r] # file[r]
        BY <3>1 DEF MaterialFilesInv, MaterialFilesOnce
      <3>2. CASE file'[m] = file[m]
        <4>1. file[m] \in stored \cup {Material!NoFile} \/ m \in torn \/ Material!Deleting(m)
          BY DEF MaterialFilesInv, Material!FilesMatchRows
        <4>2. ASSUME NEW d \in Sessions, edit[d].op \in {"upload", "write", "remove"}, edit[d].row = m
              PROVE  file'[m] \in stored \cup {Material!NoFile} \/ m \in torn' \/ Material!Deleting(m)'
          <5>1. CASE d = c
            BY <4>2, <5>1
          <5>2. CASE d # c
            BY <1>1, <4>2, <5>2 DEF Material!Deleting
          <5>3. QED
            BY <5>1, <5>2
        <4>3. QED
          BY <3>2, <4>1, <4>2 DEF Material!Deleting
      <3>3. QED
        BY <3>1, <3>2
    <2>2. ASSUME NEW o \in stored \ wasted'
          PROVE  (\E d \in Sessions : MaterialHolds(edit'[d], o)) \/ \E m \in Material!Owners : file'[m] = o
      <3>1. (\E d \in Sessions : MaterialHolds(edit[d], o)) \/ \E m \in Material!Owners : file[m] = o
        BY <2>2 DEF MaterialFilesInv, Material!FilesMatchRows, Material!Held, MaterialHolds
      <3>2. QED
        BY <1>1, <2>2, <3>1
    <2>3. QED
      BY <2>1, <2>2 DEF Material!FilesMatchRows, Material!Held, MaterialHolds
  <1>4. MaterialFilesOnce'
    <2>1. ASSUME NEW m \in Material!Owners, NEW n \in Material!Owners, file'[m] = file'[n], file'[m] # Material!NoFile,
                 m # n
          PROVE  FALSE
      <3>1. file'[m] \in Two
        BY <2>1, MaterialTypes
      <3>2. CASE m # r /\ n # r
        BY <2>1, <3>2 DEF MaterialFilesInv, MaterialFilesOnce
      <3>3. CASE m = r
        BY <1>2, <2>1, <3>1, <3>3 DEF MaterialFilesInv, MaterialFilesOnce
      <3>4. CASE n = r
        BY <1>2, <2>1, <3>1, <3>4 DEF MaterialFilesInv, MaterialFilesOnce
      <3>5. QED
        BY <3>2, <3>3, <3>4
    <2>2. ASSUME NEW d \in Sessions, NEW m \in Material!Owners, MaterialClaims(edit'[d]), file'[m] = edit'[d].old,
                 file'[m] # Material!NoFile
          PROVE  m = edit'[d].row
      <3>1. d # c /\ edit'[d] = edit[d] /\ file'[m] \in Two
        BY <1>1, <2>2, MaterialTypes
      <3>2. CASE file'[m] = file[m]
        BY <2>2, <3>1, <3>2 DEF MaterialFilesInv, MaterialFilesOnce
      <3>3. CASE m = r /\ MaterialHolds(edit[c], file'[r])
        BY <2>2, <3>1, <3>3 DEF MaterialFilesInv, MaterialFilesOnce
      <3>4. QED
        BY <1>2, <2>2, <3>1, <3>2, <3>3
    <2>3. ASSUME NEW d \in Sessions, NEW x \in Two, MaterialHolds(edit'[d], x)
          PROVE  /\ x \in stored' /\ \A m \in Material!Owners : file'[m] # x
                 /\ \A e \in Sessions : /\ MaterialHolds(edit'[e], x) => e = d
                                        /\ MaterialClaims(edit'[e]) => edit'[e].old # x
      <3>1. d # c /\ MaterialHolds(edit[d], x)
        BY <1>1, <2>3
      <3>2. /\ x \in stored /\ \A m \in Material!Owners : file[m] # x
            /\ \A e \in Sessions : /\ MaterialHolds(edit[e], x) => e = d
                                   /\ MaterialClaims(edit[e]) => edit[e].old # x
        BY <3>1 DEF MaterialFilesInv, MaterialFilesOnce
      <3>3. QED
        BY <1>1, <1>2, <3>1, <3>2
    <2>4. QED
      BY <2>1, <2>2, <2>3 DEF MaterialFilesOnce
  <1>5. MaterialDeleted'
    BY <1>1 DEF MaterialFilesInv, MaterialDeleted
  <1>6. QED
    BY <1>3, <1>4, <1>5 DEF MaterialFilesInv

\* The rest of what a request that ends leaves behind.
LEMMA MaterialEndKeeps ==
  ASSUME MaterialsInv, NEW c \in Sessions, Material!Goto(c, Material!Idle), MaterialFilesInv',
         file' \in [Material!Owners -> Two \cup {Material!NoFile}],
         dates' \in [Materials -> Material!Dates \cup {Material!Unmade, Material!Gone}],
         opens' \in [Materials -> Nat], \A m \in Materials : opens'[m] \in {opens[m], 0},
         wasted' \subseteq Two, torn' \subseteq Material!Owners, faults' \in 0..MaxFaults,
         UNCHANGED <<Material!cron, stored, now, openedTwice>>
  PROVE  MaterialsInv'
  <1> USE DEF MaterialsInv
  <1>1. Material!Idle \in MaterialRequests /\ Material!Idle.op = "idle"
    BY DEF MaterialRequests, Material!Idle
  <1>2. edit' \in [Sessions -> MaterialRequests]
    BY <1>1, MaterialGotoTypes
  <1>3. Material!TypeOK'
    BY <1>2, MaterialTypes, MaterialTyped
  <1>4. MaterialOpensInv'
    BY <1>1, MaterialOpensRest
  <1>5. QED
    BY <1>3, <1>4, MaterialPushesRest

LEMMA MaterialCommitCreateKeeps ==
  ASSUME MaterialsInv, NEW c \in Sessions, NEW m \in Materials, Material!CommitCreate(c, m)
  PROVE  MaterialsInv'
  <1> DEFINE q == edit[c]
  <1>1. /\ q.op = "create" /\ dates[m] = Material!Unmade /\ m \in Material!Owners
        /\ dates' = [dates EXCEPT ![m] = q.dates] /\ file' = [file EXCEPT ![m] = q.file]
        /\ Material!Goto(c, Material!Idle)
        /\ UNCHANGED <<Material!cron, stored, opens, now, faults, torn, wasted, openedTwice>>
    BY DEF Material!CommitCreate, Material!Owners
  <1>2. q.dates \in Material!Dates /\ q.file \in Two \cup {Material!NoFile}
    BY <1>1, MaterialTypes DEF MaterialsInv, MaterialRequests, Material!Idle
  <1>3. file[m] = Material!NoFile
    BY <1>1 DEF MaterialsInv, MaterialFilesInv, MaterialWrites, Material!Live
  <1>4. \A x \in Two : MaterialHolds(q, x) <=> q.file = x
    BY <1>1 DEF MaterialHolds
  <1> HIDE DEF q
  <1>5. /\ file' \in [Material!Owners -> Two \cup {Material!NoFile}] /\ file'[m] = q.file
        /\ \A n \in Material!Owners \ {m} : file'[n] = file[n]
        /\ dates' \in [Materials -> Material!Dates \cup {Material!Unmade, Material!Gone}]
        /\ dates'[m] = q.dates /\ \A n \in Materials \ {m} : dates'[n] = dates[n]
    BY <1>1, <1>2, MaterialTypes DEF MaterialsInv
  <1>6. Material!Live' = Material!Live \cup {m}
    BY <1>2, <1>5 DEF Material!Live, Material!Unmade, Material!Gone, Material!Dates
  <1>7. MaterialWrites'
    <2>1. \A n \in Materials \ Material!Live' : file'[n] = Material!NoFile
      BY <1>5, <1>6 DEF MaterialsInv, MaterialFilesInv, MaterialWrites, Material!Owners
    <2>2. \A d \in Sessions : edit'[d] \in {edit[d], Material!Idle}
      BY <1>1, MaterialGotoTypes DEF MaterialsInv, MaterialRequests
    <2>3. QED
      BY <2>1, <2>2 DEF MaterialsInv, MaterialFilesInv, MaterialWrites, Material!Idle, Material!Dates
  <1>8. MaterialFilesInv'
    <2>1. \A o \in stored : o \in Two /\ file[m] # o
      BY <1>3, MaterialTypes DEF MaterialsInv
    <2>2. file'[m] \in {file[m], Material!NoFile} \/ (file'[m] \in Two /\ MaterialHolds(edit[c], file'[m]))
      BY <1>2, <1>4, <1>5 DEF q
    <2>3. \A o \in stored \ wasted' : MaterialHolds(edit[c], o) \/ file[m] = o => file'[m] = o
      BY <1>4, <1>5, <2>1 DEF q
    <2>4. QED
      BY <1>1, <1>5, <1>7, <2>2, <2>3, MaterialEndFiles DEF MaterialsInv, q
  <1>9. QED
    BY <1>1, <1>5, <1>8, MaterialEndKeeps, MaterialTypes DEF MaterialsInv, Material!TypeOK

\* A request that ends lets the others write what they meant to.
LEMMA MaterialEndWrites ==
  ASSUME MaterialsInv, NEW c \in Sessions, Material!Goto(c, Material!Idle),
         \A n \in Materials \ Material!Live' : file'[n] = Material!NoFile
  PROVE  MaterialWrites'
  <1>1. \A d \in Sessions : edit'[d] \in {edit[d], Material!Idle}
    BY MaterialGotoTypes DEF MaterialsInv, MaterialRequests
  <1>2. QED
    BY <1>1 DEF MaterialsInv, MaterialFilesInv, MaterialWrites, Material!Idle, Material!Dates

LEMMA MaterialCommitReplaceKeeps ==
  ASSUME MaterialsInv, NEW c \in Sessions, Material!CommitReplace(c)
  PROVE  MaterialsInv'
  <1> DEFINE q == edit[c]
             m == q.row
  <1>1. /\ q.op = "write" /\ m \in Material!Owners /\ m \in Material!Live \cup {Logo}
        /\ file' = [file EXCEPT ![m] = q.new]
        /\ wasted' = wasted \cup ({file[m]} \ {q.old, Material!NoFile})
        /\ Material!Goto(c, Material!Idle)
        /\ UNCHANGED <<dates, opens, Material!cron, stored, now, faults, torn, openedTwice>>
    BY DEF Material!CommitReplace, Material!Replaced, Material!Owners, Material!Live
  <1>2. q.new \in Two /\ q.old \notin stored \ wasted
    BY <1>1 DEF MaterialsInv, MaterialFilesInv, MaterialWrites, MaterialDeleted
  <1>3. \A x \in Two : MaterialHolds(q, x) <=> q.new = x
    BY <1>1 DEF MaterialHolds
  <1>4. q.new \in stored
    BY <1>2, <1>3 DEF MaterialsInv, MaterialFilesInv, MaterialFilesOnce
  <1> HIDE DEF q, m
  <1>5. /\ file' \in [Material!Owners -> Two \cup {Material!NoFile}] /\ file'[m] = q.new
        /\ \A n \in Material!Owners \ {m} : file'[n] = file[n]
        /\ wasted' \subseteq Two /\ Material!NoFile \notin Two /\ stored \subseteq Two
    BY <1>1, <1>2, MaterialTypes DEF MaterialsInv
  <1>6. MaterialWrites'
    <2>1. \A n \in Materials \ Material!Live' : n # m /\ n \in Material!Owners /\ n \notin Material!Live
      BY <1>1, FileMarksApart DEF Material!Live, Material!Owners
    <2>2. QED
      BY <1>1, <1>5, <2>1, MaterialEndWrites DEF MaterialsInv, MaterialFilesInv, MaterialWrites
  <1>7. MaterialFilesInv'
    <2>1. file'[m] \in Two /\ MaterialHolds(edit[c], file'[m])
      BY <1>2, <1>3, <1>5 DEF q
    <2>2. \A o \in stored \ wasted' : file[m] # o /\ (MaterialHolds(edit[c], o) => file'[m] = o)
      BY <1>1, <1>2, <1>3, <1>5 DEF q
    <2>3. QED
      BY <1>1, <1>4, <1>5, <1>6, <2>1, <2>2, MaterialEndFiles DEF MaterialsInv, q, m
  <1>8. QED
    BY <1>1, <1>5, <1>7, MaterialEndKeeps, MaterialTypes DEF MaterialsInv, Material!TypeOK

LEMMA MaterialCommitEditKeeps ==
  ASSUME MaterialsInv, NEW c \in Sessions, Material!CommitEdit(c)
  PROVE  MaterialsInv'
  <1> DEFINE q == edit[c]
             m == q.row
  <1>1. /\ q.op = "edit" /\ m \in Material!Live /\ m \in Materials /\ m \in Material!Owners
        /\ dates' = [dates EXCEPT ![m] = q.dates]
        /\ Material!Goto(c, Material!Idle)
        /\ UNCHANGED <<file, opens, Material!cron, stored, now, faults, torn, wasted, openedTwice>>
    BY DEF Material!CommitEdit, Material!Live, Material!Owners
  <1>2. q.dates \in Material!Dates /\ \A x : ~MaterialHolds(q, x)
    BY <1>1 DEF MaterialsInv, MaterialFilesInv, MaterialWrites, MaterialHolds
  <1> HIDE DEF q, m
  <1>3. /\ dates' \in [Materials -> Material!Dates \cup {Material!Unmade, Material!Gone}]
        /\ dates'[m] = q.dates /\ \A n \in Materials \ {m} : dates'[n] = dates[n]
    BY <1>1, <1>2, MaterialTypes DEF MaterialsInv
  <1>4. Material!Live' = Material!Live
    BY <1>1, <1>2, <1>3 DEF Material!Live, Material!Unmade, Material!Gone, Material!Dates
  <1>5. MaterialWrites'
    BY <1>1, <1>4, MaterialEndWrites DEF MaterialsInv, MaterialFilesInv, MaterialWrites
  <1>6. MaterialFilesInv'
    <2>1. q.op \notin {"upload", "write", "remove"}
      BY <1>1
    <2>2. QED
      BY <1>1, <1>2, <1>5, <2>1, MaterialEndFiles DEF MaterialsInv, q
  <1>7. QED
    BY <1>1, <1>3, <1>6, MaterialEndKeeps, MaterialTypes DEF MaterialsInv, Material!TypeOK

LEMMA MaterialCommitRemoveKeeps ==
  ASSUME MaterialsInv, NEW c \in Sessions, Material!CommitRemove(c)
  PROVE  MaterialsInv'
  <1> DEFINE q == edit[c]
             m == q.row
  <1>1. /\ q.op = "remove" /\ m \in Material!Live /\ m \in Materials /\ m \in Material!Owners
        /\ dates' = [dates EXCEPT ![m] = Material!Gone]
        /\ file' = [file EXCEPT ![m] = Material!NoFile]
        /\ opens' = [opens EXCEPT ![m] = 0]
        /\ wasted' = wasted \cup ({file[m]} \ {q.old, Material!NoFile})
        /\ Material!Goto(c, Material!Idle)
        /\ UNCHANGED <<Material!cron, stored, now, faults, torn, openedTwice>>
    BY DEF Material!CommitRemove, Material!Replaced, Material!Owners, Material!Live
  <1>2. q.old \notin stored \ wasted /\ \A x : ~MaterialHolds(q, x)
    BY <1>1 DEF MaterialsInv, MaterialFilesInv, MaterialDeleted, MaterialHolds
  <1> HIDE DEF q, m
  <1>3. /\ file' \in [Material!Owners -> Two \cup {Material!NoFile}] /\ file'[m] = Material!NoFile
        /\ \A n \in Material!Owners \ {m} : file'[n] = file[n]
        /\ wasted' \subseteq Two /\ Material!NoFile \notin Two /\ stored \subseteq Two
    BY <1>1, MaterialTypes DEF MaterialsInv
  <1>4. /\ dates' \in [Materials -> Material!Dates \cup {Material!Unmade, Material!Gone}]
        /\ dates'[m] = Material!Gone /\ \A n \in Materials \ {m} : dates'[n] = dates[n]
        /\ opens' \in [Materials -> Nat] /\ \A n \in Materials : opens'[n] \in {opens[n], 0}
    BY <1>1, MaterialTypes DEF MaterialsInv
  <1>5. Material!Live' = Material!Live \ {m}
    BY <1>1, <1>4 DEF Material!Live
  <1>6. MaterialWrites'
    <2>1. \A n \in Materials \ Material!Live' : file'[n] = Material!NoFile
      BY <1>3, <1>5 DEF MaterialsInv, MaterialFilesInv, MaterialWrites, Material!Owners
    <2>2. QED
      BY <1>1, <2>1, MaterialEndWrites
  <1>7. MaterialFilesInv'
    <2>1. \A o \in stored \ wasted' : file[m] # o /\ ~MaterialHolds(edit[c], o)
      BY <1>1, <1>2, <1>3 DEF q
    <2>2. QED
      BY <1>1, <1>3, <1>6, <2>1, MaterialEndFiles DEF MaterialsInv, q, m
  <1>8. QED
    BY <1>1, <1>3, <1>4, <1>7, MaterialEndKeeps DEF MaterialsInv, Material!TypeOK

LEMMA MaterialRollbackKeeps ==
  ASSUME MaterialsInv, NEW c \in Sessions, Material!Rollback(c)
  PROVE  MaterialsInv'
  <1> DEFINE q == edit[c]
             lost == (CASE q.op = "create" -> {q.file} [] q.op = "write" -> {q.new} [] OTHER -> {}) \ {Material!NoFile}
  <1>1. /\ Material!Goto(c, Material!Idle)
        /\ torn' = IF q.op \in {"upload", "write", "remove"} THEN torn \cup {q.row} ELSE torn
        /\ wasted' = wasted \cup lost
        /\ UNCHANGED <<Material!rows, Material!cron, stored, now, openedTwice>>
        /\ faults' \in 0..MaxFaults
    BY BoundsAssumption DEF Material!Rollback, MaterialsInv, Material!TypeOK
  <1>2. q \in MaterialRequests
    BY MaterialTypes DEF MaterialsInv
  <1>3. lost \subseteq Two /\ \A x \in Two : MaterialHolds(q, x) => x \in lost
    <2>1. CASE q.op = "create"
      <3>1. q.file \in Two \cup {Material!NoFile} /\ lost = {q.file} \ {Material!NoFile}
        BY <1>2, <2>1 DEF MaterialRequests, Material!Idle
      <3>2. QED
        BY <2>1, <3>1, MaterialTypes DEF MaterialHolds, MaterialsInv
    <2>2. CASE q.op = "write"
      <3>1. q.new \in Two \cup {Material!NoFile} /\ lost = {q.new} \ {Material!NoFile}
        BY <1>2, <2>2 DEF MaterialRequests, Material!Idle
      <3>2. QED
        BY <2>2, <3>1, MaterialTypes DEF MaterialHolds, MaterialsInv
    <2>3. CASE q.op \notin {"create", "write"}
      <3>1. lost = {}
        BY <2>3
      <3>2. QED
        BY <2>3, <3>1 DEF MaterialHolds
    <2>4. QED
      BY <2>1, <2>2, <2>3
  <1>4. \E r \in Material!Owners : q.op \in {"upload", "write", "remove"} => q.row = r
    <2>1. q.op \in {"upload", "write", "remove"} => q.row \in Material!Owners
      BY <1>2 DEF MaterialRequests, Material!Idle, Material!Owners
    <2>2. QED
      BY <2>1 DEF Material!Owners
  <1> HIDE DEF q, lost
  <1>5. PICK r \in Material!Owners : q.op \in {"upload", "write", "remove"} => q.row = r
    BY <1>4
  <1>6. UNCHANGED <<file, dates, opens>> /\ Material!Live' = Material!Live /\ torn' \subseteq Material!Owners
    BY <1>1, <1>5, MaterialTypes DEF Material!rows, Material!Live, MaterialsInv
  <1>7. MaterialWrites'
    BY <1>1, <1>6, MaterialEndWrites DEF MaterialsInv, MaterialFilesInv, MaterialWrites
  <1>8. MaterialFilesInv'
    <2>1. q.op \in {"upload", "write", "remove"} => r \in torn'
      BY <1>1, <1>5
    <2>2. \A o \in stored \ wasted' : ~MaterialHolds(edit[c], o)
      BY <1>1, <1>3, MaterialTypes DEF MaterialsInv, q
    <2>3. torn \subseteq torn' /\ wasted \subseteq wasted'
      BY <1>1
    <2>4. QED
      BY <1>1, <1>5, <1>6, <1>7, <2>1, <2>2, <2>3, MaterialEndFiles DEF MaterialsInv, q
  <1>9. wasted' \subseteq Two
    BY <1>1, <1>3, MaterialTypes DEF MaterialsInv
  <1>10. QED
    BY <1>1, <1>6, <1>8, <1>9, MaterialEndKeeps, MaterialTypes DEF MaterialsInv

-----------------------------------------------------------------------------
LEMMA MaterialDeleteFileKeeps ==
  ASSUME MaterialsInv, NEW c \in Sessions, Material!DeleteFile(c)
  PROVE  MaterialsInv'
  <1> DEFINE q == edit[c]
             next == [q EXCEPT !.op = IF q.op = "clear" THEN "upload" ELSE "remove"]
  <1>1. /\ q.op \in {"clear", "discard"} /\ Material!Goto(c, next)
        /\ \/ stored' = stored \ {q.old} /\ UNCHANGED <<faults, wasted>>
           \/ /\ faults < MaxFaults /\ faults' = faults + 1
              /\ wasted' = wasted \cup (stored \cap {q.old})
              /\ UNCHANGED stored
        /\ UNCHANGED <<Material!rows, Material!cron, now, torn, openedTwice>>
    BY DEF Material!DeleteFile
  <1>2. /\ next \in MaterialRequests /\ next.op \in {"upload", "remove"}
        /\ next.row = q.row /\ next.old = q.old /\ q.row \in Material!Owners
    <2>1. q \in MaterialRequests
      BY MaterialTypes DEF MaterialsInv
    <2>2. CASE q.op = "clear"
      <3>1. q \in [op : {"clear", "upload", "write", "edit"}, row : Material!Owners, old : Two \cup {Material!NoFile},
                   new : Two \cup {Material!NoFile}, dates : Material!Dates \cup {Material!Unmade}]
        BY <2>1, <2>2 DEF MaterialRequests, Material!Idle
      <3>2. QED
        BY <2>2, <3>1 DEF MaterialRequests
    <2>3. CASE q.op = "discard"
      <3>1. q \in [op : {"discard", "remove"}, row : Materials, old : Two \cup {Material!NoFile}]
        BY <2>1, <2>3 DEF MaterialRequests, Material!Idle
      <3>2. QED
        BY <2>3, <3>1 DEF MaterialRequests, Material!Owners
    <2>4. QED
      BY <1>1, <2>2, <2>3
  <1> HIDE DEF next
  <1>3. /\ UNCHANGED <<file, dates, opens>> /\ wasted \subseteq wasted' /\ stored' \subseteq stored
        /\ stored \ {q.old} \subseteq stored' /\ q.old \notin stored' \ wasted'
        /\ wasted' \subseteq Two /\ faults' \in 0..MaxFaults
    BY <1>1, MaterialTypes, BoundsAssumption DEF Material!rows, MaterialsInv, Material!TypeOK
  <1>4. /\ edit' \in [Sessions -> MaterialRequests]
        /\ edit'[c] = next /\ \A d \in Sessions \ {c} : edit'[d] = edit[d]
    BY <1>1, <1>2, MaterialGotoTypes DEF MaterialsInv
  <1>5. /\ MaterialClaims(q) /\ MaterialClaims(next)
        /\ \A x : ~MaterialHolds(q, x) /\ ~MaterialHolds(next, x)
    BY <1>1, <1>2 DEF MaterialClaims, MaterialHolds
  <1>6. Material!TypeOK'
    BY <1>1, <1>3, <1>4, MaterialTypes, MaterialTyped DEF MaterialsInv
  <1>7. \A m \in Material!Owners : file[m] = q.old /\ file[m] # Material!NoFile => m = q.row
    BY <1>5 DEF MaterialsInv, MaterialFilesInv, MaterialFilesOnce
  <1>8. \A d \in Sessions, x \in Two : MaterialHolds(edit[d], x) => x # q.old
    BY <1>5 DEF MaterialsInv, MaterialFilesInv, MaterialFilesOnce
  <1> HIDE DEF q
  <1>9. Material!FilesMatchRows'
    <2>1. ASSUME NEW m \in Material!Owners
          PROVE  file'[m] \in stored' \cup {Material!NoFile} \/ m \in torn' \/ Material!Deleting(m)'
      <3>1. CASE m = q.row
        BY <1>2, <1>4, <3>1 DEF Material!Deleting
      <3>2. CASE m # q.row
        <4>1. file[m] \in stored \cup {Material!NoFile} \/ m \in torn \/ Material!Deleting(m)
          BY DEF MaterialsInv, MaterialFilesInv, Material!FilesMatchRows
        <4>2. file[m] \in stored => file'[m] \in stored' \cup {Material!NoFile}
          BY <1>3, <1>7, <3>2
        <4>3. Material!Deleting(m) => Material!Deleting(m)'
          BY <1>1, <1>4, <3>2 DEF Material!Deleting, q
        <4>4. QED
          BY <1>1, <1>3, <4>1, <4>2, <4>3
      <3>3. QED
        BY <3>1, <3>2
    <2>2. ASSUME NEW o \in stored' \ wasted'
          PROVE  (\E d \in Sessions : MaterialHolds(edit'[d], o)) \/ \E m \in Material!Owners : file'[m] = o
      <3>1. (\E d \in Sessions : MaterialHolds(edit[d], o)) \/ \E m \in Material!Owners : file[m] = o
        BY <1>3, <2>2 DEF MaterialsInv, MaterialFilesInv, Material!FilesMatchRows, Material!Held, MaterialHolds
      <3>2. QED
        BY <1>3, <1>4, <1>5, <3>1 DEF q
    <2>3. QED
      BY <2>1, <2>2 DEF Material!FilesMatchRows, Material!Held, MaterialHolds
  <1>10. MaterialFilesOnce'
    <2>1. /\ \A d \in Sessions : MaterialClaims(edit'[d]) =>
               MaterialClaims(edit[d]) /\ edit'[d].row = edit[d].row /\ edit'[d].old = edit[d].old
          /\ \A d \in Sessions, x \in Two : MaterialHolds(edit'[d], x) => MaterialHolds(edit[d], x)
      BY <1>2, <1>4, <1>5 DEF q
    <2>2. \A m, n \in Material!Owners : file'[m] = file'[n] /\ file'[m] # Material!NoFile => m = n
      BY <1>3 DEF MaterialsInv, MaterialFilesInv, MaterialFilesOnce
    <2>3. \A d \in Sessions, m \in Material!Owners :
            MaterialClaims(edit'[d]) /\ file'[m] = edit'[d].old /\ file'[m] # Material!NoFile => m = edit'[d].row
      BY <1>3, <2>1 DEF MaterialsInv, MaterialFilesInv, MaterialFilesOnce
    <2>4. ASSUME NEW d \in Sessions, NEW x \in Two, MaterialHolds(edit'[d], x)
          PROVE  /\ x \in stored' /\ \A m \in Material!Owners : file'[m] # x
                 /\ \A e \in Sessions : /\ MaterialHolds(edit'[e], x) => e = d
                                        /\ MaterialClaims(edit'[e]) => edit'[e].old # x
      <3>1. /\ x \in stored /\ \A m \in Material!Owners : file[m] # x
            /\ \A e \in Sessions : /\ MaterialHolds(edit[e], x) => e = d
                                   /\ MaterialClaims(edit[e]) => edit[e].old # x
        BY <2>1, <2>4 DEF MaterialsInv, MaterialFilesInv, MaterialFilesOnce
      <3>2. x # q.old
        BY <1>8, <2>1, <2>4
      <3>3. QED
        BY <1>3, <2>1, <3>1, <3>2
    <2>5. QED
      BY <2>2, <2>3, <2>4 DEF MaterialFilesOnce
  <1>11. MaterialDeleted'
    BY <1>2, <1>3, <1>4 DEF MaterialsInv, MaterialFilesInv, MaterialDeleted
  <1>12. MaterialWrites'
    BY <1>2, <1>3, <1>4 DEF MaterialsInv, MaterialFilesInv, MaterialWrites, Material!Live
  <1>13. MaterialFilesInv'
    BY <1>9, <1>10, <1>11, <1>12 DEF MaterialFilesInv
  <1>14. MaterialOpensInv'
    BY <1>1, <1>2, <1>3, MaterialOpensRest DEF MaterialsInv
  <1>15. QED
    BY <1>1, <1>6, <1>13, <1>14, MaterialPushesRest DEF MaterialsInv

-----------------------------------------------------------------------------
\* The cron and the clock leave rows, files and requests alone.
LEMMA MaterialCronKeeps ==
  ASSUME MaterialsInv, UNCHANGED <<Material!rows, stored, edit, torn, wasted, openedTwice>>,
         Material!TypeOK', MaterialPushesInv'
  PROVE  MaterialsInv'
  <1> USE DEF Material!rows
  <1>1. Material!Live' = Material!Live
    BY DEF Material!Live
  <1>2. MaterialFilesInv'
    BY <1>1 DEF MaterialsInv, MaterialFilesInv, Material!FilesMatchRows, MaterialFilesOnce, MaterialDeleted,
                MaterialWrites, Material!Held, Material!Deleting
  <1>3. MaterialOpensInv'
    BY DEF MaterialsInv, MaterialOpensInv, Material!OpenedOnce
  <1>4. QED
    BY <1>2, <1>3 DEF MaterialsInv

LEMMA MaterialCronTyped ==
  ASSUME MaterialsInv, UNCHANGED <<Material!rows, stored, edit, torn, wasted, openedTwice>>,
         notified' \subseteq Materials, pushed' \subseteq Materials, now' \in 0..MaxDay, faults' \in 0..MaxFaults,
         sweep' \in [Processes -> [found : SUBSET Materials, sent : SUBSET Materials]]
  PROVE  Material!TypeOK'
  BY DEF MaterialsInv, Material!TypeOK, Material!rows

\* One run of the cron goes on.
LEMMA MaterialSweepKeeps ==
  ASSUME MaterialsInv, NEW p \in Processes,
         NEW next \in [found : SUBSET Materials, sent : SUBSET Materials],
         sweep' = [sweep EXCEPT ![p] = next],
         UNCHANGED <<Material!rows, stored, now, edit, torn, wasted, openedTwice>>,
         faults' \in 0..MaxFaults, pushed \subseteq pushed', pushed' \subseteq Materials,
         next.sent \subseteq pushed', notified' \subseteq pushed'
  PROVE  MaterialsInv'
  <1>1. /\ sweep' \in [Processes -> [found : SUBSET Materials, sent : SUBSET Materials]]
        /\ sweep'[p] = next /\ \A r \in Processes \ {p} : sweep'[r] = sweep[r]
    BY DEF MaterialsInv, Material!TypeOK
  <1>2. Material!TypeOK'
    BY <1>1, MaterialCronTyped DEF MaterialsInv, Material!TypeOK
  <1>3. MaterialPushesInv'
    BY <1>1 DEF MaterialsInv, MaterialPushesInv, Material!NotifiedIsPushed
  <1>4. QED
    BY <1>2, <1>3, MaterialCronKeeps

LEMMA MaterialSweepsKeep ==
  ASSUME MaterialsInv, NEW p \in Processes,
         \/ Material!FindPending(p)
         \/ \E m \in Materials : Material!Push(p, m) \/ Material!Mark(p, m) \/ Material!Skip(p, m)
  PROVE  MaterialsInv'
  <1> DEFINE run == sweep[p]
  <1>1. /\ run \in [found : SUBSET Materials, sent : SUBSET Materials] /\ run.sent \subseteq pushed
        /\ notified \subseteq pushed /\ pushed \subseteq Materials /\ faults \in 0..MaxFaults
    BY DEF MaterialsInv, Material!TypeOK, MaterialPushesInv, Material!NotifiedIsPushed
  <1>2. CASE Material!FindPending(p)
    <2> DEFINE next == [run EXCEPT !.found = Material!Due \ notified]
    <2>1. next \in [found : SUBSET Materials, sent : SUBSET Materials] /\ next.sent = run.sent
      BY <1>1 DEF Material!Due, Material!Live
    <2>2. sweep' = [sweep EXCEPT ![p] = next] /\ UNCHANGED <<Material!rows, notified, stored, now, edit, faults, Material!history>>
      BY <1>2 DEF Material!FindPending
    <2> HIDE DEF next
    <2>3. QED
      BY <1>1, <2>1, <2>2, MaterialSweepKeeps DEF Material!history
  <1>3. ASSUME NEW m \in Materials, Material!Push(p, m) PROVE MaterialsInv'
    <2> DEFINE next == [found |-> run.found \ {m}, sent |-> {m}]
    <2>1. next \in [found : SUBSET Materials, sent : SUBSET Materials] /\ next.sent = {m}
      BY <1>1
    <2>2. /\ sweep' = [sweep EXCEPT ![p] = next] /\ pushed' = pushed \cup {m}
          /\ UNCHANGED <<Material!rows, notified, stored, now, edit, faults, torn, wasted, openedTwice>>
      BY <1>3 DEF Material!Push
    <2> HIDE DEF next
    <2>3. QED
      BY <1>1, <2>1, <2>2, MaterialSweepKeeps
  <1>4. ASSUME NEW m \in Materials, Material!Mark(p, m) PROVE MaterialsInv'
    <2> DEFINE next == [run EXCEPT !.sent = {}]
    <2>1. next \in [found : SUBSET Materials, sent : SUBSET Materials] /\ next.sent = {}
      BY <1>1
    <2>2. /\ sweep' = [sweep EXCEPT ![p] = next] /\ m \in run.sent /\ notified' = notified \cup ({m} \cap Material!Live)
          /\ UNCHANGED <<Material!rows, stored, now, edit, faults, Material!history>>
      BY <1>4 DEF Material!Mark
    <2> HIDE DEF next
    <2>3. QED
      BY <1>1, <2>1, <2>2, MaterialSweepKeeps DEF Material!history
  <1>5. ASSUME NEW m \in Materials, Material!Skip(p, m) PROVE MaterialsInv'
    <2> DEFINE next == [found |-> run.found \ {m}, sent |-> {}]
    <2>1. next \in [found : SUBSET Materials, sent : SUBSET Materials] /\ next.sent = {}
      BY <1>1
    <2>2. /\ sweep' = [sweep EXCEPT ![p] = next] /\ faults' \in 0..MaxFaults
          /\ UNCHANGED <<Material!rows, notified, stored, now, edit, Material!history>>
      BY <1>1, <1>5, BoundsAssumption DEF Material!Skip
    <2> HIDE DEF next
    <2>3. QED
      BY <1>1, <2>1, <2>2, MaterialSweepKeeps DEF Material!history
  <1>6. QED
    BY <1>2, <1>3, <1>4, <1>5

LEMMA MaterialTickKeeps ==
  ASSUME MaterialsInv, Material!Tick
  PROVE  MaterialsInv'
  <1>1. /\ now' \in 0..MaxDay
        /\ UNCHANGED <<Material!rows, Material!cron, stored, edit, faults, torn, wasted, openedTwice>>
    BY BoundsAssumption DEF Material!Tick, MaterialsInv, Material!TypeOK
  <1>2. Material!TypeOK'
    BY <1>1, MaterialCronTyped DEF Material!cron, MaterialsInv, Material!TypeOK
  <1>3. QED
    BY <1>1, <1>2, MaterialCronKeeps, MaterialPushesRest DEF MaterialsInv

LEMMA MaterialNextKeeps == MaterialsInv /\ [Material!Next]_(Material!materialVars) => MaterialsInv'
  <1> SUFFICES ASSUME MaterialsInv, [Material!Next]_(Material!materialVars) PROVE MaterialsInv'
    OBVIOUS
  <1>1. CASE UNCHANGED Material!materialVars
    <2>1. UNCHANGED <<Material!rows, Material!cron, stored, now, edit, faults, torn, wasted, openedTwice>>
      BY <1>1 DEF Material!materialVars, Material!rows, Material!cron
    <2>2. Material!TypeOK'
      BY <2>1, MaterialCronTyped DEF Material!cron, MaterialsInv, Material!TypeOK
    <2>3. QED
      BY <2>1, <2>2, MaterialCronKeeps, MaterialPushesRest DEF MaterialsInv
  <1>2. CASE Material!Next
    BY <1>2, MaterialOpenCreateKeeps, MaterialCommitCreateKeeps, MaterialOpenKeeps, MaterialDeleteFileKeeps,
       MaterialUploadKeeps, MaterialCommitReplaceKeeps, MaterialCommitEditKeeps, MaterialCommitRemoveKeeps,
       MaterialOpenRecordKeeps, MaterialCommitRecordKeeps, MaterialRollbackKeeps, MaterialSweepsKeep,
       MaterialTickKeeps DEF Material!Next
  <1>3. QED
    BY <1>1, <1>2

\* The study materials cohere in every reachable state: a row has its file and
\* a file its row but for what a failure or two requests on one row left, a
\* reader is counted once unless two requests ran at once, what is marked was
\* pushed, and the list files a material under the status it shows.
THEOREM MaterialsStayCoherent == AllSpec => []MaterialsCohere
  <1>1. AllInit => MaterialsInv
    BY MaterialInitHolds DEF AllInit
  <1>2. MaterialsInv /\ [AllNext]_allVars => MaterialsInv'
    BY PartsMoveAlone, MaterialNextKeeps
  <1>3. MaterialsInv => MaterialsCohere
    BY MaterialStatus DEF MaterialsInv, MaterialFilesInv, MaterialOpensInv, MaterialPushesInv,
       Material!MaterialsCohere, MaterialsCohere
  <1>4. QED
    BY <1>1, <1>2, <1>3, PTL DEF AllSpec

-----------------------------------------------------------------------------
(* VisitorRegistration.                                                     *)

\* A device that found nobody with a phone is right, but for persons made
\* meanwhile by another device that had looked in vain.
LookedInVain ==
  \A d \in Sessions : device[d].step = "make" /\ device[d].phone \in Phones =>
    \A p \in Three : phone[p] = device[d].phone => p \in blind

\* The devices whose scan was counted and that have not registered yet.
ScannedAhead == {d \in Sessions : device[d].step \in {"counted", "make", "visit"}}

\* Each visit, and each registration that may still add one, has its scan.
ScansPayVisits ==
  /\ IsFiniteSet(Visitor!VisitRecords)
  /\ Cardinality(Visitor!VisitRecords) + Cardinality(ScannedAhead) <= scans

VisitorInv == Visitor!RegistrationsCohere /\ LookedInVain /\ ScansPayVisits

LEMMA VisitorCounts == \A S : Visitor!Cardinality(S) = Cardinality(S)
  BY DEF Visitor!Cardinality, Cardinality

LEMMA AheadIsFinite == IsFiniteSet(ScannedAhead) /\ Cardinality(ScannedAhead) \in Nat
  <1>1. ScannedAhead \subseteq Sessions
    BY DEF ScannedAhead
  <1>2. QED
    BY <1>1, PeopleAreFinite, FS_Subset, FS_CardinalityType

LEMMA VisitorInitHolds == Visitor!Init => VisitorInv
  <1> SUFFICES ASSUME Visitor!Init PROVE VisitorInv
    OBVIOUS
  <1> USE DEF Visitor!Init
  <1>1. Visitor!TypeOK
    BY BoundsAssumption DEF Visitor!TypeOK, Visitor!Unmade, Visitor!Idle
  <1>2. Visitor!OnePersonPerPhone
    BY PhoneMarksApart DEF Visitor!OnePersonPerPhone, Visitor!Unmade
  <1>3. ScannedAhead = {} /\ LookedInVain
    BY DEF ScannedAhead, LookedInVain, Visitor!Idle
  <1>4. Visitor!VisitRecords = {}
    BY DEF Visitor!VisitRecords
  <1>5. QED
    BY <1>1, <1>2, <1>3, <1>4, FS_EmptySet, VisitorCounts
    DEF VisitorInv, Visitor!RegistrationsCohere, Visitor!VisitsAreCounted, ScansPayVisits

\* A device goes on without a record being written.
LEMMA VisitorGoesOn ==
  ASSUME VisitorInv, NEW d \in Sessions, NEW next, device' = [device EXCEPT ![d] = next],
         Visitor!TypeOK', UNCHANGED <<phone, consents, arrivals, blind>>,
         next.step = "make" /\ next.phone \in Phones => \A p \in Three : phone[p] # next.phone,
         \/ scans' = scans + 1
         \/ scans' = scans /\ (next.step \in {"counted", "make", "visit"} => d \in ScannedAhead)
  PROVE  VisitorInv'
  <1>1. \A e \in Sessions : device'[e] = IF e = d THEN next ELSE device[e]
    BY DEF VisitorInv, Visitor!RegistrationsCohere, Visitor!TypeOK
  <1>2. Visitor!OnePersonPerPhone' /\ Visitor!VisitRecords' = Visitor!VisitRecords
    BY DEF VisitorInv, Visitor!RegistrationsCohere, Visitor!OnePersonPerPhone, Visitor!VisitRecords
  <1>3. LookedInVain'
    BY <1>1 DEF VisitorInv, LookedInVain
  <1>4. scans \in Nat /\ scans' \in Nat /\ Cardinality(Visitor!VisitRecords) \in Nat
    BY BoundsAssumption, FS_CardinalityType
    DEF VisitorInv, Visitor!RegistrationsCohere, Visitor!TypeOK, ScansPayVisits
  <1>5. IsFiniteSet(ScannedAhead') /\ Cardinality(ScannedAhead') \in Nat
    <2>1. ScannedAhead' \subseteq Sessions
      BY DEF ScannedAhead
    <2>2. QED
      BY <2>1, PeopleAreFinite, FS_Subset, FS_CardinalityType
  <1>6. Cardinality(Visitor!VisitRecords) + Cardinality(ScannedAhead') <= scans'
    <2>1. CASE scans' = scans + 1
      <3>1. ScannedAhead' \subseteq ScannedAhead \cup {d}
        BY <1>1 DEF ScannedAhead
      <3>2. IsFiniteSet(ScannedAhead \cup {d})
            /\ Cardinality(ScannedAhead \cup {d}) <= Cardinality(ScannedAhead) + 1
            /\ Cardinality(ScannedAhead \cup {d}) \in Nat
        <4>1. CASE d \in ScannedAhead
          <5> DEFINE all == ScannedAhead \cup {d}
          <5>1. all = ScannedAhead
            BY <4>1
          <5> HIDE DEF all
          <5>2. IsFiniteSet(all) /\ Cardinality(all) <= Cardinality(ScannedAhead) + 1 /\ Cardinality(all) \in Nat
            BY <5>1, AheadIsFinite
          <5>3. QED
            BY <5>2 DEF all
        <4>2. CASE d \notin ScannedAhead
          BY <4>2, AheadIsFinite, FS_AddElement
        <4>3. QED
          BY <4>1, <4>2
      <3>3. Cardinality(ScannedAhead') <= Cardinality(ScannedAhead \cup {d})
        BY <3>1, <3>2, FS_Subset
      <3>4. QED
        BY <1>4, <1>5, <2>1, <3>2, <3>3, AheadIsFinite DEF VisitorInv, ScansPayVisits
    <2>2. CASE scans' = scans /\ (next.step \in {"counted", "make", "visit"} => d \in ScannedAhead)
      <3>1. ScannedAhead' \subseteq ScannedAhead
        BY <1>1, <2>2 DEF ScannedAhead
      <3>2. Cardinality(ScannedAhead') <= Cardinality(ScannedAhead)
        BY <3>1, AheadIsFinite, FS_Subset
      <3>3. QED
        BY <1>4, <1>5, <2>2, <3>2, AheadIsFinite DEF VisitorInv, ScansPayVisits
    <2>3. QED
      BY <2>1, <2>2
  <1>7. Visitor!VisitsAreCounted'
    <2>1. Cardinality(Visitor!VisitRecords') <= scans'
      BY <1>2, <1>4, <1>5, <1>6
    <2>2. QED
      BY <2>1, VisitorCounts DEF VisitorInv, Visitor!RegistrationsCohere, Visitor!VisitsAreCounted
  <1>8. ScansPayVisits'
    BY <1>2, <1>6 DEF VisitorInv, ScansPayVisits
  <1>9. QED
    BY <1>2, <1>3, <1>7, <1>8 DEF VisitorInv, Visitor!RegistrationsCohere

\* A registration adds a visit to person p and is over.
LEMMA VisitorAttends ==
  ASSUME VisitorInv, NEW d \in Sessions, NEW p \in Three, Visitor!Attend(d, p), d \in ScannedAhead,
         Visitor!TypeOK', Visitor!OnePersonPerPhone', LookedInVain'
  PROVE  VisitorInv'
  <1> DEFINE new == <<p, arrivals[p] + 1>>
  <1>1. /\ device' = [device EXCEPT ![d] = Visitor!Idle] /\ scans' = scans
        /\ consents' = [consents EXCEPT ![p] = consents[p] + 1]
        /\ arrivals' = [arrivals EXCEPT ![p] = arrivals[p] + 1]
        /\ \A q \in Three : arrivals[q] \in Nat /\ consents[q] \in Nat
        /\ scans \in Nat
    BY BoundsAssumption
    DEF Visitor!Attend, Visitor!Goto, VisitorInv, Visitor!RegistrationsCohere, Visitor!TypeOK
  <1>2. \A q \in Three : /\ arrivals'[q] = IF q = p THEN arrivals[p] + 1 ELSE arrivals[q]
                         /\ consents'[q] = IF q = p THEN consents[p] + 1 ELSE consents[q]
    BY <1>1 DEF VisitorInv, Visitor!RegistrationsCohere, Visitor!TypeOK
  <1>3. Visitor!VisitRecords' = Visitor!VisitRecords \cup {new} /\ new \notin Visitor!VisitRecords
    <2>1. ASSUME NEW r PROVE r \in Visitor!VisitRecords <=>
            \E q \in Three, n \in Nat : r = <<q, n>> /\ 1 <= n /\ n <= arrivals[q]
      BY <1>1 DEF Visitor!VisitRecords
    <2>2. ASSUME NEW r PROVE r \in Visitor!VisitRecords' <=>
            \E q \in Three, n \in Nat : r = <<q, n>> /\ 1 <= n /\ n <= arrivals'[q]
      BY <1>1, <1>2 DEF Visitor!VisitRecords
    <2>3. new \notin Visitor!VisitRecords
      BY <1>1, <2>1
    <2>4. ASSUME NEW r \in Visitor!VisitRecords' PROVE r \in Visitor!VisitRecords \cup {new}
      <3>1. PICK q \in Three, n \in Nat : r = <<q, n>> /\ 1 <= n /\ n <= arrivals'[q]
        BY <2>2, <2>4
      <3>2. (q = p /\ n = arrivals[p] + 1) \/ n <= arrivals[q]
        BY <1>1, <1>2, <3>1
      <3>3. QED
        BY <2>1, <3>1, <3>2
    <2>5. ASSUME NEW r \in Visitor!VisitRecords PROVE r \in Visitor!VisitRecords'
      <3>1. PICK q \in Three, n \in Nat : r = <<q, n>> /\ 1 <= n /\ n <= arrivals[q]
        BY <2>1, <2>5
      <3>2. n <= arrivals'[q]
        BY <1>1, <1>2, <3>1
      <3>3. QED
        BY <2>2, <3>1, <3>2
    <2>6. new \in Visitor!VisitRecords'
      BY <1>1, <1>2, <2>2
    <2>7. QED
      BY <2>3, <2>4, <2>5, <2>6
  <1> HIDE DEF new
  <1>4. ScannedAhead' = ScannedAhead \ {d}
    BY <1>1 DEF ScannedAhead, VisitorInv, Visitor!RegistrationsCohere, Visitor!TypeOK, Visitor!Idle
  <1>5. Cardinality(ScannedAhead \ {d}) = Cardinality(ScannedAhead) - 1
    BY AheadIsFinite, FS_RemoveElement
  <1>6. /\ IsFiniteSet(Visitor!VisitRecords \cup {new})
        /\ Cardinality(Visitor!VisitRecords \cup {new}) = Cardinality(Visitor!VisitRecords) + 1
        /\ Cardinality(Visitor!VisitRecords) \in Nat
    BY <1>3, FS_AddElement, FS_CardinalityType DEF VisitorInv, ScansPayVisits
  <1>7. ScansPayVisits'
    BY <1>1, <1>3, <1>4, <1>5, <1>6, AheadIsFinite DEF VisitorInv, ScansPayVisits
  <1>8. Visitor!VisitsAreCounted'
    <2>1. Cardinality(ScannedAhead') \in Nat
      BY <1>4, AheadIsFinite, FS_Subset, FS_CardinalityType
    <2>2. Cardinality(Visitor!VisitRecords') \in Nat
      BY <1>3, <1>6, FS_CardinalityType
    <2>3. Cardinality(Visitor!VisitRecords') <= scans'
      BY <1>1, <1>7, <2>1, <2>2 DEF ScansPayVisits
    <2>4. \A q \in Three : arrivals'[q] = consents'[q]
      BY <1>2 DEF VisitorInv, Visitor!RegistrationsCohere, Visitor!VisitsAreCounted
    <2>5. QED
      BY <2>3, <2>4, VisitorCounts DEF Visitor!VisitsAreCounted
  <1>9. QED
    BY <1>7, <1>8 DEF VisitorInv, Visitor!RegistrationsCohere

LEMMA VisitorNextKeeps == VisitorInv /\ [Visitor!Next]_(Visitor!visitorVars) => VisitorInv'
  <1> SUFFICES ASSUME VisitorInv, [Visitor!Next]_(Visitor!visitorVars) PROVE VisitorInv'
    OBVIOUS
  <1>1. Visitor!TypeOK /\ scans \in Nat
    BY BoundsAssumption DEF VisitorInv, Visitor!RegistrationsCohere, Visitor!TypeOK
  <1>2. ASSUME UNCHANGED <<scans, phone, consents, arrivals, device, blind>>, Visitor!TypeOK' PROVE VisitorInv'
    BY <1>2 DEF VisitorInv, Visitor!RegistrationsCohere, Visitor!OnePersonPerPhone, Visitor!VisitsAreCounted,
         Visitor!VisitRecords, LookedInVain, ScansPayVisits, ScannedAhead
  <1>3. CASE UNCHANGED Visitor!visitorVars
    BY <1>1, <1>2, <1>3 DEF Visitor!visitorVars, Visitor!TypeOK
  <1>4. CASE Visitor!OpenToggle \/ Visitor!CommitToggle
    BY <1>1, <1>2, <1>4 DEF Visitor!OpenToggle, Visitor!CommitToggle, Visitor!TypeOK
  <1>5. ASSUME NEW d \in Sessions, NEW number \in Phones \cup {Visitor!NoPhone}, Visitor!ReadCode(d, number)
        PROVE  VisitorInv'
    <2> DEFINE next == [step |-> "read", phone |-> number]
    <2>1. /\ device' = [device EXCEPT ![d] = next] /\ UNCHANGED <<scans, phone, consents, arrivals, blind>>
          /\ UNCHANGED <<active, toggling>>
      BY <1>5 DEF Visitor!ReadCode, Visitor!Goto
    <2>2. Visitor!TypeOK'
      BY <1>1, <2>1 DEF Visitor!TypeOK
    <2>3. next.step = "read"
      OBVIOUS
    <2> HIDE DEF next
    <2>4. QED
      BY <2>1, <2>2, <2>3, VisitorGoesOn
  <1>6. ASSUME NEW d \in Sessions, Visitor!CountScan(d) PROVE VisitorInv'
    <2> DEFINE next == [device[d] EXCEPT !.step = "counted"]
    <2>1. /\ device' = [device EXCEPT ![d] = next] /\ UNCHANGED <<phone, consents, arrivals, blind>>
          /\ scans' = scans + 1 /\ scans < MaxScans /\ UNCHANGED <<active, toggling>>
      BY <1>6 DEF Visitor!CountScan, Visitor!Goto
    <2>2. device[d] \in [step : {"read", "counted"}, phone : Phones \cup {Visitor!NoPhone}]
      BY <1>1, <1>6 DEF Visitor!TypeOK, Visitor!CountScan, Visitor!Idle
    <2>3. next \in [step : {"read", "counted"}, phone : Phones \cup {Visitor!NoPhone}] /\ next.step = "counted"
      BY <2>2
    <2> HIDE DEF next
    <2>4. Visitor!TypeOK'
      BY <1>1, <2>1, <2>3, BoundsAssumption DEF Visitor!TypeOK
    <2>5. QED
      BY <2>1, <2>3, <2>4, VisitorGoesOn
  <1>7. ASSUME NEW d \in Sessions, Visitor!Find(d) PROVE VisitorInv'
    <2>1. device[d] \in [step : {"read", "counted"}, phone : Phones \cup {Visitor!NoPhone}] /\ d \in ScannedAhead
      BY <1>1, <1>7 DEF Visitor!TypeOK, Visitor!Find, Visitor!Idle, ScannedAhead
    <2>2. UNCHANGED <<scans, phone, consents, arrivals, blind, active, toggling>>
      BY <1>7 DEF Visitor!Find, Visitor!Goto
    <2> DEFINE make == [step |-> "make", phone |-> device[d].phone]
    <2>3. CASE device' = [device EXCEPT ![d] = make]
               /\ (device[d].phone = Visitor!NoPhone \/ Visitor!Known(device[d].phone) = {})
      <3>1. make \in [step : {"make"}, phone : Phones \cup {Visitor!NoPhone}] /\ make.phone = device[d].phone
        BY <2>1
      <3> HIDE DEF make
      <3>2. Visitor!TypeOK'
        BY <1>1, <2>2, <2>3, <3>1 DEF Visitor!TypeOK
      <3>3. make.phone \in Phones => \A p \in Three : phone[p] # make.phone
        BY <2>3, <3>1, PhoneMarksApart DEF Visitor!Known, Visitor!NoPhone
      <3>4. QED
        BY <2>1, <2>2, <2>3, <3>2, <3>3, VisitorGoesOn
    <2>4. ASSUME NEW p \in Three, device' = [device EXCEPT ![d] = [step |-> "visit", person |-> p]]
          PROVE  VisitorInv'
      <3> DEFINE next == [step |-> "visit", person |-> p]
      <3>1. next \in [step : {"visit"}, person : Three] /\ next.step = "visit"
        OBVIOUS
      <3> HIDE DEF next
      <3>2. device' = [device EXCEPT ![d] = next]
        BY <2>4 DEF next
      <3>3. Visitor!TypeOK'
        BY <1>1, <2>2, <3>1, <3>2 DEF Visitor!TypeOK
      <3>4. QED
        BY <2>1, <2>2, <3>1, <3>2, <3>3, VisitorGoesOn
    <2>5. QED
      BY <1>7, <2>3, <2>4 DEF Visitor!Find, Visitor!Goto, Visitor!Known
  <1>8. ASSUME NEW d \in Sessions, NEW p \in Three, Visitor!CommitNew(d, p) PROVE VisitorInv'
    <2> DEFINE x == device[d].phone
    <2>1. device[d] \in [step : {"make"}, phone : Phones \cup {Visitor!NoPhone}] /\ d \in ScannedAhead
      BY <1>1, <1>8 DEF Visitor!TypeOK, Visitor!CommitNew, Visitor!Idle, ScannedAhead
    <2>2. /\ phone' = [phone EXCEPT ![p] = x] /\ Visitor!Attend(d, p)
          /\ blind' = IF \E e \in Sessions \ {d} : device[e] = device[d] THEN blind \cup {p} ELSE blind
      BY <1>8 DEF Visitor!CommitNew
    <2>3. /\ device' = [device EXCEPT ![d] = Visitor!Idle] /\ UNCHANGED <<scans, active, toggling>>
          /\ consents' = [consents EXCEPT ![p] = consents[p] + 1]
          /\ arrivals' = [arrivals EXCEPT ![p] = arrivals[p] + 1]
      BY <2>2 DEF Visitor!Attend, Visitor!Goto
    <2>4. Visitor!TypeOK'
      BY <1>1, <2>1, <2>2, <2>3 DEF Visitor!TypeOK
    <2>5. \A q \in Three : phone'[q] = IF q = p THEN x ELSE phone[q]
      BY <1>1, <2>2 DEF Visitor!TypeOK
    <2>6. \A e \in Sessions : device'[e] = IF e = d THEN Visitor!Idle ELSE device[e]
      BY <1>1, <2>3 DEF Visitor!TypeOK
    <2>7. x \in Phones => \A q \in Three : phone[q] = x => q \in blind
      BY <2>1 DEF VisitorInv, LookedInVain
    <2>8. Visitor!OnePersonPerPhone'
      BY <2>2, <2>5, <2>7 DEF VisitorInv, Visitor!RegistrationsCohere, Visitor!OnePersonPerPhone
    <2>9. ASSUME NEW e \in Sessions, device'[e].step = "make", device'[e].phone \in Phones,
                 NEW q \in Three, phone'[q] = device'[e].phone
          PROVE  q \in blind'
      <3>1. e # d /\ device'[e] = device[e]
        BY <2>6, <2>9 DEF Visitor!Idle
      <3>2. CASE q = p
        <4>1. device[e] \in [step : {"make"}, phone : Phones \cup {Visitor!NoPhone}] /\ device[e].phone = x
          BY <1>1, <2>5, <2>9, <3>1, <3>2 DEF Visitor!TypeOK, Visitor!Idle
        <4>2. device[e] = device[d]
          BY <2>1, <4>1
        <4>3. QED
          BY <2>2, <3>1, <3>2, <4>2
      <3>3. CASE q # p
        BY <2>2, <2>5, <2>9, <3>1, <3>3 DEF VisitorInv, LookedInVain
      <3>4. QED
        BY <3>2, <3>3
    <2>10. LookedInVain'
      BY <2>9 DEF LookedInVain
    <2>11. QED
      BY <2>1, <2>2, <2>4, <2>8, <2>10, VisitorAttends
  <1>9. ASSUME NEW d \in Sessions, Visitor!CommitKnown(d) PROVE VisitorInv'
    <2> DEFINE p == device[d].person
    <2>1. device[d] \in [step : {"visit"}, person : Three] /\ d \in ScannedAhead
      BY <1>1, <1>9 DEF Visitor!TypeOK, Visitor!CommitKnown, Visitor!Idle, ScannedAhead
    <2>2. p \in Three
      BY <2>1
    <2>3. /\ Visitor!Attend(d, p) /\ UNCHANGED <<phone, blind>>
          /\ device' = [device EXCEPT ![d] = Visitor!Idle] /\ UNCHANGED <<scans, active, toggling>>
          /\ consents' = [consents EXCEPT ![p] = consents[p] + 1]
          /\ arrivals' = [arrivals EXCEPT ![p] = arrivals[p] + 1]
      BY <1>9 DEF Visitor!CommitKnown, Visitor!Attend, Visitor!Goto
    <2> HIDE DEF p
    <2>4. Visitor!TypeOK'
      BY <1>1, <2>2, <2>3 DEF Visitor!TypeOK
    <2>5. \A e \in Sessions : device'[e] = IF e = d THEN Visitor!Idle ELSE device[e]
      BY <1>1, <2>3 DEF Visitor!TypeOK
    <2>6. Visitor!OnePersonPerPhone' /\ LookedInVain'
      BY <2>3, <2>5
      DEF VisitorInv, Visitor!RegistrationsCohere, Visitor!OnePersonPerPhone, LookedInVain, Visitor!Idle
    <2>7. QED
      BY <2>1, <2>2, <2>3, <2>4, <2>6, VisitorAttends
  <1>10. ASSUME NEW d \in Sessions, Visitor!Fail(d) PROVE VisitorInv'
    <2>1. /\ device' = [device EXCEPT ![d] = Visitor!Idle]
          /\ UNCHANGED <<scans, phone, consents, arrivals, blind, active, toggling>>
      BY <1>10 DEF Visitor!Fail, Visitor!Goto
    <2>2. Visitor!TypeOK'
      BY <1>1, <2>1 DEF Visitor!TypeOK
    <2>3. Visitor!Idle.step = "idle"
      BY DEF Visitor!Idle
    <2>4. QED
      BY <2>1, <2>2, <2>3, VisitorGoesOn
  <1>11. QED
    BY <1>3, <1>4, <1>5, <1>6, <1>7, <1>8, <1>9, <1>10 DEF Visitor!Next

\* Registrations by the code cohere in every reachable state: two persons have
\* one phone only when a registration had looked for it before the first was
\* made, every visit has its consent, and the visits are no more than the scans
\* (registerViaQr, visitor.service.ts), whatever fails on the way.
THEOREM RegistrationsStayCoherent == AllSpec => []RegistrationsCohere
  <1>1. AllInit => VisitorInv
    BY VisitorInitHolds DEF AllInit
  <1>2. VisitorInv /\ [AllNext]_allVars => VisitorInv'
    BY PartsMoveAlone, VisitorNextKeeps
  <1>3. VisitorInv => RegistrationsCohere
    BY DEF VisitorInv, RegistrationsCohere
  <1>4. QED
    BY <1>1, <1>2, <1>3, PTL DEF AllSpec

===============================================================================
