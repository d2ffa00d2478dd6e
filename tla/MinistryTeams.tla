---------------------------- MODULE MinistryTeams ----------------------------
(***************************************************************************)
(* Volunteer profiles and their places in ministries                       *)
(* (volunteers/volunteer-ministries.service.ts,                            *)
(* volunteer-profiles.service.ts).                                         *)
(*                                                                         *)
(* A place has a role and may be the one of the primary leader.  Making a  *)
(* primary leader first demotes the one there is, in the transaction of    *)
(* the request: the rows it demotes stay locked until it commits, a row    *)
(* that another request has not committed yet is not seen.  Skills and     *)
(* availability are left out.                                              *)
(***************************************************************************)
EXTENDS Naturals, FiniteSets

CONSTANTS
  Ministries,  \* the ministries of the congregation
  People,      \* its persons
  Sessions     \* connections of the secretaries

VARIABLES
  class,     \* [People -> classification]
  profiles,  \* the persons who have a volunteer profile
  role,      \* [Ministries -> [People -> role of the place, or None]]
  primary,   \* [Ministries -> the persons whose place is_primary_leader]
  request,   \* [Sessions -> open request]
  raced,     \* history: ministries two requests gave a primary leader at once
  moved      \* history: persons reclassified with a place, or while a request
             \* that had read their classification was open

teamVars == <<class, profiles, role, primary, request, raced, moved>>

Classes == {"visitor", "attendee", "member"}
Roles   == {"leader", "volunteer"}
None    == "none"
Keep    == "keep"  \* a field the request leaves out
Idle    == [op |-> "idle"]

Busy == {c \in Sessions : request[c].op \in {"add", "change", "remove"}}
Held == {c \in Busy : request[c].held}

\* Places, profiles and requests are well formed; a place needs a profile.
TypeOK ==
  /\ class \in [People -> Classes]
  /\ profiles \subseteq People
  /\ role \in [Ministries -> [People -> Roles \cup {None}]]
  /\ primary \in [Ministries -> SUBSET People]
  /\ request \in [Sessions -> {Idle}
       \cup [op : {"profile"}, person : People]
       \cup [op : {"add", "change", "remove"}, ministry : Ministries, person : People,
             role : Roles \cup {None}, primary : BOOLEAN, held : BOOLEAN, demoted : SUBSET People]]
  /\ raced \subseteq Ministries
  /\ moved \subseteq People
  /\ \A m \in Ministries, p \in People :
       (role[m][p] # None => p \in profiles) /\ (p \in primary[m] => role[m][p] # None)

Init ==
  /\ class \in [People -> Classes]
  /\ profiles = {}
  /\ role = [m \in Ministries |-> [p \in People |-> None]]
  /\ primary = [m \in Ministries |-> {}]
  /\ request = [c \in Sessions |-> Idle]
  /\ raced = {}
  /\ moved = {}

Open(c, next) ==
  /\ request[c] = Idle
  /\ request' = [request EXCEPT ![c] = next]
  /\ UNCHANGED <<class, profiles, role, primary, raced, moved>>

Rollback(c) ==
  /\ request[c] # Idle
  /\ request' = [request EXCEPT ![c] = Idle]
  /\ UNCHANGED <<class, profiles, role, primary, raced, moved>>

\* An open request has the place of person p in ministry m in mind.
Wanted(m, p) == \E c \in Busy : request[c].ministry = m /\ request[c].person = p

\* A request other than c has written the place.
Locked(c, m, p) ==
  \E d \in Held \ {c} : request[d].ministry = m /\ (p \in request[d].demoted \/ request[d].person = p)

\* An edit of a person changes the classification and looks at no place.
Reclassify(p, new) ==
  /\ class[p] # new
  /\ class' = [class EXCEPT ![p] = new]
  /\ moved' = IF \E m \in Ministries : role[m][p] # None \/ Wanted(m, p) THEN moved \cup {p} ELSE moved
  /\ UNCHANGED <<profiles, role, primary, request, raced>>

-----------------------------------------------------------------------------
(* Profiles.                                                                *)

OpenProfile(c, p) == p \notin profiles /\ Open(c, [op |-> "profile", person |-> p])

\* person_id is unique.
CommitProfile(c) ==
  /\ request[c].op = "profile" /\ request[c].person \notin profiles
  /\ profiles' = profiles \cup {request[c].person}
  /\ request' = [request EXCEPT ![c] = Idle]
  /\ UNCHANGED <<class, role, primary, raced, moved>>

\* The places go with the profile.
RemoveProfile(p) ==
  /\ p \in profiles /\ \A m \in Ministries : ~Wanted(m, p) /\ ~Locked(None, m, p)
  /\ profiles' = profiles \ {p}
  /\ role' = [m \in Ministries |-> [role[m] EXCEPT ![p] = None]]
  /\ primary' = [m \in Ministries |-> primary[m] \ {p}]
  /\ moved' = moved \ {p}
  /\ UNCHANGED <<class, request, raced>>

-----------------------------------------------------------------------------
(* Places.                                                                  *)

\* assertClassificationAllowsRole, assertPrimaryLeaderRequiresLeaderRole
Allowed(p, as, first) ==
  /\ as = "leader" => class[p] = "member"
  /\ as = "volunteer" => class[p] # "visitor"
  /\ first => as = "leader"

Place(op, m, p, as, first) ==
  [op |-> op, ministry |-> m, person |-> p, role |-> as, primary |-> first, held |-> FALSE, demoted |-> {}]

OpenAssign(c, m, p, as, first) ==
  /\ p \in profiles /\ role[m][p] = None
  /\ Allowed(p, as, first)
  /\ Open(c, Place("add", m, p, as, first))

\* What the request leaves out is what the place has now.
OpenChange(c, m, p, as, first) ==
  /\ role[m][p] # None
  /\ LET newRole  == IF as = Keep THEN role[m][p] ELSE as
         newFirst == IF first = Keep THEN p \in primary[m] ELSE first = "yes"
     IN  /\ Allowed(p, newRole, newFirst)
         /\ Open(c, Place("change", m, p, newRole, newFirst))

OpenRemove(c, m, p) == role[m][p] # None /\ Open(c, Place("remove", m, p, None, FALSE))

\* Mutant: nobody is demoted.
DemoteNobody(c) ==
  /\ c \in Busy \ Held
  /\ request' = [request EXCEPT ![c].held = TRUE]
  /\ UNCHANGED <<class, profiles, role, primary, raced, moved>>

\* The statements of the request run: the first demotes the primary leaders
\* that are committed, and waits for the locks on their rows.
Demote(c) ==
  LET q == request[c]
      there == IF q.primary THEN primary[q.ministry] \ (IF q.op = "change" THEN {q.person} ELSE {}) ELSE {}
  IN  /\ c \in Busy \ Held
      /\ \A p \in there \cup {q.person} : ~Locked(c, q.ministry, p)
      /\ q.op = "add" <=> role[q.ministry][q.person] = None
      /\ request' = [request EXCEPT ![c].held = TRUE, ![c].demoted = there]
      /\ raced' = IF q.primary /\ \E d \in Held : request[d].ministry = q.ministry /\ request[d].primary
                  THEN raced \cup {q.ministry} ELSE raced
      /\ UNCHANGED <<class, profiles, role, primary, moved>>

\* Request c removes the place that request d has found: d fails.
Orphaned(c, d) ==
  /\ request[c].op = "remove" /\ d \in Busy /\ request[d].op # "add"
  /\ request[d].ministry = request[c].ministry /\ request[d].person = request[c].person

Commit(c) ==
  LET q == request[c]
  IN  /\ c \in Held
      /\ role' = [role EXCEPT ![q.ministry][q.person] = q.role]
      /\ primary' = [primary EXCEPT ![q.ministry] =
           (@ \ (q.demoted \cup {q.person})) \cup (IF q.primary THEN {q.person} ELSE {})]
      /\ request' = [d \in Sessions |-> IF d = c \/ Orphaned(c, d) THEN Idle ELSE request[d]]
      /\ UNCHANGED <<class, profiles, raced, moved>>

-----------------------------------------------------------------------------
Next ==
  \/ \E c \in Sessions :
       \/ \E p \in People : OpenProfile(c, p)
       \/ CommitProfile(c)
       \/ \E m \in Ministries, p \in People, as \in Roles, first \in BOOLEAN : OpenAssign(c, m, p, as, first)
       \/ \E m \in Ministries, p \in People, as \in Roles \cup {Keep}, first \in {"yes", "no", Keep} :
            OpenChange(c, m, p, as, first)
       \/ \E m \in Ministries, p \in People : OpenRemove(c, m, p)
       \/ Demote(c)
       \/ Commit(c)
       \/ Rollback(c)
  \/ \E p \in People : RemoveProfile(p) \/ \E new \in Classes : Reclassify(p, new)

Spec == Init /\ [][Next]_teamVars

-----------------------------------------------------------------------------
(* Properties.                                                              *)

\* A ministry has one primary leader unless two requests made one each while
\* neither had committed.
OnePrimaryLeader == \A m \in Ministries \ raced : \A p, q \in primary[m] : p = q

\* The primary leader leads, a leader is a member and a volunteer no visitor,
\* unless the person was reclassified since: nothing asks after the places.
PlacesAreDeserved ==
  \A m \in Ministries, p \in People :
    /\ p \in primary[m] => role[m][p] = "leader"
    /\ role[m][p] = "leader" => class[p] = "member" \/ p \in moved
    /\ role[m][p] = "volunteer" => class[p] # "visitor" \/ p \in moved

\* What MinistryTeams checks of its states.
TeamsCohere == TypeOK /\ OnePrimaryLeader /\ PlacesAreDeserved
==============================================================================
