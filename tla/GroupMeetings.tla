---------------------------- MODULE GroupMeetings ----------------------------
(***************************************************************************)
(* Meetings of a small group, who attended them and the materials that     *)
(* were used (small-groups/meetings.service.ts).                           *)
(*                                                                         *)
(* Attendance is added by lists, of which the database skips the persons   *)
(* it has; the answer says how many were new.  Topics, dates and offerings *)
(* are left out, and so is the update of a meeting, which writes only      *)
(* those.  A meeting ends with its group.                                  *)
(***************************************************************************)
EXTENDS Naturals, FiniteSets

CONSTANTS
  Meetings,   \* meeting ids: each is used once
  Persons,    \* persons who may attend
  Materials,  \* study materials there are
  Sessions,   \* connections of the leaders
  MaxAnswers  \* bound on the counts added up

VARIABLES
  held,     \* the meetings there are
  gone,     \* the meetings there were
  present,  \* [Meetings -> persons with an attendance record]
  linked,   \* [Meetings -> materials linked to the meeting]
  request,  \* [Sessions -> open request]
  answered, \* history: [Meetings -> records the answers say were added]
  removed   \* history: [Meetings -> records the answers say were removed]

meetingVars == <<held, gone, present, linked, request, answered, removed>>

Idle == [op |-> "idle"]

\* Meetings, lists and requests are well formed.
TypeOK ==
  /\ held \subseteq Meetings /\ gone \subseteq Meetings /\ held \cap gone = {}
  /\ present \in [Meetings -> SUBSET Persons]
  /\ linked \in [Meetings -> SUBSET Materials]
  /\ request \in [Sessions -> {Idle}
       \cup [op : {"create"}, persons : SUBSET Persons]
       \cup [op : {"attend"}, meeting : Meetings, persons : SUBSET Persons]
       \cup [op : {"leave"}, meeting : Meetings, person : Persons]
       \cup [op : {"link", "unlink"}, meeting : Meetings, material : Materials]]
  /\ answered \in [Meetings -> Nat] /\ removed \in [Meetings -> Nat]

Init ==
  /\ held = {} /\ gone = {}
  /\ present = [m \in Meetings |-> {}]
  /\ linked = [m \in Meetings |-> {}]
  /\ request = [c \in Sessions |-> Idle]
  /\ answered = [m \in Meetings |-> 0]
  /\ removed = [m \in Meetings |-> 0]

Open(c, next) ==
  /\ request[c] = Idle
  /\ request' = [request EXCEPT ![c] = next]
  /\ UNCHANGED <<held, gone, present, linked, answered, removed>>

Close(c) == request[c] # Idle /\ request' = [request EXCEPT ![c] = Idle]

\* Request c deletes a record: those that found the same one fail.
CloseAlike(c) == request' = [d \in Sessions |-> IF request[d] = request[c] THEN Idle ELSE request[d]]

Rollback(c) == Close(c) /\ UNCHANGED <<held, gone, present, linked, answered, removed>>

-----------------------------------------------------------------------------
OpenCreate(c, persons) == Open(c, [op |-> "create", persons |-> persons])

\* The meeting and its first list are written together.
CommitCreate(c, m) ==
  /\ request[c].op = "create" /\ m \notin held \cup gone
  /\ held' = held \cup {m}
  /\ present' = [present EXCEPT ![m] = request[c].persons]
  /\ answered' = [answered EXCEPT ![m] = Cardinality(request[c].persons)]
  /\ Close(c)
  /\ UNCHANGED <<gone, linked, removed>>

OpenAttend(c, m, persons) == m \in held /\ Open(c, [op |-> "attend", meeting |-> m, persons |-> persons])

\* Mutant: the persons of the list are counted.
CommitAttendAll(c) ==
  LET q == request[c]
  IN  /\ q.op = "attend" /\ q.meeting \in held /\ answered[q.meeting] < MaxAnswers
      /\ present' = [present EXCEPT ![q.meeting] = @ \cup q.persons]
      /\ answered' = [answered EXCEPT ![q.meeting] = @ + Cardinality(q.persons)]
      /\ Close(c)
      /\ UNCHANGED <<held, gone, linked, removed>>

\* createMany with skipDuplicates, which counts what it inserted.
CommitAttend(c) ==
  LET q == request[c]
  IN  /\ q.op = "attend" /\ q.meeting \in held /\ answered[q.meeting] < MaxAnswers
      /\ present' = [present EXCEPT ![q.meeting] = @ \cup q.persons]
      /\ answered' = [answered EXCEPT ![q.meeting] = @ + Cardinality(q.persons \ present[q.meeting])]
      /\ Close(c)
      /\ UNCHANGED <<held, gone, linked, removed>>

OpenLeave(c, m, p) == p \in present[m] /\ Open(c, [op |-> "leave", meeting |-> m, person |-> p])

CommitLeave(c) ==
  LET q == request[c]
  IN  /\ q.op = "leave" /\ q.person \in present[q.meeting]
      /\ present' = [present EXCEPT ![q.meeting] = @ \ {q.person}]
      /\ removed' = [removed EXCEPT ![q.meeting] = @ + 1]
      /\ CloseAlike(c)
      /\ UNCHANGED <<held, gone, linked, answered>>

-----------------------------------------------------------------------------
OpenLink(c, m, x) ==
  m \in held /\ x \notin linked[m] /\ Open(c, [op |-> "link", meeting |-> m, material |-> x])

\* The pair is unique: the second of two requests fails.
CommitLink(c) ==
  LET q == request[c]
  IN  /\ q.op = "link" /\ q.meeting \in held /\ q.material \notin linked[q.meeting]
      /\ linked' = [linked EXCEPT ![q.meeting] = @ \cup {q.material}]
      /\ Close(c)
      /\ UNCHANGED <<held, gone, present, answered, removed>>

OpenUnlink(c, m, x) == x \in linked[m] /\ Open(c, [op |-> "unlink", meeting |-> m, material |-> x])

CommitUnlink(c) ==
  LET q == request[c]
  IN  /\ q.op = "unlink" /\ q.material \in linked[q.meeting]
      /\ linked' = [linked EXCEPT ![q.meeting] = @ \ {q.material}]
      /\ CloseAlike(c)
      /\ UNCHANGED <<held, gone, present, answered, removed>>

\* The group is removed, and its meetings with it.
GroupRemoved ==
  /\ held # {}
  /\ gone' = gone \cup held /\ held' = {}
  /\ present' = [m \in Meetings |-> {}]
  /\ linked' = [m \in Meetings |-> {}]
  /\ UNCHANGED <<request, answered, removed>>

-----------------------------------------------------------------------------
Next ==
  \/ \E c \in Sessions :
       \/ \E some \in SUBSET Persons : OpenCreate(c, some)
       \/ \E m \in Meetings :
            \/ CommitCreate(c, m)
            \/ \E some \in SUBSET Persons \ {{}} : OpenAttend(c, m, some)
            \/ \E p \in Persons : OpenLeave(c, m, p)
            \/ \E x \in Materials : OpenLink(c, m, x) \/ OpenUnlink(c, m, x)
       \/ CommitAttend(c) \/ CommitLeave(c) \/ CommitLink(c) \/ CommitUnlink(c)
       \/ Rollback(c)
  \/ GroupRemoved

Spec == Init /\ [][Next]_meetingVars

-----------------------------------------------------------------------------
(* Properties.                                                              *)

\* What the answers said was added and removed, by whichever requests in
\* whichever order, is what the list of the meeting has.
AnswersAddUp ==
  \A m \in held : answered[m] = Cardinality(present[m]) + removed[m]

\* What GroupMeetings checks of its states.
MeetingsCohere == TypeOK /\ AnswersAddUp
==============================================================================
