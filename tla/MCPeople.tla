------------------------------- MODULE MCPeople -------------------------------
(***************************************************************************)
(* Persons, VisitorRegistration, SmallGroups, GroupMeetings,               *)
(* MinistryTeams, StudyMaterials and Categories on small instances for     *)
(* TLC.  They share no variable of these modules, so a behaviour of all is *)
(* an interleaving of a behaviour of each: it is enough to run one of them *)
(* at a time.                                                              *)
(***************************************************************************)
EXTENDS Integers, FiniteSets, TLC

CONSTANTS
  Three,       \* members of a group, and newcomers
  Two,         \* leaders of a ministry, those who attend a meeting, files
  Sessions,    \* connections, and devices
  Groups, Types, Meetings, Handouts, Ministries, Registered, MaxVisits, Phones, MaxScans,
  MaxAnswers, Materials, Logo, Processes, MaxDay, MaxFaults, Cats, SystemCats, Rows, Now, MonthStart, MonthLength

ASSUME BoundsAssumption == {MaxVisits, MaxScans, MaxAnswers, MaxDay, MaxFaults} \subseteq Nat

\* People, newcomers and connections are counted.
ASSUME PeopleAreFinite == IsFiniteSet(Two) /\ IsFiniteSet(Three) /\ IsFiniteSet(Sessions)

ASSUME CalendarAssumption == Now \in Int /\ MonthStart \in Int /\ MonthLength \in Nat

\* The marks for a field or a row that is not there are no persons.
ASSUME MarksApart == {"none", "gone", "keep"} \cap Three = {}

\* Those for a phone left out and for no row are no numbers.
ASSUME PhoneMarksApart == {"no phone", "unmade"} \cap Phones = {}

\* Those for a field or a reference that is not there are no rows.
ASSUME BookMarksApart == {"none", "keep"} \cap (Rows \cup Cats) = {}

\* The mark of a row without a file is no file, and the logo is no material.
ASSUME FileMarksApart == "no file" \notin Two /\ Logo \notin Materials

VARIABLES
  part,
  person, visits, history, request, crossed, edited, demoted, cleared, broken,
  active, scans, phone, consents, arrivals, device, toggling, blind,
  leader, type, role, inUse, groupRequest, groupCrossed, late,
  held, gone, present, linked, meetingRequest, answered, removed,
  class, profiles, place, primary, teamRequest, raced, moved,
  file, dates, notified, stored, opens, now, edit, sweep, faults, pushed, torn, wasted, openedTwice,
  kind, rowType, category, bookRequest, excused

Person  == INSTANCE Persons WITH PersonIds <- Registered
Visitor == INSTANCE VisitorRegistration WITH
             PersonIds <- Three, Devices <- Sessions, visits <- arrivals
Group   == INSTANCE SmallGroups WITH
             Persons <- Three, active <- inUse, request <- groupRequest, crossed <- groupCrossed
Meeting == INSTANCE GroupMeetings WITH
             Persons <- Two, Materials <- Handouts, request <- meetingRequest
Team    == INSTANCE MinistryTeams WITH People <- Two, role <- place, request <- teamRequest
Material == INSTANCE StudyMaterials WITH
             Objects <- Two, request <- edit, raced <- openedTwice
Book    == INSTANCE Categories WITH
             type <- rowType, request <- bookRequest, Occurred <- [r \in Rows |-> Now - 5]

personPart  == <<person, visits, history, request, crossed, edited, demoted, cleared, broken>>
visitorPart == <<active, scans, phone, consents, arrivals, device, toggling, blind>>
groupPart   == <<leader, type, role, inUse, groupRequest, groupCrossed, late>>
meetingPart == <<held, gone, present, linked, meetingRequest, answered, removed>>
teamPart    == <<class, profiles, place, primary, teamRequest, raced, moved>>
materialPart == <<file, dates, notified, stored, opens, now, edit, sweep,
                  faults, pushed, torn, wasted, openedTwice>>
bookPart    == <<kind, rowType, category, bookRequest, excused>>

\* The parts that rest need only one of their initial states.
AllInit ==
  /\ part \in {"person", "visitor", "group", "meeting", "team", "material", "book"}
  /\ Person!Init /\ Visitor!Init /\ Group!Init /\ Meeting!Init
  /\ Team!Init /\ Material!Init /\ Book!Init
  /\ part = "team" \/ class = [p \in Two |-> "member"]

\* A step of one part leaves the others alone.
PersonStep  == part = "person" /\ Person!Next
                 /\ UNCHANGED <<visitorPart, groupPart, meetingPart, teamPart, materialPart, bookPart>>
VisitorStep == part = "visitor" /\ Visitor!Next
                 /\ UNCHANGED <<personPart, groupPart, meetingPart, teamPart, materialPart, bookPart>>
GroupStep   == part = "group" /\ Group!Next
                 /\ UNCHANGED <<personPart, visitorPart, meetingPart, teamPart, materialPart, bookPart>>
MeetingStep == part = "meeting" /\ Meeting!Next
                 /\ UNCHANGED <<personPart, visitorPart, groupPart, teamPart, materialPart, bookPart>>
TeamStep    == part = "team" /\ Team!Next
                 /\ UNCHANGED <<personPart, visitorPart, groupPart, meetingPart, materialPart, bookPart>>
MaterialStep == part = "material" /\ Material!Next
                 /\ UNCHANGED <<personPart, visitorPart, groupPart, meetingPart, teamPart, bookPart>>
BookStep    == part = "book" /\ Book!Next
                 /\ UNCHANGED <<personPart, visitorPart, groupPart, meetingPart, teamPart, materialPart>>

AllNext ==
  /\ \/ PersonStep \/ VisitorStep \/ GroupStep
     \/ MeetingStep \/ TeamStep \/ MaterialStep \/ BookStep
  /\ UNCHANGED part

allVars == <<part, personPart, visitorPart, groupPart, meetingPart, teamPart, materialPart, bookPart>>

AllSpec == AllInit /\ [][AllNext]_allVars

Symmetry == Permutations(Three) \cup Permutations(Two) \cup Permutations(Sessions)

\* The properties of the parts under their own names.  A part that rests stays
\* in an initial state, of which its own behaviours check the property.
PersonsCohere       == part = "person" => Person!PersonsCohere
RegistrationsCohere == part = "visitor" => Visitor!RegistrationsCohere
GroupsCohere        == part = "group" => Group!GroupsCohere
MeetingsCohere      == part = "meeting" => Meeting!MeetingsCohere
TeamsCohere         == part = "team" => Team!TeamsCohere
MaterialsCohere     == part = "material" => Material!MaterialsCohere
BooksCohere         == part = "book" => Book!BooksCohere
==============================================================================
