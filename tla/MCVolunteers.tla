----------------------------- MODULE MCVolunteers -----------------------------
(***************************************************************************)
(* VolunteerRoster and MinistryTree on small instances for TLC.  The two   *)
(* share no state and no client, so a configuration gives handlers to one  *)
(* of them and leaves the other one at rest.                               *)
(***************************************************************************)
EXTENDS VolunteerRoster, TLC

CONSTANTS Ministries, Top, TreeHandlers

\* The mark of a root is no ministry, and ministries are counted.
ASSUME TreeConstants == Top \notin Ministries /\ IsFiniteSet(Ministries)

VARIABLES live, parent, treeSession, raced

Tree == INSTANCE MinistryTree WITH session <- treeSession, Handlers <- TreeHandlers

ASSUME TreeHandlersAssumption == TreeHandlers \subseteq Tree!AllHandlers

rosterPart == <<schedule, slot, asg, checkedIn, notified, swap, session>>
treePart   == <<live, parent, treeSession, raced>>
allVars    == <<rosterPart, treePart>>

RosterStep == Next /\ UNCHANGED treePart
TreeStep   == Tree!Next /\ UNCHANGED rosterPart

AllInit == Init /\ Tree!Init
AllNext == RosterStep \/ TreeStep

AllSpec == AllInit /\ [][AllNext]_allVars

\* One place per slot.
MCRequired == [sl \in Slots |-> 1]

\* Every volunteer is a candidate, so volunteers are interchangeable.
Symmetry ==
  Permutations(Volunteers) \cup Permutations(Assignments) \cup Permutations(Swaps)
    \cup Permutations(Sessions) \cup Permutations(Slots) \cup Permutations(Ministries)

\* The properties of MinistryTree under their own names.
LostOnlyByRacingMoves     == Tree!LostOnlyByRacingMoves
SecondRootByRemovalOrRace == Tree!SecondRootByRemovalOrRace
===============================================================================
