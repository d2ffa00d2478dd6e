------------------------------ MODULE MCWorship ------------------------------
(***************************************************************************)
(* Celebrations, ServiceOrders, Notifications and Logins on small          *)
(* instances for TLC.  They share no variable of these modules, so a       *)
(* behaviour of all is an interleaving of a behaviour of each: it is       *)
(* enough to run one of them at a time.                                    *)
(***************************************************************************)
EXTENDS Celebrations, TLC

CONSTANTS Services, Sessions, Segments, Dispatches, Tags, Criteria, Batch,
          Tokens, Links, Tabs, MaxResets

ASSUME ResetsAssumption == MaxResets \in Nat

\* Connections and runs are counted.
ASSUME ClientsAreFinite == IsFiniteSet(Runs) /\ IsFiniteSet(Sessions) /\ Sessions # {}

VARIABLES
  part,
  service, request, notices, reminder, orderFaults, told, pushes, undone,
  segment, send, row, batch,
  token, login, proven, link, password, tab, forked, late, doubled

Order    == INSTANCE ServiceOrders WITH
              Instances <- Services, instance <- service, faults <- orderFaults
Push     == INSTANCE Notifications
Login    == INSTANCE Logins WITH request <- tab

\* Criteria name some values for each tag, or none.
ASSUME CriteriaAssumption ==
  /\ DOMAIN Tags = Push!Keys
  /\ \A criteria \in Criteria : DOMAIN criteria = Push!Keys /\ \A k \in Push!Keys : IsFiniteSet(criteria[k])

\* The tags of a device, and the criteria of a segment.
MCTags     == [congregation |-> {"north", "south"}, group |-> {"a", "b"}, role |-> {"pastor", "member"}]
MCCriteria == [congregation : {{}, {"north"}, {"north", "south"}}, group : {{}, {"a", "b"}}, role : {{}, {"pastor"}}]

\* The first months of a common year; day 0 is a Friday.  The cron runs on
\* the 30th day and a week later, when one more instance is made by hand.
MCMonthStart == 0 :> 0 @@ 1 :> 31 @@ 2 :> 59 @@ 3 :> 90 @@ 4 :> 120
MCToday      == {30, 37}
MCHandMade   == {At(37)}

celebrationPart == <<celebration, instance, today, generation, faults, raced>>
orderPart       == <<service, request, notices, reminder, orderFaults, told, pushes, undone>>
pushPart        == <<segment, send, row, batch>>
loginPart       == <<token, login, proven, link, password, tab, forked, late, doubled>>
allVars         == <<part, celebrationPart, orderPart, pushPart, loginPart>>

\* The parts that rest need only one of their initial states.
AllInit ==
  /\ part \in {"celebration", "order", "push", "login"}
  /\ Init /\ Order!Init /\ Push!Init /\ Login!Init
  /\ part = "celebration" \/ celebration.recurrence = "weekly"

\* A step of one part leaves the others alone.
CelebrationStep == part = "celebration" /\ Next
                     /\ UNCHANGED <<orderPart, pushPart, loginPart>>
OrderStep       == part = "order" /\ Order!Next
                     /\ UNCHANGED <<celebrationPart, pushPart, loginPart>>
PushStep        == part = "push" /\ Push!Next
                     /\ UNCHANGED <<celebrationPart, orderPart, loginPart>>
LoginStep       == part = "login" /\ Login!Next
                     /\ UNCHANGED <<celebrationPart, orderPart, pushPart>>

AllNext ==
  /\ CelebrationStep \/ OrderStep \/ PushStep \/ LoginStep
  /\ UNCHANGED part

AllSpec == AllInit /\ [][AllNext]_allVars

\* Sets of different parts may hold the same model values, since no variable
\* holds members of both: instances and tokens, runs, connections and tabs.
Symmetry == Permutations(Instances) \cup Permutations(Runs) \cup Permutations(Links)

\* The properties of the parts under their own names.  A part that rests stays
\* in an initial state, of which its own behaviours check the property.
OrdersCohere    == part = "order" => Order!OrdersCohere
AudienceCoheres == part = "push" => Push!AudienceCoheres
LoginsCohere    == part = "login" => Login!LoginsCohere
==============================================================================
