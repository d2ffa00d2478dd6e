---------------------------- MODULE Notifications ----------------------------
(***************************************************************************)
(* Push notifications to segments of the congregations, and the metrics a  *)
(* cron collects of them (content/notifications.service.ts,                *)
(* segments.service.ts).                                                   *)
(*                                                                         *)
(* The push service is external: it reaches the devices that match a list  *)
(* of tag filters, in which OR separates groups of filters that must hold  *)
(* together.  A device carries one congregation, one small group and one   *)
(* role.  Titles and texts are left out.                                   *)
(***************************************************************************)
EXTENDS Naturals, FiniteSets, Sequences, SequencesExt

CONSTANTS
  Segments,    \* segment ids: each is used once
  Dispatches,  \* notifications somebody sends: each is used once
  Tags,        \* [key -> values a tag can have]
  Criteria,    \* criteria segments are saved with
  Batch        \* notifications the cron measures at a time

VARIABLES
  segment,   \* [Segments -> criteria of the row, or None]
  send,      \* [Dispatches -> notification on its way]
  row,       \* [Dispatches -> row of notification_dispatches]
  batch      \* notifications the running cron still measures

notificationVars == <<segment, send, row, batch>>

None == [kind |-> "none"]
Or   == [operator |-> "OR"]
Keys == {"congregation", "group", "role"}

Devices == [Keys -> UNION {Tags[k] : k \in DOMAIN Tags}]
Device  == {d \in Devices : \A k \in DOMAIN Tags : d[k] \in Tags[k]}

-----------------------------------------------------------------------------
(* buildFilters and orGroup.  The tenant's own tag holds on every device.   *)

Tenant == <<[key |-> "tenant", value |-> "tenant"]>>

\* Mutant: nothing separates the values of a criterion.
OrGroupJoined(key, values) ==
  [n \in 1..Cardinality(values) |-> [key |-> key, value |-> SetToSeq(values)[n]]]

\* The values one criterion names, one OR another.
OrGroup(key, values) ==
  [n \in 1..(2 * Cardinality(values) - 1) |->
     IF n % 2 = 0 THEN Or ELSE [key |-> key, value |-> SetToSeq(values)[(n + 1) \div 2]]]

SegmentFilters(criteria) ==
  LET parts == OrGroup("congregation", criteria["congregation"])
                 \o (OrGroup("group", criteria["group"]) \o OrGroup("role", criteria["role"]))
  IN  IF parts = <<>> THEN Tenant ELSE parts

\* The lists of the segments: OR separates them, in the order in which the
\* database found them.
BuildFilters(found) == IF found = {} THEN {Tenant} ELSE {SegmentFilters(criteria) : criteria \in found}

-----------------------------------------------------------------------------
(* The push service, and what the secretary means by a segment.             *)

Holds(filter, device) == filter.key = "tenant" \/ device[filter.key] = filter.value

\* A group of filters between two ORs holds together.
Matches(filters, device) ==
  \E first, last \in DOMAIN filters :
    /\ first <= last
    /\ first = 1 \/ filters[first - 1] = Or
    /\ last = Len(filters) \/ filters[last + 1] = Or
    /\ \A n \in first..last : filters[n] # Or /\ Holds(filters[n], device)

Reached(lists) == {d \in Device : \E filters \in lists : Matches(filters, d)}

Named(criteria) == {k \in DOMAIN Tags : criteria[k] # {}}

Meant(criteria) == {d \in Device : \A k \in Named(criteria) : d[k] \in criteria[k]}

\* The criteria for which the list says what it should: one of them, or one
\* value for each.
Plain(criteria) ==
  \/ \E k \in DOMAIN Tags : Named(criteria) \subseteq {k}
  \/ \A k, l \in Named(criteria) : \A v, w \in criteria[k] : v = w

-----------------------------------------------------------------------------
Idle == [step |-> "idle"]

\* Sends and rows are well formed.
TypeOK ==
  /\ segment \in [Segments -> Criteria \cup {None}]
  /\ \A d \in Dispatches :
       \/ send[d] \in {Idle} \cup [step : {"done", "lost"}]
       \/ send[d].step \in {"push", "record"} /\ send[d].wanted \subseteq Segments /\ send[d].reached \subseteq Device
  /\ row \in [Dispatches -> {"none", "failed", "sent", "half", "measured"}]
  /\ batch \subseteq Dispatches

Init ==
  /\ segment = [s \in Segments |-> None]
  /\ send = [d \in Dispatches |-> Idle]
  /\ row = [d \in Dispatches |-> "none"]
  /\ batch = {}

-----------------------------------------------------------------------------
(* create, update and remove of a segment.                                  *)

SaveSegment(s, criteria) ==
  /\ segment' = [segment EXCEPT ![s] = criteria]
  /\ UNCHANGED <<send, row, batch>>

RemoveSegment(s) ==
  /\ segment[s] # None
  /\ segment' = [segment EXCEPT ![s] = None]
  /\ UNCHANGED <<send, row, batch>>

-----------------------------------------------------------------------------
(* sendManualNotification and dispatch: read, push, record.                 *)

Found(wanted) == {segment[s] : s \in {t \in wanted : segment[t] # None}}

Goto(d, next) == send' = [send EXCEPT ![d] = next]

\* The ids of the segments are used as they came: one that is gone is not
\* missed.
Send(d, wanted) ==
  /\ send[d] = Idle
  /\ Goto(d, [step |-> "push", wanted |-> wanted, found |-> Found(wanted),
              reached |-> Reached(BuildFilters(Found(wanted)))])
  /\ UNCHANGED <<segment, row, batch>>

Push(d) ==
  /\ send[d].step = "push"
  /\ \E pushed \in BOOLEAN : Goto(d, [step |-> "record", wanted |-> send[d].wanted, found |-> send[d].found,
                                      reached |-> IF pushed THEN send[d].reached ELSE {}])
  /\ UNCHANGED <<segment, row, batch>>

\* A push the service refused is recorded as failed, and has no id there.
Record(d) ==
  /\ send[d].step = "record"
  /\ Goto(d, [step |-> "done"])
  /\ row' = [row EXCEPT ![d] = IF send[d].reached = {} THEN "failed" ELSE "sent"]
  /\ UNCHANGED <<segment, batch>>

\* The row cannot be written, or the process dies: what was pushed stays
\* without a row.
Lose(d) ==
  /\ send[d].step \in {"push", "record"}
  /\ Goto(d, [step |-> "lost"])
  /\ UNCHANGED <<segment, row, batch>>

-----------------------------------------------------------------------------
(* syncMetrics: a batch in no order, then one call and one update each.     *)

Pending == {d \in Dispatches : row[d] \in {"sent", "half"}}

StartSync ==
  /\ batch = {} /\ Pending # {}
  /\ \E some \in SUBSET Pending :
       /\ Cardinality(some) <= Batch
       /\ some # Pending => Cardinality(some) = Batch
       /\ batch' = some
  /\ UNCHANGED <<segment, send, row>>

\* A number the service does not know yet leaves the row pending.
Measure(d, known) ==
  /\ d \in batch
  /\ batch' = batch \ {d}
  /\ row' = [row EXCEPT ![d] = known]
  /\ UNCHANGED <<segment, send>>

\* The call or the update fails, and the next one is tried.
Skip(d) ==
  /\ d \in batch
  /\ batch' = batch \ {d}
  /\ UNCHANGED <<segment, send, row>>

-----------------------------------------------------------------------------
Next ==
  \/ \E s \in Segments :
       \/ \E criteria \in Criteria : SaveSegment(s, criteria)
       \/ RemoveSegment(s)
  \/ \E d \in Dispatches :
       \/ \E wanted \in SUBSET Segments : Send(d, wanted)
       \/ Push(d)
       \/ Record(d)
       \/ Lose(d)
       \/ \E known \in {"sent", "half", "measured"} : Measure(d, known)
       \/ Skip(d)
  \/ StartSync

Spec == Init /\ [][Next]_notificationVars

-----------------------------------------------------------------------------
(* Properties.                                                              *)

\* A notification about to be pushed reaches everybody its segments mean,
\* however their criteria are combined.
NobodyIsMissed ==
  \A d \in Dispatches :
    send[d].step = "push" => \A criteria \in send[d].found : Meant(criteria) \subseteq send[d].reached

\* It reaches nobody else, unless every segment it was meant for is gone,
\* or one of them combines criteria of which one has several values.
NobodyElseIsReached ==
  \A d \in Dispatches :
    send[d].step = "push" /\ send[d].found # {} /\ (\A criteria \in send[d].found : Plain(criteria))
    => send[d].reached \subseteq UNION {Meant(criteria) : criteria \in send[d].found}

\* What Notifications checks of its states.
AudienceCoheres == TypeOK /\ NobodyIsMissed /\ NobodyElseIsReached
==============================================================================
