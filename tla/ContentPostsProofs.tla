--------------------------- MODULE ContentPostsProofs ---------------------------
(***************************************************************************)
(* PostsCohere and StampIsKept hold of ContentPosts for any posts, server  *)
(* processes and connections, and any bound on the crashes.                *)
(***************************************************************************)
EXTENDS ContentPosts, TLAPS

PostRow == [row : {"live"}, is_draft : BOOLEAN, publish_at : Dates, published_at : Stamps]

RequestTyped(r) ==
  /\ r.op \in {"idle", "update", "publish", "remove"}
  /\ r # Idle => r.op # "idle" /\ r.post \in Posts
  /\ r.op = "update" => r.is_draft \in BOOLEAN /\ r.publish_at \in Dates

RowsTyped ==
  /\ post \in [Posts -> {Absent, Deleted} \cup PostRow]
  /\ run \in [Instances -> [step : {"asleep", "claim", "announce"}, due : SUBSET Posts]]
  /\ session = [c \in Sessions |-> session[c]]
  /\ \A c \in Sessions : RequestTyped(session[c])
  /\ announced \in [Instances -> [Posts -> Nat]]
  /\ crashes \in 0..MaxCrashes

\* The post will never be due again: nothing resets published_at, and ids are
\* used once.
Settled(row) == row = Deleted \/ (row \in PostRow /\ row.published_at # "null")

\* A post whose announcement is pending was not announced by that process, and
\* one that was announced, or claimed, is settled.
AnnouncementsTell ==
  \A i \in Instances, p \in Posts :
    /\ p \in run[i].due => run[i].step # "asleep" /\ announced[i][p] = 0
    /\ announced[i][p] > 0 => announced[i][p] = 1 /\ Settled(post[p])
    /\ run[i].step = "announce" /\ p \in run[i].due => Settled(post[p])
    /\ run[i].step = "claim" /\ p \in run[i].due => post[p] # Absent

\* What the cron published it has announced or is about to.
StampsAreAnnounced ==
  crashes = 0 => \A p \in Posts : Live(p) /\ post[p].published_at = "cron" =>
    \E i \in Instances : announced[i][p] > 0 \/ (run[i].step = "announce" /\ p \in run[i].due)

PostsInv == RowsTyped /\ AnnouncementsTell /\ StampsAreAnnounced

-----------------------------------------------------------------------------
LEMMA RowsAreLive ==
  /\ \A row \in PostRow : row.row = "live" /\ row # Absent /\ row # Deleted
  /\ Absent # Deleted /\ Absent.row # "live" /\ Deleted.row # "live"
  <1>1. \A row \in PostRow : row.row = "live"
    BY DEF PostRow
  <1>2. Absent.row = "absent" /\ Deleted.row = "deleted"
    BY DEF Absent, Deleted
  <1>3. QED
    BY <1>1, <1>2

LEMMA LiveIsRow == ASSUME RowsTyped, NEW p \in Posts, Live(p) PROVE post[p] \in PostRow
  BY RowsAreLive DEF RowsTyped, Live

LEMMA InitHolds == Init => PostsInv
  <1> SUFFICES ASSUME Init PROVE PostsInv
    OBVIOUS
  <1>1. RowsTyped
    BY MaxCrashesAssumption DEF Init, RowsTyped, RequestTyped, Idle, Asleep
  <1>2. AnnouncementsTell /\ StampsAreAnnounced
    BY RowsAreLive DEF Init, AnnouncementsTell, StampsAreAnnounced, Asleep, Live
  <1>3. QED
    BY <1>1, <1>2 DEF PostsInv

LEMMA InvSuffices == PostsInv => PostsCohere
  <1> SUFFICES ASSUME PostsInv PROVE PostsCohere
    OBVIOUS
  <1>1. TypeOK
    BY DEF PostsInv, RowsTyped, RequestTyped, TypeOK, PostRow
  <1>2. AnnouncedOncePerProcess
    BY DEF PostsInv, RowsTyped, AnnouncementsTell, AnnouncedOncePerProcess
  <1>3. PublishedIsAnnounced
    <2>1. SUFFICES ASSUME crashes = 0, \A i \in Instances : run[i] = Asleep,
                          NEW p \in Posts, Live(p), post[p].published_at = "cron"
                   PROVE  \E i \in Instances : announced[i][p] >= 1
      BY DEF PublishedIsAnnounced
    <2>2. PICK i \in Instances : announced[i][p] > 0
      BY <2>1 DEF PostsInv, StampsAreAnnounced, Asleep
    <2>3. announced[i][p] \in Nat
      BY DEF PostsInv, RowsTyped
    <2>4. QED
      BY <2>2, <2>3
  <1>4. QED
    BY <1>1, <1>2, <1>3 DEF PostsCohere

-----------------------------------------------------------------------------
(* Steps of users: the row of one post, or none, changes.                   *)

\* A row that was settled stays so, and the cron's stamp is nobody else's.
LEMMA UserStepHolds ==
  ASSUME PostsInv, RowsTyped', UNCHANGED <<run, announced, crashes>>,
         \A p \in Posts : /\ Settled(post[p]) => Settled(post'[p])
                          /\ post[p] # Absent => post'[p] # Absent
                          /\ Live(p)' /\ post'[p].published_at = "cron"
                               => Live(p) /\ post[p].published_at = "cron"
  PROVE  PostsInv'
  <1>1. AnnouncementsTell'
    BY DEF PostsInv, AnnouncementsTell
  <1>2. StampsAreAnnounced'
    BY DEF PostsInv, StampsAreAnnounced
  <1>3. QED
    BY <1>1, <1>2 DEF PostsInv

LEMMA RequestsOpen ==
  ASSUME PostsInv, NEW c \in Sessions,
         \/ \E p \in Posts :
              \/ \E draft \in BOOLEAN, at \in Dates : OpenUpdate(c, p, draft, at)
              \/ OpenPublish(c, p) \/ OpenRemove(c, p)
         \/ Rollback(c)
  PROVE  PostsInv'
  <1>1. UNCHANGED <<post, run, announced, crashes>>
    BY DEF OpenUpdate, OpenPublish, OpenRemove, Open, Rollback
  <1>2. PICK r : session' = [session EXCEPT ![c] = r] /\ RequestTyped(r)
    BY DEF OpenUpdate, OpenPublish, OpenRemove, Open, Rollback, RequestTyped, Idle
  <1>3. RowsTyped'
    BY <1>1, <1>2 DEF PostsInv, RowsTyped
  <1>4. \A p \in Posts : Live(p)' => Live(p)
    BY <1>1 DEF Live
  <1>5. QED
    BY <1>1, <1>3, <1>4, UserStepHolds

\* A row is written that has a date and a stamp of the type.
LEMMA RowIsWritten ==
  ASSUME PostsInv, NEW p \in Posts, NEW row, row \in {Deleted} \cup PostRow, NEW c \in Sessions,
         post' = [post EXCEPT ![p] = row], UNCHANGED <<run, announced, crashes>>,
         session' = session \/ session' = [session EXCEPT ![c] = Idle],
         Settled(post[p]) => Settled(row),
         row \in PostRow /\ row.published_at = "cron" => Live(p) /\ post[p].published_at = "cron"
  PROVE  PostsInv'
  <1>1. RowsTyped'
    BY DEF PostsInv, RowsTyped, RequestTyped, Idle
  <1>2. \A q \in Posts : post'[q] = IF q = p THEN row ELSE post[q]
    BY DEF PostsInv, RowsTyped
  <1>3. row # Absent /\ (row.row = "live" => row \in PostRow)
    BY RowsAreLive
  <1>4. \A q \in Posts : Live(q)' /\ post'[q].published_at = "cron" => Live(q) /\ post[q].published_at = "cron"
    BY <1>2, <1>3 DEF Live
  <1>5. QED
    BY <1>1, <1>2, <1>3, <1>4, UserStepHolds

LEMMA RowsWritten ==
  ASSUME PostsInv, NEW c \in Sessions,
         \/ \E p \in Posts, draft \in BOOLEAN, at \in Dates : Create(c, p, draft, at)
         \/ CommitUpdate(c) \/ CommitPublish(c) \/ CommitRemove(c)
  PROVE  PostsInv'
  <1>1. ASSUME NEW p \in Posts, NEW draft \in BOOLEAN, NEW at \in Dates, Create(c, p, draft, at)
        PROVE  PostsInv'
    <2> DEFINE row == [row |-> "live", is_draft |-> draft, publish_at |-> at,
                       published_at |-> IF ~draft /\ at = "never" THEN "create" ELSE "null"]
    <2>1. row \in PostRow /\ row.published_at # "cron"
      BY DEF PostRow, Stamps
    <2>2. ~Settled(post[p])
      BY <1>1, RowsAreLive DEF Create, Settled
    <2>3. post' = [post EXCEPT ![p] = row] /\ UNCHANGED <<run, announced, crashes, session>>
      BY <1>1 DEF Create
    <2> HIDE DEF row
    <2>4. QED
      BY <2>1, <2>2, <2>3, RowIsWritten
  <1>2. ASSUME NEW op, NEW row, Commit(c, op, row), op # "idle"
        PROVE  /\ session[c].post \in Posts /\ Live(session[c].post) /\ post[session[c].post] \in PostRow
               /\ post' = [post EXCEPT ![session[c].post] = row]
               /\ session' = [session EXCEPT ![c] = Idle] /\ UNCHANGED <<run, announced, crashes>>
    <2>1. session[c] # Idle
      BY <1>2 DEF Commit, Idle
    <2>2. session[c].post \in Posts
      BY <2>1 DEF PostsInv, RowsTyped, RequestTyped
    <2>3. QED
      BY <1>2, <2>2, LiveIsRow DEF Commit, PostsInv
  <1>3. CASE CommitUpdate(c)
    <2> DEFINE old == post[session[c].post]
               row == [old EXCEPT !.is_draft = session[c].is_draft, !.publish_at = session[c].publish_at]
    <2>1. Commit(c, "update", row) /\ session[c].op = "update"
      BY <1>3 DEF CommitUpdate, Commit
    <2>2. session[c].is_draft \in BOOLEAN /\ session[c].publish_at \in Dates
      BY <2>1 DEF PostsInv, RowsTyped, RequestTyped
    <2>3. old \in PostRow
      BY <1>2, <2>1
    <2>4. row \in PostRow /\ row.published_at = old.published_at
      BY <2>2, <2>3 DEF PostRow
    <2> HIDE DEF row
    <2>5. QED
      BY <1>2, <2>1, <2>3, <2>4, RowIsWritten, RowsAreLive DEF Settled
  <1>4. CASE CommitPublish(c)
    <2> DEFINE old == post[session[c].post]
               row == [old EXCEPT !.is_draft = FALSE, !.published_at = "publish"]
    <2>1. Commit(c, "publish", row)
      BY <1>4 DEF CommitPublish
    <2>2. old \in PostRow
      BY <1>2, <2>1
    <2>3. row \in PostRow /\ row.published_at = "publish"
      BY <2>2 DEF PostRow, Stamps
    <2> HIDE DEF row
    <2>4. QED
      BY <1>2, <2>1, <2>2, <2>3, RowIsWritten DEF Settled
  <1>5. CASE CommitRemove(c)
    <2>1. Commit(c, "remove", Deleted)
      BY <1>5 DEF CommitRemove
    <2>2. QED
      BY <1>2, <2>1, RowIsWritten, RowsAreLive DEF Settled
  <1>6. QED
    BY <1>1, <1>3, <1>4, <1>5

LEMMA TimePassesHolds ==
  ASSUME PostsInv, NEW p \in Posts, TimePasses(p)
  PROVE  PostsInv'
  <1> DEFINE row == [post[p] EXCEPT !.publish_at = "reached"]
  <1>1. post[p] \in PostRow
    BY LiveIsRow DEF PostsInv, TimePasses
  <1>2. row \in PostRow /\ row.published_at = post[p].published_at
    BY <1>1 DEF PostRow, Dates
  <1>3. post' = [post EXCEPT ![p] = row] /\ UNCHANGED <<run, session, announced, crashes>> /\ Live(p)
    BY DEF TimePasses
  <1> HIDE DEF row
  <1>4. RowsTyped'
    BY <1>2, <1>3 DEF PostsInv, RowsTyped
  <1>5. \A q \in Posts : post'[q] = IF q = p THEN row ELSE post[q]
    BY <1>3 DEF PostsInv, RowsTyped
  <1>6. \A q \in Posts : /\ Settled(post[q]) => Settled(post'[q])
                         /\ post[q] # Absent => post'[q] # Absent
                         /\ Live(q)' /\ post'[q].published_at = "cron"
                              => Live(q) /\ post[q].published_at = "cron"
    BY <1>1, <1>2, <1>3, <1>5, RowsAreLive DEF Settled, Live
  <1>7. QED
    BY <1>3, <1>4, <1>6, UserStepHolds

-----------------------------------------------------------------------------
(* The cron.                                                                *)

LEMMA FindDueHolds ==
  ASSUME PostsInv, NEW i \in Instances, FindDue(i)
  PROVE  PostsInv'
  <1> DEFINE due == {p \in Posts : Due(p)}
  <1>1. run' = [run EXCEPT ![i] = [step |-> "claim", due |-> due]]
        /\ UNCHANGED <<post, session, announced, crashes>> /\ run[i].step = "asleep"
    BY DEF FindDue
  <1>2. \A p \in due : ~Settled(post[p]) /\ post[p] # Absent
    BY RowsAreLive DEF Due, Settled, Live
  <1>3. due \subseteq Posts
    OBVIOUS
  <1> HIDE DEF due
  <1>4. RowsTyped'
    BY <1>1, <1>3 DEF PostsInv, RowsTyped
  <1>5. \A j \in Instances : run'[j] = IF j = i THEN [step |-> "claim", due |-> due] ELSE run[j]
    BY <1>1 DEF PostsInv, RowsTyped
  <1>6. \A p \in due : announced[i][p] = 0
    BY <1>2, <1>3 DEF PostsInv, RowsTyped, AnnouncementsTell
  <1>7. AnnouncementsTell'
    BY <1>1, <1>2, <1>5, <1>6 DEF PostsInv, AnnouncementsTell
  <1>8. StampsAreAnnounced'
    BY <1>1, <1>5 DEF PostsInv, StampsAreAnnounced, Live
  <1>9. QED
    BY <1>4, <1>7, <1>8 DEF PostsInv

LEMMA ClaimHolds ==
  ASSUME PostsInv, NEW i \in Instances, Claim(i)
  PROVE  PostsInv'
  <1> DEFINE won(p) == p \in run[i].due /\ Live(p) /\ post[p].published_at = "null"
  <1>1. /\ run[i].step = "claim" /\ run' = [run EXCEPT ![i].step = "announce"]
        /\ post' = [p \in Posts |-> IF won(p) THEN [post[p] EXCEPT !.published_at = "cron"] ELSE post[p]]
        /\ UNCHANGED <<session, announced, crashes>>
    BY DEF Claim
  <1>2. ASSUME NEW p \in Posts, won(p)
        PROVE  /\ [post[p] EXCEPT !.published_at = "cron"] \in PostRow
               /\ [post[p] EXCEPT !.published_at = "cron"].published_at = "cron"
    <2>1. post[p] \in PostRow
      BY <1>2, LiveIsRow DEF PostsInv
    <2>2. QED
      BY <2>1 DEF PostRow, Stamps
  <1>3. ASSUME NEW p \in Posts, p \in run[i].due, ~won(p) PROVE Settled(post[p])
    <2>1. post[p] # Absent
      BY <1>1, <1>3 DEF PostsInv, AnnouncementsTell
    <2>2. post[p] = Deleted \/ post[p] \in PostRow
      BY <2>1 DEF PostsInv, RowsTyped
    <2>3. post[p] \in PostRow => Live(p)
      BY RowsAreLive DEF Live
    <2>4. QED
      BY <1>3, <2>2, <2>3 DEF Settled
  <1>4. \A p \in Posts : post'[p] = IF won(p) THEN [post[p] EXCEPT !.published_at = "cron"] ELSE post[p]
    BY <1>1
  <1>w. \A p \in Posts : won(p) => p \in run[i].due
    OBVIOUS
  <1> HIDE DEF won
  <1>5. run'[i].step = "announce" /\ run'[i].due = run[i].due
        /\ \A j \in Instances \ {i} : run'[j] = run[j]
    BY <1>1 DEF PostsInv, RowsTyped
  <1>6. RowsTyped'
    <2>1. post' \in [Posts -> {Absent, Deleted} \cup PostRow]
      BY <1>1, <1>2 DEF PostsInv, RowsTyped
    <2>2. run' \in [Instances -> [step : {"asleep", "claim", "announce"}, due : SUBSET Posts]]
      BY <1>1 DEF PostsInv, RowsTyped
    <2>3. QED
      BY <1>1, <2>1, <2>2 DEF PostsInv, RowsTyped
  <1>7. \A p \in Posts : (Settled(post[p]) \/ p \in run[i].due) => Settled(post'[p])
    BY <1>2, <1>3, <1>4 DEF Settled
  <1>8. \A p \in Posts : post[p] # Absent => post'[p] # Absent
    BY <1>2, <1>4, RowsAreLive
  <1>9. AnnouncementsTell'
    BY <1>1, <1>5, <1>7, <1>8 DEF PostsInv, AnnouncementsTell
  <1>10. StampsAreAnnounced'
    <2>1. SUFFICES ASSUME crashes = 0, NEW p \in Posts, Live(p)', post'[p].published_at = "cron"
                   PROVE  \E j \in Instances : announced[j][p] > 0 \/ (run'[j].step = "announce" /\ p \in run'[j].due)
      BY <1>1 DEF StampsAreAnnounced
    <2>2. CASE won(p)
      BY <1>5, <1>w, <2>2
    <2>3. CASE ~won(p)
      <3>1. Live(p) /\ post[p].published_at = "cron"
        BY <1>4, <2>1, <2>3 DEF Live
      <3>2. PICK j \in Instances : announced[j][p] > 0 \/ (run[j].step = "announce" /\ p \in run[j].due)
        BY <2>1, <3>1 DEF PostsInv, StampsAreAnnounced
      <3>3. QED
        BY <1>1, <1>5, <3>2
    <2>4. QED
      BY <2>2, <2>3
  <1>11. QED
    BY <1>6, <1>9, <1>10 DEF PostsInv

LEMMA AnnounceHolds ==
  ASSUME PostsInv, NEW i \in Instances, Announce(i)
  PROVE  PostsInv'
  <1>1. /\ run[i].step = "announce" /\ run' = [run EXCEPT ![i] = Asleep]
        /\ announced' = [announced EXCEPT ![i] = [p \in Posts |-> IF p \in run[i].due THEN @[p] + 1 ELSE @[p]]]
        /\ UNCHANGED <<post, session, crashes>>
    BY DEF Announce
  <1>2. /\ \A p \in Posts : announced'[i][p] = IF p \in run[i].due THEN announced[i][p] + 1 ELSE announced[i][p]
        /\ \A j \in Instances \ {i} : announced'[j] = announced[j] /\ run'[j] = run[j]
        /\ run'[i] = Asleep
    BY <1>1 DEF PostsInv, RowsTyped
  <1>3. RowsTyped'
    BY <1>1 DEF PostsInv, RowsTyped, Asleep
  <1>4. \A p \in Posts : p \in run[i].due => announced'[i][p] = 1 /\ Settled(post[p])
    BY <1>1, <1>2 DEF PostsInv, AnnouncementsTell
  <1>5. AnnouncementsTell'
    BY <1>1, <1>2, <1>4 DEF PostsInv, AnnouncementsTell, Asleep
  <1>6. StampsAreAnnounced'
    BY <1>1, <1>2, <1>4 DEF PostsInv, StampsAreAnnounced, Live
  <1>7. QED
    BY <1>3, <1>5, <1>6 DEF PostsInv

LEMMA CrashHolds ==
  ASSUME PostsInv, NEW i \in Instances, Crash(i)
  PROVE  PostsInv'
  <1>1. /\ crashes < MaxCrashes /\ crashes' = crashes + 1 /\ run' = [run EXCEPT ![i] = Asleep]
        /\ UNCHANGED <<post, session, announced>>
    BY DEF Crash
  <1>2. RowsTyped'
    BY <1>1, MaxCrashesAssumption DEF PostsInv, RowsTyped, Asleep
  <1>3. AnnouncementsTell'
    BY <1>1 DEF PostsInv, RowsTyped, AnnouncementsTell, Asleep
  <1>4. crashes' # 0
    BY <1>1 DEF PostsInv, RowsTyped
  <1>5. QED
    BY <1>2, <1>3, <1>4 DEF PostsInv, StampsAreAnnounced

-----------------------------------------------------------------------------
LEMMA NextHolds ==
  ASSUME PostsInv, [Next]_vars
  PROVE  PostsInv'
  <1>1. CASE UNCHANGED vars
    BY <1>1 DEF vars, PostsInv, RowsTyped, RequestTyped, AnnouncementsTell, StampsAreAnnounced, Live
  <1>2. CASE Next
    BY <1>2, RequestsOpen, RowsWritten, TimePassesHolds, FindDueHolds, ClaimHolds, AnnounceHolds, CrashHolds
    DEF Next, Cron
  <1>3. QED
    BY <1>1, <1>2

\* No process announces a post twice, and a post the cron published is
\* announced unless a process died: for any number of processes and whatever
\* users do to the post between the cron's statements.
THEOREM PostsStayCoherent == Spec => []PostsCohere
  <1>1. Init => PostsInv
    BY InitHolds
  <1>2. PostsInv /\ [Next]_vars => PostsInv'
    BY NextHolds
  <1>3. PostsInv => PostsCohere
    BY InvSuffices
  <1>4. QED
    BY <1>1, <1>2, <1>3, PTL DEF Spec

\* The claim never overwrites a published_at that is already there, whoever
\* wrote it since the cron has read the post.
THEOREM StampsAreKept == Spec => StampIsKept
  <1>1. Init => PostsInv
    BY InitHolds
  <1>2. PostsInv /\ [Next]_vars => PostsInv'
    BY NextHolds
  <1>3. ASSUME PostsInv, [Next]_vars, NEW i \in Instances, NEW p \in Posts,
               run[i].step = "claim", run'[i].step = "announce", post[p].published_at # "null"
        PROVE  post'[p] = post[p]
    <2>1. run' # run
      BY <1>3
    <2>2. PICK j \in Instances : Cron(j) \/ Crash(j)
      BY <1>3, <2>1
      DEF Next, vars, TimePasses, Create, OpenUpdate, OpenPublish, OpenRemove, Open, CommitUpdate,
          CommitPublish, CommitRemove, Commit, Rollback
    <2>3. CASE Claim(j)
      BY <1>3, <2>3 DEF Claim
    <2>4. CASE FindDue(j) \/ Announce(j) \/ Crash(j)
      BY <2>4 DEF FindDue, Announce, Crash
    <2>5. QED
      BY <2>2, <2>3, <2>4 DEF Cron
  <1>4. PostsInv /\ [Next]_vars =>
          [\A i \in Instances, p \in Posts :
             (run[i].step = "claim" /\ run'[i].step = "announce"
              /\ Live(p) /\ post[p].published_at # "null")
               => post'[p] = post[p]]_vars
    BY <1>3
  <1>5. QED
    BY <1>1, <1>2, <1>4, PTL DEF Spec, StampIsKept
===============================================================================
