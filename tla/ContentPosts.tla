---------------------------- MODULE ContentPosts -----------------------------
(***************************************************************************)
(* Posts of a congregation and the cron that publishes the scheduled ones  *)
(* (content/posts.service.ts, content/scheduler.service.ts).  A run of the *)
(* cron reads the posts that are due, claims them with one conditional     *)
(* update and announces all it had read.  Media files are left out.        *)
(***************************************************************************)
EXTENDS Naturals

CONSTANTS
  Posts,       \* post ids, each used once
  Instances,   \* server processes that run the cron
  Sessions,    \* client connections
  MaxCrashes   \* bound on the crashes of a behaviour

ASSUME MaxCrashesAssumption == MaxCrashes \in Nat

VARIABLES
  post,        \* [Posts -> committed row]
  run,         \* [Instances -> the cron run in progress]
  session,     \* [Sessions -> the open request]
  announced,   \* [Instances -> [Posts -> times that process announced the post]]
  crashes      \* crashes so far

vars == <<post, run, session, announced, crashes>>

\* publish_at against the clock, and who wrote published_at last.
Dates  == {"never", "later", "reached"}
Stamps == {"null", "create", "publish", "cron"}

Absent  == [row |-> "absent"]
Deleted == [row |-> "deleted"]
Live(p) == post[p].row = "live"
Idle    == [op |-> "idle"]
Asleep  == [step |-> "asleep", due |-> {}]

\* Rows and runs are well formed; published_at is stamped by known writers.
TypeOK ==
  /\ \A p \in Posts :
       \/ post[p] \in {Absent, Deleted}
       \/ post[p] \in [row : {"live"}, is_draft : BOOLEAN, publish_at : Dates, published_at : Stamps]
  /\ run \in [Instances -> [step : {"asleep", "claim", "announce"}, due : SUBSET Posts]]
  /\ \A c \in Sessions : session[c].op \in {"idle", "update", "publish", "remove"}
  /\ announced \in [Instances -> [Posts -> Nat]]
  /\ crashes \in 0..MaxCrashes

Init ==
  /\ post = [p \in Posts |-> Absent]
  /\ run = [i \in Instances |-> Asleep]
  /\ session = [c \in Sessions |-> Idle]
  /\ announced = [i \in Instances |-> [p \in Posts |-> 0]]
  /\ crashes = 0

\* publish_at is reached as time passes.
TimePasses(p) ==
  /\ Live(p) /\ post[p].publish_at = "later"
  /\ post' = [post EXCEPT ![p].publish_at = "reached"]
  /\ UNCHANGED <<run, session, announced, crashes>>

-----------------------------------------------------------------------------
(* Requests.                                                                *)

\* A post that is no draft and has no date is published by its creation.
Create(c, p, draft, at) ==
  /\ session[c] = Idle /\ post[p] = Absent
  /\ post' = [post EXCEPT ![p] =
                [row |-> "live", is_draft |-> draft, publish_at |-> at,
                 published_at |-> IF ~draft /\ at = "never" THEN "create" ELSE "null"]]
  /\ UNCHANGED <<run, session, announced, crashes>>

\* update, publish and remove look the post up before they write it.
Open(c, p, request) ==
  /\ session[c] = Idle /\ Live(p)
  /\ session' = [session EXCEPT ![c] = request]
  /\ UNCHANGED <<post, run, announced, crashes>>

OpenUpdate(c, p, draft, at) ==
  Open(c, p, [op |-> "update", post |-> p, is_draft |-> draft, publish_at |-> at])
OpenPublish(c, p) == Open(c, p, [op |-> "publish", post |-> p])
OpenRemove(c, p) == Open(c, p, [op |-> "remove", post |-> p])

Commit(c, op, row) ==
  /\ session[c].op = op /\ Live(session[c].post)
  /\ post' = [post EXCEPT ![session[c].post] = row]
  /\ session' = [session EXCEPT ![c] = Idle]
  /\ UNCHANGED <<run, announced, crashes>>

CommitUpdate(c) ==
  LET r == session[c]
  IN  Commit(c, "update",
             [post[r.post] EXCEPT !.is_draft = r.is_draft, !.publish_at = r.publish_at])

CommitPublish(c) ==
  LET r == session[c]
  IN  Commit(c, "publish", [post[r.post] EXCEPT !.is_draft = FALSE, !.published_at = "publish"])

CommitRemove(c) == Commit(c, "remove", Deleted)

Rollback(c) ==
  /\ session[c] # Idle
  /\ session' = [session EXCEPT ![c] = Idle]
  /\ UNCHANGED <<post, run, announced, crashes>>

-----------------------------------------------------------------------------
(* publishScheduledPosts, with the system client: one statement, one step.  *)

Due(p) ==
  /\ Live(p) /\ ~post[p].is_draft
  /\ post[p].publish_at = "reached" /\ post[p].published_at = "null"

\* Mutant: the comparison of publish_at with the clock is turned around.
FindDueTooEarly(i) ==
  LET early == {p \in Posts : /\ Live(p) /\ ~post[p].is_draft
                               /\ post[p].publish_at = "later" /\ post[p].published_at = "null"}
  IN  /\ run[i].step = "asleep" /\ early # {}
      /\ run' = [run EXCEPT ![i] = [step |-> "claim", due |-> early]]
      /\ UNCHANGED <<post, session, announced, crashes>>

FindDue(i) ==
  /\ run[i].step = "asleep"
  /\ \E p \in Posts : Due(p)
  /\ run' = [run EXCEPT ![i] = [step |-> "claim", due |-> {p \in Posts : Due(p)}]]
  /\ UNCHANGED <<post, session, announced, crashes>>

\* Mutant: WHERE published_at IS NULL is missing.
ClaimAll(i) ==
  /\ run[i].step = "claim"
  /\ post' = [p \in Posts |-> IF p \in run[i].due /\ Live(p)
                              THEN [post[p] EXCEPT !.published_at = "cron"] ELSE post[p]]
  /\ run' = [run EXCEPT ![i].step = "announce"]
  /\ UNCHANGED <<session, announced, crashes>>

Claim(i) ==
  /\ run[i].step = "claim"
  /\ post' = [p \in Posts |->
                IF p \in run[i].due /\ Live(p) /\ post[p].published_at = "null"
                THEN [post[p] EXCEPT !.published_at = "cron"] ELSE post[p]]
  /\ run' = [run EXCEPT ![i].step = "announce"]
  /\ UNCHANGED <<session, announced, crashes>>

\* Mutant: the loop ends after the first post.
AnnounceFirst(i) ==
  /\ run[i].step = "announce"
  /\ \E p \in run[i].due : announced' = [announced EXCEPT ![i][p] = @ + 1]
  /\ run' = [run EXCEPT ![i] = Asleep]
  /\ UNCHANGED <<post, session, crashes>>

\* One notifyPost per post that was found, whatever the claim obtained.
Announce(i) ==
  /\ run[i].step = "announce"
  /\ announced' = [announced EXCEPT ![i] =
                      [p \in Posts |-> IF p \in run[i].due THEN @[p] + 1 ELSE @[p]]]
  /\ run' = [run EXCEPT ![i] = Asleep]
  /\ UNCHANGED <<post, session, crashes>>

\* A process dies in the middle of a run; its next run starts over.
Crash(i) ==
  /\ run[i] # Asleep /\ crashes < MaxCrashes
  /\ crashes' = crashes + 1
  /\ run' = [run EXCEPT ![i] = Asleep]
  /\ UNCHANGED <<post, session, announced>>

Cron(i) == FindDue(i) \/ Claim(i) \/ Announce(i)

Next ==
  \/ \E p \in Posts : TimePasses(p)
  \/ \E c \in Sessions, p \in Posts :
       \/ \E draft \in BOOLEAN, at \in Dates : Create(c, p, draft, at) \/ OpenUpdate(c, p, draft, at)
       \/ OpenPublish(c, p)
       \/ OpenRemove(c, p)
  \/ \E c \in Sessions : CommitUpdate(c) \/ CommitPublish(c) \/ CommitRemove(c) \/ Rollback(c)
  \/ \E i \in Instances : Cron(i) \/ Crash(i)

Spec == Init /\ [][Next]_vars

\* The cron fires every five minutes and its statements return.
FairSpec == Spec /\ \A i \in Instances : WF_vars(Cron(i))

-----------------------------------------------------------------------------
\* No process announces a post twice, whatever users do to the post between
\* the cron's statements, however often it is rescheduled, and whichever
\* process claimed it.  With a single process every post is announced once.
AnnouncedOncePerProcess == \A i \in Instances, p \in Posts : announced[i][p] <= 1

\* Two processes and the publish button never make the cron overwrite a
\* published_at that is already there ("Optimistic lock").
StampIsKept ==
  [][\A i \in Instances, p \in Posts :
       (run[i].step = "claim" /\ run'[i].step = "announce"
        /\ Live(p) /\ post[p].published_at # "null")
         => post'[p] = post[p]]_vars

\* A post that is due does not stay so: the cron publishes it, even after a
\* crash, unless somebody withdraws it.
DueIsPublished == \A p \in Posts : Due(p) ~> ~Due(p)

\* A due post the cron publishes is announced unless the process died.
PublishedIsAnnounced ==
  (crashes = 0 /\ \A i \in Instances : run[i] = Asleep) =>
    \A p \in Posts :
      (Live(p) /\ post[p].published_at = "cron") => \E i \in Instances : announced[i][p] >= 1

\* What ContentPosts checks of its states.
PostsCohere == TypeOK /\ AnnouncedOncePerProcess /\ PublishedIsAnnounced
==============================================================================
