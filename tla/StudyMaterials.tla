---------------------------- MODULE StudyMaterials ----------------------------
(***************************************************************************)
(* Study materials and the logo of a congregation, their files in the      *)
(* object storage, and the notification of what is published               *)
(* (study-materials/study-materials.service.ts, settings.service.ts,       *)
(* storage/storage.service.ts).                                            *)
(*                                                                         *)
(* Rows are written in the transaction of the request, files are not: a    *)
(* request that replaces a file deletes the old one, uploads the new one   *)
(* and then writes its address, and whatever fails in between leaves the   *)
(* storage and the rows apart.  Deleting a file never fails a request.     *)
(* The cron of every process pushes what is due and then marks it.         *)
(* Texts, tags and the groups a material is for are left out.              *)
(***************************************************************************)
EXTENDS Naturals, FiniteSets

CONSTANTS
  Materials,  \* material ids: each is used once
  Logo,       \* the congregation's logo: a row that is always there
  Objects,    \* addresses of files: each is used once
  Sessions,   \* connections of the users
  Processes,  \* server processes, each with its cron
  MaxDay,     \* bound on the clock
  MaxFaults   \* bound on failing calls and crashes

VARIABLES
  file,      \* [Materials and Logo -> file_url or logo_url, or NoFile]
  dates,     \* [Materials -> [publish, expires], or Unmade, or Gone]
  notified,  \* materials whose notified_at is set
  stored,    \* the files in the storage
  opens,     \* [Materials -> open records of one reader]
  now,       \* the day
  request,   \* [Sessions -> open request]
  sweep,     \* [Processes -> cron run]
  faults,    \* faults so far
  pushed,    \* history: materials a push was sent for
  torn,      \* history: rows whose request failed after it had deleted a file
  wasted,    \* history: files no request will delete: their own request failed,
             \* or the deletion did, or the row was changed by another one
  raced      \* history: materials the reader opened twice at the same time

materialVars == <<file, dates, notified, stored, opens, now, request, sweep,
                  faults, pushed, torn, wasted, raced>>

\* A row not made yet, and one removed: no row is published on day 0.
Unmade == [publish |-> 0, expires |-> 0]
Gone   == [publish |-> 0, expires |-> 1]
NoFile == "no file"
Idle   == [op |-> "idle"]

Never == MaxDay + 1  \* no expires_at: beyond the bound of the clock
Dates == [publish : 1..MaxDay, expires : 1..Never]
Owners == Materials \cup {Logo}

Live == {m \in Materials : dates[m] \notin {Unmade, Gone}}
Due  == {m \in Live : dates[m].publish <= now}

\* Rows, files, requests and cron runs are well formed.
TypeOK ==
  /\ file \in [Owners -> Objects \cup {NoFile}]
  /\ dates \in [Materials -> Dates \cup {Unmade, Gone}]
  /\ notified \subseteq Materials
  /\ stored \subseteq Objects
  /\ opens \in [Materials -> Nat]
  /\ now \in 0..MaxDay
  /\ request \in [Sessions -> {Idle}
       \cup [op : {"create"}, dates : Dates, file : Objects \cup {NoFile}]
       \cup [op : {"clear", "upload", "write", "edit"}, row : Owners, old : Objects \cup {NoFile},
             new : Objects \cup {NoFile}, dates : Dates \cup {Unmade}]
       \cup [op : {"discard", "remove"}, row : Materials, old : Objects \cup {NoFile}]
       \cup [op : {"open"}, row : Materials]]
  /\ sweep \in [Processes -> [found : SUBSET Materials, sent : SUBSET Materials]]
  /\ faults \in 0..MaxFaults
  /\ pushed \subseteq Materials /\ raced \subseteq Materials /\ torn \subseteq Owners
  /\ wasted \subseteq Objects

Resting == [found |-> {}, sent |-> {}]

Init ==
  /\ file = [m \in Owners |-> NoFile]
  /\ dates = [m \in Materials |-> Unmade]
  /\ notified = {}
  /\ stored = {}
  /\ opens = [m \in Materials |-> 0]
  /\ now = 0
  /\ request = [c \in Sessions |-> Idle]
  /\ sweep = [p \in Processes |-> Resting]
  /\ faults = 0
  /\ pushed = {} /\ torn = {} /\ wasted = {} /\ raced = {}

history == <<pushed, torn, wasted, raced>>
cron    == <<notified, sweep, pushed>>
rows    == <<file, dates, opens>>

Goto(c, next) == request' = [request EXCEPT ![c] = next]

\* Files that are or were handed out.
Used ==
  stored \cup wasted \cup {file[m] : m \in Owners}
    \cup {request[c].old : c \in {d \in Sessions : request[d].op \in {"clear", "upload", "write", "edit", "discard", "remove"}}}

-----------------------------------------------------------------------------
(* Requests.                                                                *)

\* create, with the file uploaded first when there is one.
OpenCreate(c, d) ==
  /\ request[c] = Idle
  /\ \/ Goto(c, [op |-> "create", dates |-> d, file |-> NoFile]) /\ UNCHANGED stored
     \/ \E o \in Objects \ Used :
          /\ Goto(c, [op |-> "create", dates |-> d, file |-> o])
          /\ stored' = stored \cup {o}
  /\ UNCHANGED <<rows, cron, now, faults, torn, wasted, raced>>

CommitCreate(c, m) ==
  /\ request[c].op = "create" /\ dates[m] = Unmade
  /\ dates' = [dates EXCEPT ![m] = request[c].dates]
  /\ file' = [file EXCEPT ![m] = request[c].file]
  /\ Goto(c, Idle)
  /\ UNCHANGED <<cron, stored, opens, now, faults, torn, wasted, raced>>

\* update without a file.
OpenEdit(c, m, d) ==
  /\ request[c] = Idle /\ m \in Live
  /\ Goto(c, [op |-> "edit", row |-> m, old |-> file[m], new |-> NoFile, dates |-> d])
  /\ UNCHANGED <<rows, cron, stored, now, faults, torn, wasted, raced>>

\* update of a material with a file, and uploadLogo.
OpenReplace(c, m) ==
  /\ request[c] = Idle /\ m \in Live \cup {Logo}
  /\ Goto(c, [op |-> "clear", row |-> m, old |-> file[m], new |-> NoFile, dates |-> Unmade])
  /\ UNCHANGED <<rows, cron, stored, now, faults, torn, wasted, raced>>

\* remove of a material.
OpenRemove(c, m) ==
  /\ request[c] = Idle /\ m \in Live
  /\ Goto(c, [op |-> "discard", row |-> m, old |-> file[m]])
  /\ UNCHANGED <<rows, cron, stored, now, faults, torn, wasted, raced>>

\* deleteByUrl swallows its failure.
DeleteFile(c) ==
  /\ request[c].op \in {"clear", "discard"}
  /\ Goto(c, [request[c] EXCEPT !.op = IF @ = "clear" THEN "upload" ELSE "remove"])
  /\ \/ stored' = stored \ {request[c].old} /\ UNCHANGED <<faults, wasted>>
     \/ /\ faults < MaxFaults /\ faults' = faults + 1
        /\ wasted' = wasted \cup (stored \cap {request[c].old})
        /\ UNCHANGED stored
  /\ UNCHANGED <<rows, cron, now, torn, raced>>

Upload(c, o) ==
  /\ request[c].op = "upload" /\ o \notin Used
  /\ Goto(c, [request[c] EXCEPT !.op = "write", !.new = o])
  /\ stored' = stored \cup {o}
  /\ UNCHANGED <<rows, cron, now, faults, torn, wasted, raced>>

\* The file a row had, when it is not the one the request has deleted.
Replaced(c) == {file[request[c].row]} \ {request[c].old, NoFile}

CommitReplace(c) ==
  /\ request[c].op = "write" /\ request[c].row \in Live \cup {Logo}
  /\ file' = [file EXCEPT ![request[c].row] = request[c].new]
  /\ wasted' = wasted \cup Replaced(c)
  /\ Goto(c, Idle)
  /\ UNCHANGED <<dates, opens, cron, stored, now, faults, torn, raced>>

CommitEdit(c) ==
  /\ request[c].op = "edit" /\ request[c].row \in Live
  /\ dates' = [dates EXCEPT ![request[c].row] = request[c].dates]
  /\ Goto(c, Idle)
  /\ UNCHANGED <<file, opens, cron, stored, now, faults, torn, wasted, raced>>

CommitRemove(c) ==
  /\ request[c].op = "remove" /\ request[c].row \in Live
  /\ dates' = [dates EXCEPT ![request[c].row] = Gone]
  /\ file' = [file EXCEPT ![request[c].row] = NoFile]
  /\ opens' = [opens EXCEPT ![request[c].row] = 0]
  /\ wasted' = wasted \cup Replaced(c)
  /\ Goto(c, Idle)
  /\ UNCHANGED <<cron, stored, now, faults, torn, raced>>

\* recordOpen, when the reader has not opened the material yet.
OpenRecord(c, m) ==
  /\ request[c] = Idle /\ m \in Live /\ opens[m] = 0
  /\ Goto(c, [op |-> "open", row |-> m])
  /\ raced' = IF \E d \in Sessions : request[d] = [op |-> "open", row |-> m]
              THEN raced \cup {m} ELSE raced
  /\ UNCHANGED <<rows, cron, stored, now, faults, torn, wasted>>

CommitRecord(c) ==
  /\ request[c].op = "open" /\ request[c].row \in Live
  /\ opens' = [opens EXCEPT ![request[c].row] = @ + 1]
  /\ Goto(c, Idle)
  /\ UNCHANGED <<file, dates, cron, stored, now, faults, torn, wasted, raced>>

\* A call fails, the commit fails, or a row it needs is gone.
Rollback(c) ==
  LET q == request[c]
      doomed == q.op \in {"upload", "write", "edit", "remove", "open"} /\ q.row \notin Live \cup {Logo}
  IN  /\ q # Idle
      /\ \/ doomed /\ UNCHANGED faults
         \/ faults < MaxFaults /\ faults' = faults + 1
      /\ Goto(c, Idle)
      /\ torn' = IF q.op \in {"upload", "write", "remove"} THEN torn \cup {q.row} ELSE torn
      /\ wasted' = wasted \cup ((CASE q.op = "create" -> {q.file}
                                   [] q.op = "write"  -> {q.new}
                                   [] OTHER           -> {}) \ {NoFile})
      /\ UNCHANGED <<rows, cron, stored, now, raced>>

-----------------------------------------------------------------------------
(* publishPending                                                           *)

FindPending(p) ==
  /\ sweep[p] = Resting /\ Due \ notified # {}
  /\ sweep' = [sweep EXCEPT ![p].found = Due \ notified]
  /\ UNCHANGED <<rows, notified, stored, now, request, faults, history>>

\* Mutant: the mark is set before the push is sent.
PushMarked(p, m) ==
  /\ m \in sweep[p].found
  /\ notified' = notified \cup ({m} \cap Live)
  /\ sweep' = [sweep EXCEPT ![p] = [found |-> @.found \ {m}, sent |-> @.sent \cup {m}]]
  /\ UNCHANGED <<rows, stored, now, request, faults, history>>

\* The provider answers, even with a refusal.
Push(p, m) ==
  /\ m \in sweep[p].found /\ sweep[p].sent = {}
  /\ pushed' = pushed \cup {m}
  /\ sweep' = [sweep EXCEPT ![p] = [found |-> @.found \ {m}, sent |-> {m}]]
  /\ UNCHANGED <<rows, notified, stored, now, request, faults, torn, wasted, raced>>

\* A row that is gone fails, and the failure is caught.
Mark(p, m) ==
  /\ m \in sweep[p].sent
  /\ notified' = notified \cup ({m} \cap Live)
  /\ sweep' = [sweep EXCEPT ![p].sent = {}]
  /\ UNCHANGED <<rows, stored, now, request, faults, history>>

\* The push or the mark fails, and the run goes on with the next one.
Skip(p, m) ==
  /\ faults < MaxFaults /\ faults' = faults + 1
  /\ m \in sweep[p].found \cup sweep[p].sent
  /\ sweep' = [sweep EXCEPT ![p] = [found |-> @.found \ {m}, sent |-> {}]]
  /\ UNCHANGED <<rows, notified, stored, now, request, history>>

Tick ==
  /\ now < MaxDay
  /\ now' = now + 1
  /\ UNCHANGED <<rows, cron, stored, request, faults, torn, wasted, raced>>

-----------------------------------------------------------------------------
Next ==
  \/ \E c \in Sessions :
       \/ \E d \in Dates : OpenCreate(c, d)
       \/ \E m \in Materials : CommitCreate(c, m)
       \/ \E m \in Materials, d \in Dates : OpenEdit(c, m, d)
       \/ \E m \in Owners : OpenReplace(c, m)
       \/ \E m \in Materials : OpenRemove(c, m)
       \/ DeleteFile(c)
       \/ \E o \in Objects : Upload(c, o)
       \/ CommitReplace(c)
       \/ CommitEdit(c)
       \/ CommitRemove(c)
       \/ \E m \in Materials : OpenRecord(c, m)
       \/ CommitRecord(c)
       \/ Rollback(c)
  \/ \E p \in Processes :
       \/ FindPending(p)
       \/ \E m \in Materials : Push(p, m) \/ Mark(p, m) \/ Skip(p, m)
  \/ Tick

Spec == Init /\ [][Next]_materialVars

-----------------------------------------------------------------------------
(* What the list shows.                                                     *)

\* computeStatus
Status(m) ==
  CASE dates[m].publish > now  -> "scheduled"
    [] dates[m].publish <= now /\ dates[m].expires <= now -> "expired"
    [] OTHER -> "published"

\* findAll with a status.
Listed(status) ==
  {m \in Live : CASE status = "scheduled" -> dates[m].publish > now
                  [] status = "published" -> dates[m].publish <= now /\ dates[m].expires > now
                  [] status = "expired"   -> dates[m].expires <= now}

-----------------------------------------------------------------------------
(* Properties.                                                              *)

Deleting(m) == \E c \in Sessions : request[c].op \in {"upload", "write", "remove"} /\ request[c].row = m
Held(o) ==
  \E c \in Sessions : \/ request[c].op = "create" /\ request[c].file = o
                      \/ request[c].op = "write" /\ request[c].new = o

\* The file of a row is in the storage unless a request is replacing it or
\* failed after deleting it; and every file in the storage belongs to a row or
\* to an open request, unless a failure or two requests on one row left it.
FilesMatchRows ==
  /\ \A m \in Owners : file[m] \in stored \cup {NoFile} \/ m \in torn \/ Deleting(m)
  /\ \A o \in stored \ wasted : Held(o) \/ \E m \in Owners : file[m] = o

\* A reader is counted once unless two of the requests ran at the same time.
OpenedOnce == \A m \in Materials \ raced : opens[m] <= 1

\* What is marked was pushed, by whichever process.
NotifiedIsPushed == notified \subseteq pushed

\* The list filters materials by the status it shows, but for those that
\* expire before they are published, which it lists twice.
StatusIsListed ==
  \A m \in Live : dates[m].publish <= dates[m].expires =>
    \A status \in {"scheduled", "published", "expired"} : m \in Listed(status) <=> status = Status(m)

\* What StudyMaterials checks of its states.
MaterialsCohere ==
  TypeOK /\ FilesMatchRows /\ OpenedOnce /\ NotifiedIsPushed /\ StatusIsListed
==============================================================================
