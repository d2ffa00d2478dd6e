# Formal verification of the Orbien API

TLA+ modules, model-checking configurations and machine-checked proofs for the
Orbien API, the multi-tenant church-management backend under `src/`
(NestJS, PostgreSQL through Prisma).  Every module is translated from the
source; `PROJECT.json` gives, for each definition, the lines it stands for.

Contents: [the system](#the-system), [what makes it hard](#what-makes-it-hard),
[modules](#modules), [runs](#runs), [bounds](#bounds), [fairness](#fairness),
[proofs](#proofs), [what the code does otherwise](#what-the-code-does-otherwise),
[not modelled](#not-modelled), [running](#running).

## The system

The server is one NestJS process, or several: the database is the only thing
they share.  State changes in four ways: an HTTP request of a user, a public HTTP
request, a cron job, or a background worker that a request started with
`setImmediate`.

**Requests of users.**  `TenantContextInterceptor` opens one interactive transaction per
authenticated request (`prisma.withTx`, READ COMMITTED, 30 s limit, 10 s to
obtain a connection), stores it in an `AsyncLocalStorage`, and commits when the
handler resolves or rolls back when it rejects; the answer is sent after the commit.
`prisma.client` and `prisma.runInTx` inside the handler are that same
transaction.  No handler takes a lock before it decides, and none asks for a
stronger isolation level, so what a handler has read may have changed when it
writes; the writes go by primary key.

**Public routes** (login, registration by QR code, public PIX forms, the provider's webhook) have
no such transaction: each statement commits when it runs, except those inside
a `runInTx`, which commit together.

**Cron jobs and workers** use `prisma.system`, a client outside the tenant
context that commits each statement on its own.  A worker is started while the
transaction of its request is still open.

| Component (under `src/src/`) | State it keeps | Operations | Interacts with | What makes it correct |
|---|---|---|---|---|
| Financial transactions and exports (`financial/transactions.service.ts`, `financial/export/`) | ledger rows with a status, export jobs, files in storage | create, update, updateStatus, remove; CSV/OFX export in the request; PDF/ZIP/SPED export by a worker; download | categories, cost centres, storage | a confirmed row is in a file that was built and no longer changes; a job ends and, when done, has its file |
| Recurring rules (`financial/recurring-rules/`) | rules and the rows linked to them | create (fixed or installments), deactivate, nightly cron, edit/detach/delete a row or the future | ledger rows | no month missed or made twice; a stopped rule or a deleted future stays silent |
| PIX payments (`financial/pix.service.ts`) | payments; customers and charges at the provider | dynamic charge, manual and public forms, webhook | payment provider, ledger | what can be paid is known; what was paid is booked, and as often as it was delivered at most |
| Categories and reports (`categories`, `dashboard`, `dre`, `forecast`) | categories | create, update, remove; sums | ledger | the reports put a row on the same side |
| Schedules and swaps (`volunteers/schedules.service.ts`, `swap-requests.service.ts`) | schedule, slots, assignments, check-ins, swap requests | draft, suggest, publish, confirm/decline, check in, ask/accept/reject/cancel a swap, reminder cron | profiles, ministries, notifications | the line-up is fixed when published, nobody sits twice, every handover has a request |
| Ministry tree (`volunteers/ministries.service.ts`) | ministries with a parent | create, update, remove, findAll | schedules, members | a tree with one root that shows every ministry |
| Ministry teams (`volunteer-ministries.service.ts`, `volunteer-profiles.service.ts`) | profiles, places in ministries | assign, update, remove, reclassification of the person | persons, ministries | one primary leader, who is a leader and a member |
| Content posts (`content/posts.service.ts`, `content/scheduler.service.ts`) | posts | create, update, publish, remove, uploadMedia, cron every five minutes | notifications, storage | a due post is published once and announced |
| Notifications and segments (`content/notifications.service.ts`, `segments.service.ts`) | segments, dispatches | send to segments, metrics cron | push service | a push reaches those its segments mean |
| Celebrations (`celebrations/celebration*.ts`) | templates, instances | create, update, nightly generation, changes by hand | | one instance per date, on the dates of the rhythm |
| Service orders (`service-order*.ts`, `setlist*.ts`) | orders, items, setlists, reminders | publish, finalize, numbers, reorder; notices to volunteers, reminders to hosts | celebrations, notifications | a finalized order stays so; numbers tell places apart |
| Small groups (`small-groups/`) | groups, members, types, meetings, attendance | membership, leader, types, attendance, materials | persons | the leader is a member with the role of leader; lists add up |
| Persons, visits, classification (`persons/`) | persons, visits, history of classifications | register, edit, visit, reclassify | small groups, visitors | the history is a chain; three visits are noticed |
| Person import (`persons/import/`) | import jobs, persons, consents | import in the request or by a worker | storage, persons | as the export jobs; the report is true; no person twice |
| Visitor registration (`visitor/`) | QR codes, persons, visits | toggle, scan and register | persons | one person per phone, one consent per visit |
| Study materials, logo, storage (`study-materials/`, `settings/`, `storage/`) | materials, openings, files | upload, replace, remove, open, notify cron | object storage, notifications | a row refers to a stored file, and no file is left over |
| Authentication (`auth/`) | refresh tokens, reset links, password | login, refresh with rotation, logout, reset | mail | one working token per session; a reset ends all sessions |
| Waitlist, mail, audit log | entries, log | append | | independent rows |

## What makes it hard

`PROJECT.json` lists the hazards of the code line by line.  They fall in six
groups:

1. **Check, then write by id.**  Most handlers read a row, refuse on its state
   and write later; another request commits in between (edit against export,
   drafting against publish, accept against cancel, two moves of ministries, two
   leaders of one group, two refreshes of one token).
2. **Work outside the request's transaction.**  A worker started before the
   commit, a worker whose statements commit one by one, a cron whose read, claim
   and notification are separate, a notice that reads in a transaction which may be
   over, a process that dies between them.
3. **Other systems**: a payment provider that repeats its events, files that no
   transaction rolls back, a push that does not tell that it was refused.
4. **Several processes run the same cron.**
5. **Long protocols**: answer, confirm, swap, check in and publish in any
   order; detach, pay, move and delete the rows of a rule in any order.
6. **Dates and boundaries**: the 31st of a month, the last row of a rule, the
   last installment, the row at which an import becomes a job.

## Modules

| Module | What it models | Used by |
|---|---|---|
| `ExportJob` | what a client is promised about a background job and its result (abstract) | implemented by `FinancialLedger` and `PersonImport` |
| `Payment` | what the treasurer is promised about a charge (abstract, with liveness) | implemented by `PixPayments` |
| `FinancialLedger` | ledger rows, edits, exports, job workers | |
| `RecurringRules` | one rule, its rows, its requests, the nightly cron | |
| `PixPayments` | charges, the provider, the webhook | |
| `Categories` | categories, the rows booked under them, what each report sums | |
| `VolunteerRoster` | one schedule: slots, assignments, answers, check-in, swaps | |
| `MinistryTree` | creation, moves with the walk upward, removal, `findAll` | |
| `MinistryTeams` | profiles, places, the primary leader with its row locks | |
| `ContentPosts` | posts, the publish button, the cron in several processes | |
| `Notifications` | segments, tag filters and the devices they reach, metrics | |
| `Celebrations` | the dates of each rhythm, the generation, changes by hand | |
| `ServiceOrders` | publish, finalize, the notice, the reminders | |
| `OrderItems` | numbers of items, reorder with row locks and deadlock, setlists | |
| `SmallGroups`, `GroupMeetings` | groups, leaders, members, types; attendance and materials | |
| `Persons` | persons, visits, classification and its history | |
| `PersonImport` | both ways of an import, statement by statement | |
| `VisitorRegistration` | codes, scans, the public form | |
| `StudyMaterials` | rows, files and their order of writing, openings, the cron | |
| `Logins` | login, rotation, logout, reset | |
| `MC...` | constants, calendars, symmetry sets and compositions for TLC | |
| `ContentPostsProofs`, `FinancialLedgerProofs`, `PixPaymentsProofs`, `RecurringRulesProofs` | theorems about the module they are named after | |
| `VolunteersProofs` | theorems about `VolunteerRoster` and `MinistryTree`, composed in `MCVolunteers` | |
| `PeopleProofs`, `WorshipProofs`, `ImportsProofs` | theorems about the components of `MCPeople`, `MCWorship` and `MCImports` | |

### Conventions shared by all modules

* **A handler is two steps.**  `Open...` stands for everything up to the last
  read and check of the handler, `Commit...` for its writes and the commit of
  its transaction; `Rollback` (or `Abort`) for a rejection, a timeout or a broken
  connection.  Reads see committed rows only, so other actions may happen
  between the two.  Where a handler's checks or writes are themselves several
  statements whose interleaving matters (the walk up the tree, the deletion of the
  future, the demotion of a leader, a reorder, a public route, every statement of
  a worker or cron, every call of another system) each statement is a step.
* **Row locks** appear where an update can wait for one: `RecurringRules`,
  `MinistryTeams`, `OrderItems`, `ServiceOrders`.
* **A refused request changes nothing**, so it is not distinguished from a
  request never sent.  The checks that only refuse on other tables (category
  exists, person exists, deadline passed) are left out for the same reason:
  they can only remove behaviours.
* **Ids are used once**: an unmade row is an id not used yet, a deleted row
  is gone for good.  In `MinistryTree` an id whose row and requests are all gone
  may stand for a new one, which keeps the state space finite.
* **`prisma.update` and `delete` by id throw when the row is gone**, which
  disables the `Commit` action and leaves `Rollback`.  `updateMany` touches
  what is there.
* **History variables** (commented "history:") are written and never read by a
  guard.  Most of them say precisely which overlap of requests excuses a state the
  code does not exclude: the property then says that nothing else leads there.
* **Mutants**: an operator whose comment starts with "Mutant:" is a plausible bug,
  used only to see that a property can fail.  No action uses it.
* **`...Cohere`** at the end of a module is its type invariant together with the
  state invariants named in it, so that one name stands for what a module checks
  of its states.

### Finance

`FinancialLedger`: `row` is the committed ledger (status and a version that stands for the
contents).  A request `r` has a phase `pc[r]`, a kind `op[r]` and the rows it is
about, `scope[r]`.  Edits read in `OpenEdit` and write in `CommitUpdate`,
`CommitStatus` or `CommitRemove`.  `OpenFile`/`CommitFile` are the exports
that answer with the file (CSV, OFX): the rows are fetched, the file is built and the
rows are confirmed in the same transaction.  `OpenJob`/`CommitJob` enqueue a
PDF, ZIP (reports) or SPED (accounting) job: the worker is queued in
`OpenJob`, the job row is visible from `CommitJob` on, and the worker's
`MarkProcessing` may come before it.  The worker's statements are `MarkProcessing`,
`Fetch`, `Upload`, `Confirm` (accounting only) and `MarkDone`; inside its `try`, a
failing one leads to `MarkError`.  `snap[r]` is what `r` fetched, and so what its
file contains; `stored` the files that exist.  `Faults` selects what the environment does: `abort` (the request's
transaction rolls back), `cut` (the commit succeeded and the answer is lost),
`step` (a statement of a worker fails without effect), `lostAck` (it took effect
and the worker sees an error), `markError` (the statement that records the
error fails), `crash` (the process and all its workers die).

`RecurringRules`: dates are `32 * month + day` and `AddMonths` does what `setMonth` does, overflow
included.  `create` with installments inserts all rows; with `fixed`
the first one, and the cron (`FindDue`, `ReadRule`, `ReadLast`, `Write`) inserts
one per night.  `deleteTransaction` with `this_and_future` is two statements, so
`DeleteRows` is a step of its own and `Locked` the row locks it holds until
`CommitDeleteFuture`.

`PixPayments`: `createDynamic` is one step per call of the provider
(`FindCustomer`, `CreateCustomer`, `CreateCharge`, `FetchQr`), then `InsertRow`, which
includes the commit, and `Answer`, after which the charge can be paid.
`handleWebhook` is `Receive`, `Book` (row and ledger in one transaction) and `Ack`;
the provider holds an event in `inbox` until it was answered.  `Stage` maps a charge to
the stages of `Payment`.

`Categories`: amounts are one each, so a sum is a set of rows, and the reports
(`Revenue`, `MonthOf`, `History`, ...) are operators over the committed state.

### Volunteers

`VolunteerRoster`: one schedule with its slots, assignments (`holder`, `status`), `checkedIn`,
`notified` and `swap` requests.  Rows removed by `ON DELETE CASCADE` disappear
through `LiveSlot`, `LiveAsg` and `LiveSwap`.  `suggestAssignments` is modelled by what
its greedy loop can choose: any list of new assignments such that no slot
exceeds its requirement, nobody assigned at its start is taken, nobody is
taken twice, and no slot is left short while a candidate remains
(`IsGreedy`); the order of preference by past service is left out.  The
unique index on slot and volunteer is a guard of `CommitCreateAssignment`, as the database
enforces it at the write; `suggest` skips duplicates as `skipDuplicates` does.

`MinistryTree`: `parent` is the foreign key; removing a row sets it to null in the children.
`OpenMove` is `assertValidParent` up to its loop, each `Walk` is one round of that
loop, with a query that sees what has been committed meanwhile.  `Shown` is
what `findAll` returns: `byParent` hangs each row under its parent, and a ministry is in
the answer if it is in every set that contains the roots and, with a ministry, its
children (`Hanging`).  `raced` records which kinds of writes committed while a
request was open.

`MinistryTeams`: making a primary leader is the check, the demotion of the leaders
the request sees (whose rows stay locked) and the write of the place with the commit.

### Content and celebrations

`ContentPosts`: a post is draft or not, with a planned date (`never`, `later`, `reached`) and the
origin of its `published_at`.  A cron run is `FindDue`, `Claim` (the
`updateMany` with `published_at: null`) and `Announce`, in each of `Instances`.

`Notifications`: `SegmentFilters` builds the tag filters of a segment as `buildFilters`
does, the values of one criterion with OR between them (`OrGroup`) and the criteria one
after the other, and `BuildFilters` has one such list for each segment, with OR between them.
`Matches` is what the push service makes of a list, a run of filters between two ORs
that all hold, `Reached` the devices one of the lists matches, and `Meant` those the
criteria of a segment describe.

`Celebrations`: `TargetDates` is `computeTargetDates`; the generation reads the
template, the last instance and each date before it inserts.  `ServiceOrders`: a
publish starts a notice that nobody waits for and that uses the transaction of
the request.  `OrderItems`: `reorder` writes one row after the other, keeps what it
wrote locked, and the database aborts one of two that wait for one another.

### People

`Persons`: a request decides when it opens (three visits in 60 days make an attendee; a
member needs a date) and writes when it commits; `broken` watches the chain of
`classification_histories`.  `VisitorRegistration`: the scan is counted before and
outside the transaction that makes person, consent and visit.  `PersonImport`: a
short file is read inside the request's transaction, a long one by a worker whose
statements commit one by one; `Sees` says what one import sees of another, and
`Report` that a statement the database refused makes the transaction of the request refuse all
others, up to a commit that is a rollback nobody is told of.  `SmallGroups`: the leader
of a group is stored in the group and as a role of a membership.
`GroupMeetings`: attendance by lists, with `skipDuplicates`.  `StudyMaterials`: a
request deletes the old file, uploads the new one and then writes the row, and
`faults` may come after each.  `Logins`: `refresh` reads the token, and in a
transaction revokes it and issues the next; a token that was rotated and comes again
ends every session of the user.

## Runs

Passing runs explore every reachable state of their instance.

| Run | Instance | Properties | What it shows |
|---|---|---|---|
| `ledger_safety` | 2 rows, 3 requests, faults `step`, `lostAck`, `markError`, `crash` | `ConfirmedWasExported`, `DoneClosedItsRows`, `SettledStaysSettled` | In every interleaving of edits, exports and job workers, with failures anywhere in a worker: a confirmed row is in a file that was built before; a job that reads done confirmed its rows; once the edits that had read a row before its confirmation are over, it is frozen. |
| `ledger_job` | 2 rows, 2 requests, faults `abort`, `cut`, `step` | `Implements`, `ProcessingEnds` | The job rows and files refine `ExportJob`; a job that reached processing ends. |
| `roster_sequential` | 3 volunteers, 2 slots, 2 assignments, 2 swaps, 1 session, all 13 handlers | `RosterCoheres`, `LineUpFixedOncePublished`, `SuggestNeverDoubleBooks`, `AnsweredOnceByTheHolder` | What the checks of all handlers together guarantee when requests do not overlap, in every order of calls. |
| `roster_concurrent` | 3 volunteers, 1 slot, 2 assignments, 2 swaps, 2 sessions, the 8 handlers that race on assignments and swaps | `SeatsCohere`, `HandoverIsRecorded`, `ResolvedStaysResolved` | What still holds when requests overlap. |
| `tree` | 4 ministries, 2 sessions | `LostOnlyByRacingMoves`, `SecondRootByRemovalOrRace` | A ministry is lost in a cycle only by two moves that overlap; a second root appears only by the removal of a root or by a request that overlapped a write. |
| `posts` | 2 posts, 2 processes, 1 client, 1 crash | `PostsCohere`, `StampIsKept`, `DueIsPublished` | The conditional update protects `published_at`; no process announces twice; nothing due stays due. |
| `rules` | 3 rows, a 6-month calendar, starts on the 1st and the 31st, 1 session against the cron, 1 fault | `RulesCohere`, `FutureStaysDeleted`, `StoppedStaysSilent`, `CatchesUp` | The dates of a rule run on across failures; stopping and deleting stay effective; a monthly rule with a row left catches up. |
| `payments` | 2 charges, 2 requests, 2 webhook handlers, 1 fault | `PaymentsCohere`, `Implements` | Nobody can pay a charge without a row; confirmed and booked agree; a charge is booked at most once per event and unrefused repetition; no more customers than connections; charges refine `Payment`, liveness included. |
| `imports` | 2 imports of 4 spreadsheets (2 or 3 rows, limit 2), 1 fault; 2 items, 2 sessions, numbers up to 3 | `ImportsCohere`, `DuplicateOnlyByOverlap`, `Implements`; `ItemsCohere`, `ReorderEnds` | An import that ends reports what it stored; persons are doubled by overlapping imports only; the job refines `ExportJob`; numbers stay distinct under overlapping reorders; deadlocked reorders end. |
| `worship` | 3 instances, 2 runs, four months, hand-made instances; 1 service, 2 sessions; 2 segments; 3 tokens, 2 links, 2 tabs, 1 reset | `TargetsAreOccurrences`, `CelebrationsCohere`, `OrdersCohere`, `AudienceCoheres`, `LoginsCohere` | The dates are those of the rhythm and made once; a publish takes back a finalized order only by overlap; pushes reach whom they mean; one token per session, and resets end sessions. |
| `people` | 2 sessions; 3 persons or newcomers; 1 group, meeting, ministry, material; 2 categories, 1 row | `PersonsCohere`, `RegistrationsCohere`, `GroupsCohere`, `MeetingsCohere`, `TeamsCohere`, `MaterialsCohere`, `BooksCohere` | The registers stay consistent unless the overlaps that the history variables name have happened. |

The violation run `ledger_pending_v` shows that a statement of the code's own text
is not what the code does; see [below](#what-the-code-does-otherwise).

`imports`, `worship` and `people` run several components that share no variable and
no client.  A behaviour of all of them is an interleaving of a behaviour of each, and
none of the properties speaks of two of them, so the runs choose in their
initial state which one (`part`) moves: every behaviour of each is explored, and
their product, which would show nothing more, is not.  Parts may use the same
model values, since no variable holds members of both, which is why permuting a
set of them is a symmetry of the whole.  `MCVolunteers` composes the roster and the tree, and each of
its three runs gives handlers to one of them and leaves the other one at rest.

`CHECK_DEADLOCK FALSE` is set in every configuration: the clients may have no
request left to make and every id may be used, and the system then rests.

Each property of a passing run has a mutant in `PROJECT.json`, a plausible bug
of the code under which TLC finds that property violated.

The properties of `roster_sequential` say what one request at a time
guarantees.  With two sessions `LineUpFixedOncePublished`,
`SuggestNeverDoubleBooks`, `OnePendingSwap` and `AnsweredOnceByTheHolder` are all
false of the code: the check is made when the handler
opens and is not repeated by its write.  This is what `roster_concurrent`
complements: the unique index and the form of the writes keep
its properties in every interleaving.

## Bounds

* **Requests and sessions.**  The races of this code are between a check and a
  write, so two overlapping requests show them; the ledger has three, so that an
  edit, an export and a second export or job can overlap pairwise.
* **Rows, swaps, assignments, posts, charges, imports.**  Two of each, so that a step that
  touches the wrong one, or all of them, is visible.  Handlers touch one row,
  or a set chosen by a filter: two rows give the empty, partial and full sets.
  Three persons of a group, so that a leader, the next leader and a third member differ.
* **Ministries.**  Four: a move needs two, the shortest walk that passes a third
  ministry three, and a fourth makes room for a creation or removal beside it.
* **Calendars.**  `rules`: January to June of a common year: a month of 31, 28 and 30
  days, with starts on the first and on the 31st, so `setMonth` overflows.  The
  clock is mid-March when it jumps, so the cron must catch up over two nights.
  Moves go to the end of February.  Rules have 3 rows, and installments are 3.
  `worship`: the first four months of a common year; the cron runs on day 30,
  whose day next month does not exist, and a week later.
* **Spreadsheets** (`MCFiles`): a phone twice in one file and in two, rows without a
  phone, rows that are incomplete, invalid, or refused by the database, two files of two rows, at
  the limit, and two beyond it.
* **Segments** (`MCTags`, `MCCriteria`): two segments found by one dispatch, and three criteria of which one
  has none, one or two values, one none or two, one none or one: an OR stands inside a criterion that
  comes first, in the middle or alone, and between two segments.
* **Tokens, scans, visits, days** (`MaxScans`, `MaxAnswers`, `MaxVisits`, `MaxDay`, `MaxResets`, `MaxPlace`):
  as many as the rule they are about needs (three visits for a reclassification,
  two openings of one material, a reset between two refreshes, one number more than items).
* **`MaxCrashes`, `MaxFaults`**: one.  After a fault the cron, the worker or the
  provider starts over from committed state, so a second fault repeats the first.  The
  ledger has no bound on crashes or failing steps, and the proofs are for any number of them.
* **`Faults` of `ledger_job`**: without `lostAck`, as a lost acknowledgement makes
  a job that is done read error afterwards or stay where it was, which is why
  `Implements` assumes its absence; without `crash`, since nothing resumes a
  worker that died, and `ProcessingEnds` would fail by design.
* **Symmetry** is used only for ids that no definition orders or names, and in
  no run with a liveness property.

## Fairness

* `FinancialLedger!Fairness`: a worker's pending call resolves or rejects, and Node
  then runs its continuation, so a worker takes its next step; an open request
  commits or is rolled back, because its transaction is limited to 30 s.  No
  client has to send a request.
* `ContentPosts!FairSpec` and `RecurringRules!FairSpec`: the cron is scheduled by
  the framework every five minutes and every night, and its statements return or fail.
  Weak fairness of the cron as a whole is enough, since one of its steps
  stays enabled while there is work.  Requests and the passing of time are not fair, except
  that `DueIsPublished` and `CatchesUp` start from a date that has been reached.
* `PixPayments!FairSpec`: the server takes the next step of a webhook it received, and
  the provider delivers an event until it is answered (its documented behaviour,
  external); nobody has to pay.
* `OrderItems!FairSpec` is strong: PostgreSQL queues the writers that wait for a row,
  so a reorder that can go on again and again is not passed over for ever, and aborts one
  of a set that wait for one another.
* The other modules have safety properties only.

## Proofs

Eight modules of proofs, all checked by TLAPS from the constants' named assumptions, for
every number of rows, sessions, processes and faults.  Every invariant that a run
checks is a theorem, and so is every property of single steps.

| Module | Theorem | Statement |
|---|---|---|
| `FinancialLedgerProofs` | `Typing` | `Spec => []TypeOK` |
| | `ConfirmedImpliesExported` | `Spec => []ConfirmedWasExported` |
| | `DoneImpliesClosed` | `Spec => []DoneClosedItsRows` |
| | `SettledIsStable` | `Spec => SettledStaysSettled` |
| | `JobRefinement` | `"lostAck" \notin Faults` implies `Spec => Implements` |
| `PixPaymentsProofs` | `PaymentsStayCoherent` | `Spec => []PaymentsCohere` |
| | `PaymentsAdvance` | every step of `Spec` is a step of `Payment` or a stutter |
| `RecurringRulesProofs` | `RulesStayCoherent` | `Spec => []RulesCohere` |
| | `DeletedFutureStays` | `Spec => []FutureStaysDeleted` |
| | `StoppedRulesAreSilent` | `Spec => StoppedStaysSilent` |
| `VolunteersProofs` | `SeatsStayCoherent` | `Spec => []SeatsCohere` |
| | `HandoversAreRecorded` | `Spec => HandoverIsRecorded` |
| | `ResolvedRequestsStay` | `Spec => ResolvedStaysResolved` |
| | `SequentialRosterCoheres` | `Sequential` implies `Spec => []RosterCoheres` |
| | `LineUpStays` | `Sequential` implies `Spec => LineUpFixedOncePublished` |
| | `SuggestBooksOnce` | `Sequential` implies `Spec => SuggestNeverDoubleBooks` |
| | `HolderAnswersOnce` | `Sequential` implies `Spec => AnsweredOnceByTheHolder` |
| | `CyclesNeedRacingMoves` | `AllSpec => LostOnlyByRacingMoves` |
| | `SecondRootsNeedRemovalOrRace` | `AllSpec => SecondRootByRemovalOrRace` |
| `ContentPostsProofs` | `PostsStayCoherent` | `Spec => []PostsCohere` |
| | `StampsAreKept` | `Spec => StampIsKept` |
| `ImportsProofs` | `ImportJobRefinement` | `Spec => Implements` |
| | `DuplicatesComeFromOverlap` | `Spec => []DuplicateOnlyByOverlap` |
| | `ImportsStayCoherent` | `Spec => []ImportsCohere` |
| | `ItemsStayCoherent` | `AllSpec => []ItemsCohere` |
| `WorshipProofs` | `DatesAreOccurrences` | `AllSpec => []TargetsAreOccurrences` |
| | `CelebrationsStayCoherent` | `AllSpec => []CelebrationsCohere` |
| | `OrdersStayCoherent` | `AllSpec => []OrdersCohere` |
| | `AudiencesStayCoherent` | `AllSpec => []AudienceCoheres` |
| | `LoginsStayCoherent` | `AllSpec => []LoginsCohere` |
| `PeopleProofs` | `PersonsStayCoherent` | `AllSpec => []PersonsCohere` |
| | `RegistrationsStayCoherent` | `AllSpec => []RegistrationsCohere` |
| | `GroupsStayCoherent` | `AllSpec => []GroupsCohere` |
| | `MeetingsStayCoherent` | `AllSpec => []MeetingsCohere` |
| | `TeamsStayCoherent` | `AllSpec => []TeamsCohere` |
| | `MaterialsStayCoherent` | `AllSpec => []MaterialsCohere` |
| | `BooksStayCoherent` | `AllSpec => []BooksCohere` |

### Assumptions

Every assumption about a constant is declared, by name, in a module that a run
evaluates, but for `Sequential`, a hypothesis of four theorems.  They say no more than this:

* bounds are numbers, and what is counted is finite: `MaxFaultsAssumption`, `LimitsAssumption`,
  `BoundsAssumption`, `ResetsAssumption`, `PlacesAssumption` (there are numbers
  enough for the items), `PeopleAreFinite`, `ClientsAreFinite`, `ConnectionsAreFinite`, the finite
  values of a criterion in `CriteriaAssumption`, the finite set of ministries in `TreeConstants`;
* a mark for "nothing" or "removed" is not a value: `MarksApart`, `PhoneMarksApart`, `BookMarksApart`,
  `FileMarksApart`, `NoPhoneAssumption`, and `Top \notin Ministries` in `TreeConstants`;
* months follow one another in the calendars (`CalendarAssumption` of `RecurringRules`,
  `Celebrations` and `MCPeople`), and a calendar reaches as far as the rule's rows and the cron look
  (`HorizonAssumption` of `RecurringRules` and `Celebrations`);
* a choice the instance makes (handlers, faults, files, scopes, required volunteers) is a value
  of its kind: `HandlersAssumption`, `TreeHandlersAssumption`, `FaultsAssumption`, `FilesAssumption`, `ScopesAssumption`,
  `CandidatesAssumption`, `RequiredAssumption`, `RowsAssumption`;
* `Sequential`: there are no two sessions, as in `roster_sequential`.

### The inductive invariants

**Ledger.**  The inductive invariant is

    IInv == TypeOK /\ Shape /\ SnapRowsCreated /\ ClosedBeforeDone /\ ConfirmedWasExported

`ConfirmedWasExported` is not inductive alone: the step `Confirm` of a worker
confirms the rows of `snap[r]`, and nothing in the property says that the file of `r`
exists by then.  `Shape` supplies what the order of the statements establishes:
a request that is idle has no job, worker or file (`IdleIsClean`); only requests of
`JobOps` have jobs and workers (`JobsComeFromJobOps`); and a worker at a given statement
has a job in the matching status and, from `confirm` on, a stored file
(`WorkerKnowsJob`).  `SnapRowsCreated` says that fetched rows had been created, and
`ClosedBeforeDone` carries `DoneClosedItsRows` back to the moment before
`MarkDone`, when the rows were confirmed and could only be deleted since.  The lemmas
`StoredKept` and `RowsMoveOn` say that a file, once built, keeps its contents and that a
row that was deleted stays so; `ConfirmedStep` that a row becomes confirmed
only by an accounting export with a file.  `SettledIsStable` needs `TypeOK` only: every action
that writes a row is either guarded by a read that a settled row refuses, or is `Close`, which
leaves a confirmed row as it is (`CloseKeepsConfirmed`).  `JobRefinement` maps each action to a step of
`ExportJob` or to a stutter; a worker's `MarkProcessing` before the commit of its
request is a stutter.

**PIX.**  `PaymentsInv` adds to the state invariants what the requests and handlers in
progress know (`RequestsHold`, `EventsTell`) and two sums.  `BookedPerDelivery`
bounds the ledger, but a handler that has found its row is going to book whatever
happens: `BookingsCounted` therefore counts, for each charge, the ledger rows, the
handlers at work and the events that wait for a handler, against the events
made and the deliveries repeated.  `CustomersCounted` does the same with the
requests that are about to make a customer.

**Rules.**  `FutureStaysDeleted` needs that, when the future was deleted, the rule is
stopped and no generation is beyond reading it (`CutIsStopped`), and that an open
deletion hits exactly what was ahead in the table it has seen (`HitsWhatItSaw`).
`RulesInv` proves the dates: a generation is of a fixed rule that is due and writes at the
rule's own next date (`GenerationIsTheRules`), and a rule that has once come to a day every month
has, the 28th or earlier, stays on it (`DayIsKept`), so that its dates ascend by whole months
and neither skip nor repeat one.  That `setMonth` goes on from one date to a later one is proved of the
table of months; that installments are as many different dates as their number says, with a
bijection from their numbers.

**Roster.**  `RosterInv` is the shape of the rows and of what sessions remember, that
an accepting session's volunteer is not the requester, and the two invariants.  The
unique index carries `OneSeatPerSlot` through `suggest`, `create` and `accept`.
`SequentialInv` adds for one session that whatever the open handler checked still holds
(`ChecksStillHold`, one line per check of the code) and the rows' own coherence
(`RowsCohere`); under it each write keeps what its check was for.  With two sessions it is
`ChecksStillHold` that fails.

**Tree.**  A ministry is shown if and only if it is on no cycle, which is proved with sets
of ministries instead of induction: no set but the empty one contains the parent of
each of its members (`TreeHasNoCycle`).  `TreeInv` says of a walk that no other move crossed
that there is a set of ministries it has climbed, without the one that moves, closed under parents
but for the place it has reached (`TreeWalksHold`): when the walk ends at a root the set is
closed, and the new edge can close no cycle.  `TreeRootsHold` says the same of a request that
makes a root and has met no write; `TreeIdsAreFresh` that nobody refers to a
ministry being created.

**Posts.**  `AnnouncedOncePerProcess` needs that a process announces what it claimed and
that what it announced is stamped (`AnnouncementsTell`, `StampsAreAnnounced`): a post
that is rescheduled keeps its stamp, so no process finds it due again.

**Import.**  Every step of one import has one form (`Steps`: its record becomes `new`,
its rows `m`), which is stated once and shown of every action (`WorkSteps`); the
invariants and the refinement are then proved of the form.  `ImportInv` consists of
`JobsTell` (the job is where the worker is), `RowsInTurn`, `StoppedLeftNothing`,
`ActiveOverlap`, and `TakenUnseen`: the phone of the row about to be inserted
belongs to persons of overlapping imports only.  The last one is what makes
`DuplicateOnlyByOverlap` inductive, and it is preserved because an import that inserts
meanwhile is active, and so overlaps.  `CountsInv` is about the report: the counters add up to
the rows passed, `imported` is the number of consents, and persons without one are at most
the faults (`CountsOK`).

**Items.**  Numbers stay distinct through a reorder because its list has exactly the items that
are there as long as no other request was mixed with it (`ItemListsAreFull`).

**Celebrations.**  Unless two generations overlapped there is one (`GeneratesAlone`), and the date
it is about to make is free (`CreatesFree`): only a generation makes instances by the scheduler.
`DatesAreOccurrences` is about `TargetDates` for every calendar of the assumptions, every
weekday and every day of creation.

**Orders.**  The pushes of an instance are bounded by a sum that each run keeps
(`OrderPushesCounted`): until the instance is marked, each push is about to be marked or
failed; from then on only the runs that had found it, and wait, push it.  `OrderTakenBack`
counts the publishes under way in the same manner.

**Audiences.**  `PushInv` says that a dispatch reaches what its lists match; what a list
matches is shown criterion by criterion, from the last to the first (`GroupBefore`).  A device that is meant
holds one value of the criterion in front.  If that value is the last one, the filters it is grouped with
are those at the head of the rest, and otherwise it stands between two ORs; so if the rest matches, the
whole list does (`MeantMatched`).  The other way, with plain criteria (`Plain`) a group that
holds is one value of the only criterion, or one value of each (`MatchedMeant`, over the joined lists of
`ListsJoined`).

**Logins.**  Each token belongs to a session whose first token was made (`LoginTokensMade`),
a session without overlap has one refresh in progress (`LoginRotatedAlone`), and an issued link had
cleared the older ones (`LoginLinksCleared`).

**People.**  The invariants say what an open request has read, and that it still holds unless
another request committed since, which the history records: `PersonDecided`, `GroupDecided` and
`GroupFoundUnused`, `BookFound`, `TeamAsked` and `TeamDemoted` (the leaders of a ministry are demoted by
the request that makes the next one).  `BookRowsAgree` is why the three reports draw one line; `MeetingsUnheld`
makes the answers add up; `LookedInVain` and `ScansPayVisits` (a scan is counted before the visit
it pays for) those of a code.  For the files, each belongs to one row or to one request
(`MaterialFilesOnce`), and what a request has deleted is gone or counted as wasted (`MaterialDeleted`);
for the openings and the pushes, a request that counts a reader runs alone or is recorded
(`MaterialOpensInv`), and what a cron is about to mark was pushed (`MaterialPushesInv`).

**Only model-checked** is liveness, since fairness and ENABLED are out of the prover's
reach: `ProcessingEnds`, `DueIsPublished`, `CatchesUp`, `ReorderEnds`, and that a
paid charge is booked (the liveness half of `PixPayments`' `Implements`, whose steps are
`PaymentsAdvance`).

## What the code does otherwise

One run shows a statement of the repository that the code does not keep:
`export.controller.ts:176` tells the client who polls that the job is not concluded
*yet*; but `setImmediate` runs the worker while the transaction that inserts the job is
open, its first update finds no row and throws outside the `try`, and the job stays
pending for ever (`ledger_pending_v`).

The passing runs state what holds, and their exceptions what does not:

* **Ledger.**  Rows are confirmed before the job reads done, and a file export confirms
  before the answer arrives: when the last statement fails or the answer is
  lost, the rows are closed and no later export contains them.  Two overlapping exports hand out
  one row twice; an edit that was open when a row was confirmed still changes it.
* **Rules.**  The cron asks for monthly rules only, so weekly and yearly rules never
  generate; nor does a monthly one whose last row was detached.  A start on the 29th to
  31st runs over into the next month.
* **PIX.**  The webhook does not look at the status of the row: an event delivered
  twice, or a confirmation and a receipt, are booked twice.
* **Categories.**  Editing the type of a row alone makes the reports disagree; the
  dashboard's categories include future rows.
* **Roster.**  With two sessions a published line-up changes, two swaps of one seat are
  open, an answer is given twice.
* **Ministries.**  Two overlapping moves each pass their walk and close a cycle
  together; `findAll` then shows neither.
* **Teams.**  Two requests at once give a ministry two primary leaders; a reclassified
  leader keeps the place.
* **Posts.**  The condition of the claim protects the row; two processes both
  notify every post they had read.
* **Notifications.**  A dispatch whose segments are all gone goes to the whole congregation;
  criteria with several values in one of them reach devices that match a part.
* **Celebrations.**  Two generations at once make a date twice; for a monthly rhythm, the month after a
  day that month does not have is skipped.
* **Orders.**  A publish that read the order before another one published it takes a finalized
  celebration back; the notice reads in the request's transaction and, when that is over, reads nothing.
* **Import.**  After one row that the database refuses, a short import answers with its
  counters and keeps nothing.
* **Groups.**  A form saved with the leader it was opened with undoes a change of
  leader in the group and not in the memberships; groups are linked to inactive types.
* **Materials.**  A material that expires before it is published is listed under two
  statuses; a failed replacement leaves a row whose file is gone; what is marked notified
  was pushed, and may have been refused.
* **Logins.**  Two refreshes at once fork a session, and the second tab that comes
  with the rotated token ends all sessions; a login that overlaps a reset survives it.

## Not modelled

* Tenancy and row-level security: every module is about one congregation.
* Contents: amounts, texts, file formats, PDF layout, notification texts.
  `updateTransaction` with `this_and_future`, which rewrites contents only.
* Operations that touch nothing another one reads: `uploadMedia` of posts (as
  `StudyMaterials`), the songs of a setlist (as `OrderItems`), updates of names, dates and
  notes, the reminder cron of schedules, skills and availability of volunteers, parents of
  categories and of groups.
* Read-only parts: demographics, the hierarchy and absence alerts of groups, cash flow
  by week, projections.
* Households, the waitlist and mail, the audit log (independent rows), impersonation and the
  rate limit of reset links.
* Time zones: a date is a calendar day, as on a server that runs in UTC.
* More than one process in `RecurringRules`.

`PROJECT.json` lists every component with what of it is modelled.

## Running

    tlc -workers 2 -config ledger_safety.cfg MCFinancialLedger
    tlapm FinancialLedgerProofs.tla

The longest run takes about three minutes with two workers, the proofs of a module up to four.
