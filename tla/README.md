# DevTrack backend: TLA+ models and proofs

DevTrack is a FastAPI service for tracking job applications. Its requests run
concurrently in one event loop per process, in any number of processes; all
shared state is in PostgreSQL (through SQLAlchemy's async ORM) and Redis, and
Celery workers write to the same database. This directory models that shared
state and what concurrent requests, failures and time do to it.

Paths below are relative to the root of the repository's sources.

## 1. The system

| Component | State | Operations | Interacts with | Hard because of | Correct when |
| --- | --- | --- | --- | --- | --- |
| Stage machine (`app/core/state_machine.py`) | none | `validate_stage_transition` | pipeline | called with a stage that may be outdated | every recorded move is an edge of the matrix |
| Application pipeline (`app/services/application_service.py` and its repositories) | tables `applications`, `application_stage_history` | create, transition, PATCH, delete, timeline | companies (FK, ownership), dashboard cache | read, validate, write in separate statements; deletion beside writes; death between statements | ledger complete, legal, append-only; answers durable; tenants apart |
| Companies (`app/services/company_service.py`) | table `companies` | create, read, PATCH, delete (cascade), list | applications | cascade against a set that was loaded earlier; check-then-write of names | no application without its company; names that differ by case only from overlapping requests |
| Authentication (`app/services/auth_service.py`, `app/repositories/token_repository.py`, `app/core/security.py`) | tables `refresh_tokens`, `users` | register, login, refresh, logout | rate limiter | look-up and revocation are separate; answers get lost; tokens expire | rotation atomic, retired tokens worthless |
| Users (`app/services/user_service.py`) | table `users` | read, update profile | authentication | addresses are normalised in some places only; check-then-write | one account per address, found by every sign-in |
| Dashboard (`app/services/analytics_service.py`, `app/core/redis.py`) | one Redis key per tenant | summary (cache-aside), invalidate; funnel, breakdown, velocity, timeline | every mutation | the deletion of the key races with readers; Redis calls fail silently | outdated only for a bounded time and for known reasons |
| Reminder workers (`app/workers/tasks.py`) | table `notifications` | two periodic tasks | follow-ups, interviews | overlapping runs, check-then-insert, whole batches fail | one alert per occasion |
| Rate limiter (`app/core/rate_limiter.py`) | one Redis sorted set per client | check in front of login and register | Redis | clock read before the pipeline, boundary of the window, fail-open | never more than the maximum in a window |
| Interviews, follow-ups | one table each | CRUD behind an ownership check | applications (FK), cache, workers | deletion of the parent between check and INSERT; response schema stricter than the table | rows die with their application; what is refused is not stored, but for blank titles |
| Notes (`app/services/note_service.py`) | table `notes` | create, list, delete | any parent, no FK | parent deleted beside or after the check | a note belongs to its parent's owner as long as the parent exists |
| Notifications (`app/services/notification_service.py`) | table `notifications` | list, mark one or all | workers | mark-all beside inserts | read stays read |
| HTTP layer, schemas (`app/api`, `app/schemas`) | none | status codes, validation of requests and answers | all | errors of the database and of response schemas have no handler of their own | every answer is one that the endpoint declares, but for named reasons |
| Configuration, migrations | none | settings, DDL | all | | |

`PROJECT.json` lists the components with their status, every hazard at its
line, and the lines that each definition models.

### Execution model

* A request owns one session and one READ COMMITTED transaction
  (`app/db/session.py`); `get_db` rolls back on any exception. Each statement
  sees what was committed when it began.
* No `SELECT` takes a lock. Waiting comes from writes only: an `INSERT` with a
  foreign key locks its parent FOR KEY SHARE, an `UPDATE` of non-key columns
  its row FOR NO KEY UPDATE, a `DELETE` its row FOR UPDATE.
* A session is flushed explicitly (`autoflush=False`), so the order of the
  statements is the order of the repository calls: PATCH inserts the ledger row
  and then updates the application; POST `.../stage` assigns the attribute
  first, and the unit of work then updates the application before it inserts.
* Cache invalidation happens after the commit and outside of it.
* The relationships of `User` are `lazy="selectin"`: authenticating a request
  loads the user's rows into its session, and later SELECTs of the same rows do
  not refresh them. What a handler "reads" may be as old as that. The models let
  other transactions commit between any read and the write that follows it, so
  this adds no behaviour.
* The INSERT of a company also locks its user FOR KEY SHARE. Only an UPDATE of
  the address conflicts with it, and that transaction writes nothing else, so it
  can be delayed but closes no cycle; the lock is left out.

## 2. Modules

| Module | Models | Used by |
| --- | --- | --- |
| `StageMachine` | stages, transition matrix, `ValidTransition` | all modules about stages |
| `ApplicationPipeline` | requests on applications and the deletion of companies: one action per database interaction | everything below |
| `PipelineInvariants` | the inductive invariant `CoreInv` | proofs |
| `ApplicationTimeline` | the timeline endpoint; the refinement of `StageLedger` | `MCApplicationPipeline` |
| `AuditLedger` | abstract: what the ledger promises under concurrency | `ApplicationPipeline` (`Audit`) |
| `StageLedger` | abstract: the ledger as documented | `ApplicationTimeline` (`Ledger`) |
| `ApplicationPipelineProofs` | theorems about the pipeline: locks, deadlocks, ledger, both refinements | |
| `RefreshTokens`, `RefreshTokensProofs` | login, refresh, logout, expiry; theorems | |
| `DashboardCache`, `DashboardCacheProofs` | cache-aside summary, invalidation, expiry; theorems | |
| `ReminderWorker`, `ReminderWorkerProofs` | the periodic tasks beside edits of what they remind of; theorems | |
| `HttpApi` | statuses of exceptions, answers that endpoints declare | `UniqueNames`, `Attachments`, `Analytics` |
| `UniqueNames`, `UniqueNamesProofs` | addresses of accounts and names of companies against their unique indexes; theorems | `MCStandalone` |
| `RateLimiter`, `RateLimiterProofs` | the sliding-window log of one client; theorems | `MCStandalone` |
| `Attachments`, `AttachmentsProofs` | interviews, follow-ups and notes beside the deletion of what they hang on; theorems | `MCStandalone` |
| `Listing` | filters, order and pages of the list endpoints, read while rows change | `MCStandalone` |
| `Analytics` | the arithmetic of the reports and the schemas that check them | `MCAnalytics`, `MCStandalone` |
| `MCApplicationPipeline`, `MCDashboardCache`, `MCReminderWorker`, `MCAnalytics` | symmetry sets, titles and inputs for TLC | runs |
| `MCExchange` | the pipeline with two requests of any kind, or with exchanges between companies that are being deleted | runs |
| `MCStandalone` | the five components that share no state, for one run | `StandaloneProofs` |
| `StandaloneProofs` | theorems about these components side by side, and about pages and reports | |

Operators whose name ends in what was broken (`...Unvalidated`,
`...WithoutAudit`, `...Uncommitted`) and whose comment begins with "Mutant" are
variants of the definition that follows them, as a plausible bug would leave
it. No specification uses them; they show that each property can fail.

### ApplicationPipeline

State. `company`, `apps`, `history` are the committed rows of the three
tables. `pc`, `txn`, `sent`, `stamp` are the local state of the requests:
where the handler stands, its parameters and what it read, the statements its
open transaction has executed, and the `changed_at` it wrote. Uncommitted rows
are not in the tables; row locks are not a variable but follow from `sent`
(`CanShareApp`, `CanUpdateApp`, ...). `clock` gives every `utc_now()` a fresh
value.

| Action | Code |
| --- | --- |
| `CreateBegin`, `InsertApp`, `InsertHistory`, `CommitCreate`, `Reread` | `create_application` |
| `TransitionBegin`, `UpdateApp`, `InsertHistory`, `CommitChange`, `Reread` | `transition_stage` |
| `PatchBegin`, `PatchCheckCompany`, `InsertHistory`, `UpdateApp`, `CommitChange`, `Reread` | `update_application` naming a stage, a company or both |
| `DeleteAppBegin`, `DeleteApps`, `CommitDelete` | `delete_application` |
| `DeleteCompanyBegin`, `DeleteApps`, `DeleteCompanyRow`, `CommitDelete` | `delete_company` with the ORM cascade and ON DELETE CASCADE |
| `Deadlock` | PostgreSQL's detector aborts a transaction that waits, by way of others, for itself |
| `Fail` | the process or the connection dies |

A refusal (404 or 422 before any write) is a disjunct of the action that
detects it, a failing statement (parent gone, row gone) a disjunct of the
statement. A further INTERVIEW round changes no column, so it records a ledger
row without an UPDATE (`SetsStage`).

Deadlocks are possible: two companies are deleted while two PATCHes exchange
applications of theirs. Each deletion has deleted the applications it loaded, of
which one is now in the other company, and each cascade waits for the row that the
other deletion holds. `WaitsFor` says which request keeps a lock from another one,
`InCircle` which requests wait for themselves; `Deadlock` aborts one of them, whose
answer is 500.

Abstractions. A statement and the check of its foreign key take their locks together,
and so do the `DELETE`s of several rows. PostgreSQL takes them one by one, applications
in the order of their ids and before companies, so that a request which waits may
already have some of them. It can then be one more member of a circle of cascades
and be the one that is aborted; it answers 500, as after `Fail`. Interviews,
follow-ups and ledger rows die with their application and are not rows of
their own here (they are in `Attachments`). PATCH of other columns alone is left
out, and so is one way to be answered 500 after the commit: `application_service.py`
strips job titles and currencies (lines 39, 46, 152), and `ApplicationRead`, with the
`CompanyRead` nested in it, refuses what may be left of them or of the company's
name. `Attachments` and `UniqueNames` model this path for their rows; here it would
turn an answer 201 or 200 into a 500 and change no table. Deletion of a company acts on the applications that were associated with it
when the request loaded them: one that moves elsewhere before its row is locked
is deleted all the same (`Doomed`). Users are never deleted by the code.

### RefreshTokens

A row per token (`tokens`), what clients have been given (`held`), the clock,
and per request `pc`, `txn` and the row lock of its revocation (`locked`).
`RefreshBegin` is the decoding and the look-up without a lock; `RevokeToken` is
the UPDATE, which waits for the row and ignores the row count; `Issue` is the
INSERT, which can conflict with nothing as every token has a fresh `jti`, and
the commit; `Reply` hands the token over, so that `Fail` between the two loses
the answer only. `parent` and `late` are history: nothing in the code reads
them. Passwords and signatures are ideal: a client presents tokens it was given.

### DashboardCache

One tenant's key. The database is a version per table that the summary counts;
`Commit` may change any subset of the tables that the method touches
(`Mutations`), as a mutation may leave the counts alone. A reader gathers with
three queries, each with its own snapshot, and stores the result whatever has
happened to the key. `raced` is history: the readers that were gathering when
a writer invalidated. Hits change nothing and are no action.

### ReminderWorker

`reminders` holds follow-ups and interviews, `notifications` the rows that the
tasks insert, `run` what each worker has loaded (`batch`) and added to its
session (`pending`).

| Action | Code |
| --- | --- |
| `Scan` | the SELECT of due rows, for either task |
| `Check` | one iteration of the loop: the LIKE query, then `session.add` |
| `Commit`, `EndWithoutCommit` | the flush and commit of the batch; nothing to commit, or an INSERT that fails |
| `Fail` | a killed worker or the time limit; the message was acknowledged before |
| `Edit` | create, update, delete of a follow-up or an interview |

`Like` is a constant relation between titles: a title is a pattern, so `%` and
`_` in it match more than itself and a backslash may match less; the theorems
hold for every relation. Sessions do not flush before a query, so that two
reminders of one title in one batch do not suppress each other. A follow-up
title of more than 85 characters, or an interview title of more than 80, does not
fit the notification's column with its prefix (`TooLong`). The clock counts days;
times within a day are not distinguished. `seen`, `touched`, `tx` and an alert's
`reminder` are history.

### UniqueNames

`rows` holds accounts and companies by id; a key of the unique indexes is a scope
(a user, or `Accounts`), a name, and a spelling, of which one is the lower case.
Per request `pc`, `txn`, the row it has `locked` and the key it has entered into
the index (`entry`). How a request ended is in `pc`, by the name of the exception
that `HttpApi` gives a status.

| Action | Code |
| --- | --- |
| `Register`, `Login`, `UpdateProfile` | `AuthService.register`, `login`, `UserService.update_profile`: what is normalised, and what is looked up |
| `CreateCompany`, `GetCompany`, `UpdateCompany`, `DeleteCompany` | `CompanyService` with regard to names |
| `KeepKey`, `ChangeKey` | a PATCH without the name (an UPDATE of other columns, none at all, or only the `session.refresh`), and one with it |
| `Refresh` | `session.refresh` of a row that the unit of work found unchanged |
| `Check` | `email_exists`, `name_exists_for_user`; the latter raises when two companies match |
| `Lock`, `EnterIndex` | the flushed statement: the row, then the entry of the unique index; each waits |
| `Deadlock` | PostgreSQL ends a cycle of waiting transactions |
| `Commit`, `Fail` | the row as the statements leave it, and the response from it; a dead process |

A company's name of spaces passes `CompanyCreate`, is stripped to `Empty`, stored and
committed, and then refused by `CompanyRead` (`Response`): by this answer and by each
one about that company until it is renamed or deleted. Of a registration the response
is built before the commit, so that a full name of spaces (`nameless`) leaves nothing
behind. `rest` is what else a request brings: it may be something that the table refuses
(an explicit null, a NUL character), whose statement raises (`unstorable`).

`typed`, `by` and `before` are history. `by` is a set: a request that only
respells a name may give back one that another request has changed meanwhile, and
the row then owes its name to both.

### RateLimiter

One key of one client. `TakeTime` is `time.time()`, `Evaluate` the pipeline and
its result, `Bypass` the missing or failing Redis (the pipeline may have run).
`late` is history: requests whose pipeline ran `Grace` seconds after their stamp,
or found the entry of a later one. Only those can be admitted beyond the maximum.

### Attachments

`rows` holds applications and what hangs on them, `parent` the application or
interview that a row names.

| Action | Code |
| --- | --- |
| `CreateBegin`, `Insert`, `Commit` | `create_interview`, `create_follow_up`, `create_note`: the check of the parent, the INSERT with its foreign key, the commit and the response |
| `UpdateBegin`, `Write`, `Refresh`, `Commit` | `update_interview`, `update_follow_up` |
| `ReadBegin` | `get_interview`, `get_follow_up`, answered from the row as it is read |
| `ListBegin`, `Select` | the lists of an application or entity |
| `DeleteBegin`, `Write`, `Commit` | the deletions, that of an application with its cascade |
| `Fail` | a dead process |

A text is filled or blank: a text of spaces passes the request schema, is stripped by
the service, and is refused by the response schema. A PATCH writes only the fields that
the client sent (`exclude_unset`). One without a title (`unset`) keeps the stored one:
it writes other columns, finds none of them changed and only refreshes the row, or is
empty and answered from the row as it was read (`Answers`). Responses are built from
the row, so a blank title fails every later GET and PATCH of its row, too. A request may
bring something that the table refuses (`unstorable`). `committed` is history. An
interview and a follow-up differ in nothing that matters here; notes on companies
behave like notes on applications.

### Listing

`ReadItems` and `ReadCount` are the two statements of an answer; the client asks
for page after page while `Edit` inserts, changes and deletes rows. `steady`,
`exposed` and `pushed` are history: the rows nobody edited, and those before which
a row left or entered. Every row is assumed to serialise: a blank company name or job
title on a page fails the whole page with a 500, which is left out here (`Select` of
`Attachments` has it for its lists).

### Analytics

The reports as functions of a table of applications with their ledgers, with
percentages in hundredths. The table is any for which `AnalyticsConstants` holds: a
ledger begins with the creation and is in the order of time. An action per endpoint answers once; the state is the
table, chosen at the beginning, and the answer.

### MCStandalone

The five components above share no state: a step of one neither reads nor changes
what another keeps. The initial state chooses which one moves (`active`), so the
run explores each by itself, and a property about one holds of it exactly as in a
run of its own. Of `UniqueNames`, a behaviour has requests about accounts or
requests about companies (`OneScope`): they share neither rows nor keys.

## 3. Runs

| Run | Specification | Shows | Instance |
| --- | --- | --- | --- |
| `pipeline_concurrent` | `Spec` | ledger legal, complete, append-only; current stage recorded; tenants apart; answers recorded; locks sound | 2 users, 2 companies, 1 old application, 3 requests that all overlap |
| `pipeline_live` | `ExchangeSpec` | every request answered; deadlocks take cascades; implements `AuditLedger` | 1 user, 2 companies; 2 requests of any kind, one may die; or 2 deletions of companies and 2 requests that move their 2 applications, 3 of the 4 open at a time |
| `pipeline_serial` | `Spec`, `MaxOpen = 1` | implements `StageLedger` | 3 requests one after the other, all may die, every kind of move |
| `pipeline_terminal` | `Spec` | `RejectedIsTerminal` is violated | 2 requests |
| `tokens_rotation` | `FairSpec` | rotation atomic, retired tokens worthless, logout final, answers durable, everybody answered | 1 account, 1 old token, 3 requests, two may die; lifetime 2 |
| `tokens_single_use` | `Spec` | `SingleUse` is violated | 2 requests |
| `dashboard_coherence` | `FairSpec` | the only reasons for an outdated summary; it does not stay | 2 readers, 2 writers, one of each may fail; TTL 2 |
| `dashboard_invalidation` | `Spec` | `InvalidationTakesEffect` is violated | 2 readers, 1 writer, no failures |
| `reminders_delivery` | `FairSpec` | duplicates come from overlap only; alerts are about what is due; overdue follow-ups are alerted about | 2 reminders, 2 workers, 2 days, 1 edit or death |
| `reminders_today` | `Spec` | `SuppressedByToday` is violated | 2 follow-ups, 2 workers, 2 days |
| `standalone` | `StandaloneSpec` | names: twins come from overlap or typed addresses, undeclared answers have a cause, sign-ins find accounts, all are answered; limiter: admissions bounded, refusals justified; attachments: no strays, late refusals only on spoilt rows, undeclared answers explained; pages partition the steady rows; reports add up | names: 2 rows, 2 names in 3 spellings and the empty one, 2 requests, one may die; limiter: 3 requests, maximum 1, window 2; attachments: 2 users, 1 application, 3 requests, one may die; pages: 3 rows, 2 edits; reports: every portfolio of 3 applications from `MCAnalytics` |
| `analytics_funnel` | `Spec` | `FunnelServed` is violated | the same portfolios |

Bounds. Every hazard of the pipeline needs two writers of one row or a writer
and a deleter, and an observer at most: three requests. Two users are needed
for tenant scoping, two companies for moves. Two stages (INTERVIEW, which
allows further rounds, and REJECTED) give every combination of change, no
change and refusal; the serial run uses moves from both ends of the matrix. In
`pipeline_concurrent` no request dies (`Fallible = {}`), to keep three
overlapping ones within reach; the other runs add deaths. Three token requests
give two refreshes of one token and a logout beside them, or a chain of two
rotations. A deadlock takes two deletions
and two moves, more than any two requests of any kind; `MCExchange` therefore explores
them apart: each request is of one sort, nobody asks for what another one has asked
for, and both companies have an application at first. A rotation of a token that
`Lifetime` lets expire midway needs two ticks. Two dashboard readers are needed for one to store while the other hits,
two writers for two invalidations of one reading. Two workers give every overlap
of two runs and a third run after them; two reminders give a batch with one title
that does not fit; two days let a reminder become due and an interview pass.
`Inputs` holds one row of each sort that matters. Edits and deaths share one bound
(`MaxEvents = 1`): an edit and a death in one behaviour are not checked, only
covered by the proofs.

Two requests on names suffice for both to pass the check, and with rows that are
twins from before for a cycle of waits; the third spelling is what lets a
respelling give back a name that a renaming has changed in between. The first of
them may leave a company without a name, and the second then reads or changes it. A maximum of
1 in a window of 2 makes three requests enough for an admission, a refusal and
the edge of the window; larger limits are covered by the proof (an earlier form of
`AdmissionBound` that holds on this instance failed in the proof and then on four
requests with a maximum of 2: a bypassed pipeline, too, removes entries). Of three
requests on attachments one deletes, one creates and one observes, or one creates a
row, the next empties its title and the last one reads it or changes another column; interviews
alone stand for the kinds with a foreign key. Pages of one row make every boundary
a page boundary.

Requests are interchangeable, so the safety runs use symmetry; the liveness
runs do not. `Quiet` (in `MCExchange`, `NothingOpen`) stutters when every request has been answered, so that
TLC's deadlock check stays on and finds statements that wait for ever.

Fairness. `WF` of `Proceed(r)` per request: the event loop resumes a coroutine
whose awaited statement is done, PostgreSQL grants a free lock, and its detector
ends a circle of waits (`Deadlock`). Nothing
makes clients send, processes die or, in `RefreshTokens`, the clock move. In
`DashboardCache` a writer that has committed goes on to the cache, a reader that
has sent a query goes on, and Redis counts the lifetime down. In `ReminderWorker`
Beat enqueues each task again and again and some worker takes it (`SF`, as all
workers may be busy in between), and a run that does not die goes on (`WF`);
deaths are bounded by `MaxEvents`, since runs that always die alert about nothing.
Clients and the calendar need not move. In `UniqueNames`, `WF` of `Proceed(r)`,
as in the pipeline. `RateLimiter`, `Attachments`, `Listing` and `Analytics` have
safety properties only.

### What the violations show

* `RejectedIsTerminal`: two transitions read INTERVIEW; one commits REJECTED,
  the other then OFFER. `app/core/state_machine.py:38` calls REJECTED a terminal
  state. The ledger stays legal edge by edge (`EdgesLegal`), and the timeline
  contains both edges out of INTERVIEW. What remains true under concurrency is
  `AuditLedger`; the strict `StageLedger` holds for requests that do not overlap.
* `SingleUse`: overlapping refreshes with one token both succeed. The window
  closes when one of them is answered (`NoReplayAfterAnswer`, proved).
* `InvalidationTakesEffect`: a summary gathered before a mutation is stored after
  the key was deleted; it stays up to the TTL (`EventuallyFresh`).
* `SuppressedByToday`: a follow-up alerted about on one day suppresses, by its
  title, another one on the next; the query has no date.
* `FunnelServed`: with one application SAVED and two APPLIED the conversion is
  200 %, which the service's own schema refuses (`le=100.0`): 500.

What `FollowUpsReminded` excludes is worth knowing: while one follow-up of any
user is overdue whose title does not fit (`Blocked`), every batch fails.

The exceptions in the other properties say where the code falls short of its
documentation without a run of their own:

* `app/repositories/user_repository.py:15` speaks of a "case-insensitive unique
  email address". That holds for registrations (`AddressTwinsAreTyped`); a profile
  update that changes only the case of an address stores it as typed, after which
  the account cannot sign in and the address can be registered again.
* A name or address taken between check and INSERT is answered 500 instead of the
  declared 409 (`UndeclaredHasCause`), a parent deleted between them 500
  instead of 404 (`UndeclaredExplained`).
* A blank note, interview, follow-up or company is stored and answered 500, and so is
  every later GET and PATCH of the row, and every list that contains it. A PATCH of
  another column of such a row is committed and answered 500 as well: the client is
  told of a failure that did not happen (`LateRefusalsSpoilt`, `UndeclaredExplained`,
  `UndeclaredHasCause`). A registration with a full name of spaces is answered 500
  and stores nothing.
* Explicit nulls in a PATCH, and other values that only the table refuses, are answered
  500 and store nothing.
* The first transition of an application counts as zero days in the velocity
  report (`VelocityTelescopes`); `README.md` speaks of the "Average duration
  between stage transitions".

## 4. Proofs

TLAPS proves, for all values of the constants that satisfy the named
assumptions (`None` is none of the ids, fresh ids are fresh, bounds are bounds):

| Theorem | Property |
| --- | --- |
| `ApplicationPipelineProofs!CoreInvariant` | `CoreInv` |
| `TypeCorrect`, `LocksSound`, `LedgerLegal`, `LedgerAppendOnly` | `TypeOK`, `LocksHeld`, `EdgesLegal`, `AppendOnly` |
| `DeadlocksTakeCascades` | `DeadlocksNeedCascade` |
| `NeverStuck`, for finitely many requests | `SomebodyProceeds` |
| `LedgerInvariant` | `LedgerInv` |
| `TenantsApart`, `LedgerIsComplete`, `OriginsRecorded`, `StagesRecorded`, `AnswersRecorded` | `TenantConsistent`, `LedgerComplete`, `OriginRecorded`, `CurrentStageRecorded`, `AnsweredIsRecorded` |
| `PipelineImplementsAuditLedger` | `ImplementsAuditLedger` |
| `SerialInvariant`, for `MaxOpen = 1` | `SerialInv` |
| `SerialPipelineImplementsStageLedger`, `SerialTimelinesEndAtStage`, for `MaxOpen = 1` | `ImplementsStageLedger`, `TimelineEndsAtCurrentStage` |
| `RefreshTokensProofs!TokenInvariant` | `TokenInv` |
| `TypeCorrect`, `RotationRevokes`, `ReplayWindowCloses`, `LogoutEndsToken`, `AnswersAreDurable` | `TypeOK`, `ReplacedIsRevoked`, `NoReplayAfterAnswer`, `LogoutIsFinal`, `HeldIsStored` |
| `DashboardCacheProofs!CacheInvariant`, `TypeCorrect`, `CacheCoherent` | `CacheInv`, `TypeOK`, `StaleOnlyWhenRaced` |
| `ReminderWorkerProofs!ReminderInvariant` | `ReminderInv` |
| `TypeCorrect`, `DuplicatesOnlyFromOverlap`, `AlertsOnlyWhenDue` | `TypeOK`, `DuplicatesOverlap`, `AlertsAreDue` |
| `UniqueNamesProofs!NamesInvariant`, `IndexesWork` | `NamesInv`, `KeysUnique` |
| `TypeCorrect`, `TwinsOnlyFromOverlap`, `AddressTwins`, `SignInWorks`, `UndeclaredOnlyWithCause` | `TypeOK`, `TwinsOverlap`, `AddressTwinsAreTyped`, `SignInFindsAccount`, `UndeclaredHasCause` |
| `RateLimiterProofs!LimiterInvariant` | `LimiterInv` |
| `TypeCorrect`, `AdmissionsBounded`, `RefusalsJustified` | `TypeOK`, `AdmissionBound`, `RefusalJustified` |
| `AttachmentsProofs!AttachedInvariant` | `AttachedInv` |
| `TypeCorrect`, `ChildrenDieWithParents`, `RefusedLateOnlyWhenSpoilt`, `UndeclaredOnlyExplained` | `TypeOK`, `NoStrayChildren`, `LateRefusalsSpoilt`, `UndeclaredExplained` |
| `StandaloneProofs!EachComponentRuns` | the specification of each component |
| `TypesSideBySide`, `AdmissionsBoundedSideBySide`, `RefusalsJustifiedSideBySide`, `NoStrayChildrenSideBySide`, `LateRefusalsSpoiltSideBySide`, `UndeclaredExplainedSideBySide` | `InstancesTypeOK` (names, limiter, attachments) and the properties of the last two, in `MCStandalone` |
| `PagesInvariant`, `PagesArePartition` | `PagesInv`, `PagesPartition` |
| `ReportsInvariant`, `ReportsCountEachOnce`, `VelocityAttributesEachDay` | `ReportsInv`, `ReportsAddUp`, `VelocityTelescopes` |

Pipeline. `LocksHeld` is not inductive: whether a step keeps it depends on what
the other requests have sent, and what they may send next on where they stand.
`CoreInv` adds `ProtocolOK` (five shapes, one per kind of request: its place in
the handler determines what it has sent and what it has validated) and
`ParentsPresent` (rows that an open transaction relies on are there). The proof
has one lemma per action and kind of obligation; `EdgesLegal` and `AppendOnly`
then need only the three committing actions, as no other step changes a table.

Deadlocks. `Level` numbers the requests in the order in which they take locks: none
held, a cascade about to delete the company, a PATCH between its two statements,
nothing left to lock. Whoever waits waits for a request that is further on, except
that a cascade may wait for another one (`WaitsForLater`); along a circle the levels
cannot fall, so all of it consists of cascades (`CirclesOfCascades`). Conversely, if each
open request is blocked, the smallest set of requests that only wait for each other is
a circle (`EverybodyBlocked`), so that while requests are open one of them has the locks
that its next statement needs (`Granted`) or the detector ends its transaction: the
part of `EveryRequestAnswered` that needs no fairness.

Ledger. The four properties of the tables are not inductive without what open
requests know of them, and hold together or not at all. `AppKnown`: the
application that a request found belongs to its user or is gone and does not come
back, as ids are fresh (`FreshApps`). `CompanyKnown`: so does the company it found,
which with the locks of `CoreInv` (a company that an open transaction refers to is
not deleted) gives `TenantConsistent` at the commit. `SeenKnown`: the stage that a
request read has a ledger row, older than the one the request is adding; it
survives the commits of others because ledgers only grow, and gives
`OriginRecorded` and the order in `LedgerComplete`. `Answered` is the property
about answers for one request.

Refinement. `PipelineImplementsAuditLedger` maps the table of applications to the
stages of `AuditLedger` and the ledger rows of each application to its trail. One
lemma per committing action: a creation is `Open` (`FreshApps`: nothing is stored
under its id), a deletion `Drop` of the rows of the cascade, a change `Move`, where
`SeenKnown` says that the stage it starts from was entered, or a stutter when it
leaves stage and ledger alone. No other step touches the tables.

Serial requests. The strict ledger has, for each application, its stage and its
timeline, which is a walk along the matrix. That the pipeline implements it needs that
nobody else commits between what a request reads and what it writes. `MaxOpen = 1`
(one request at a time, the parameter of the run `pipeline_serial`) says so and is the
hypothesis of these theorems. `SerialInv`: at most one request is in the middle of
its handler (`OneOpen`), no two rows of an application have the same `changed_at`
(`RowsOrdered`), and for a request that is about to commit the stage it read is the
current one and its row is younger than all others (`Undisturbed`). `TimelineGrows`
shows that such a row comes last in the timeline and moves none of the others, so that
a commit is `Open`, `Move` or `Drop`. That the timeline ends at the current stage
follows from the abstract ledger, of which it is an invariant.

Tokens. `TokenInv` joins the shapes of requests, the presence of every row that
is referred to, and the three properties. The argument of `NoReplayAfterAnswer`
is that an answered refresh has revoked its token (`RefreshIsFinal`), an answered
logout has revoked it or found it expired (`LogoutIsFinal`), neither can be
undone, and the look-up refuses both.

Cache. `GatheredIsCurrent` extends coherence to what readers carry: what an
unraced reader has gathered differs from the database only while a writer has
yet to invalidate.

Reminders. `DuplicatesOverlap` speaks of rows; `PendingIsNew` says it of what a
run carries: what would suppress a pending alert was committed after the run
began, because the check found nothing then and batch numbers only grow.
`LoadedIsCurrent` does for `AlertsAreDue` what `GatheredIsCurrent` does for the
cache.

Names. Locks and pending entries of the index exclude each other (`KeysUnique`
with what is pending). The difficulty of `TwinsOverlap` is a check that found
nothing: it says something only about the rows of that time. The invariant
therefore ties each request that has passed its check to the rows: a twin that is
there by now comes from a request that had not been answered when this one began,
so that the two overlapped. A respelling makes no check; what it writes back is
excused by what the row owed its name to when it was read. `UndeclaredHasCause` needs
of the invariant that the row which a request read keeps the name it read unless another
request, which overlapped, has changed it: so a response about a nameless company comes
to a request that read or wrote the empty name, or overlapped.

Limiter. `AdmissionBound` counts requests, the code counts entries of the log.
`EntriesKept` connects them: a punctual admitted request without an entry has been
followed by an entry at least a window later, or the clock has passed its window
and the grace; in both cases no later punctual request shares a window with it.
So the punctual admitted requests of a window are a subset of what the last of
them counted.

Attachments. `VerifiedSound`: what a request found at its look-up had its owner
and kind, and is that row still, or somebody has deleted it. `LocksSound`: the parent of a pending
interview or follow-up is stored, because its deletion would have waited.
`LateRefusalsSpoilt` is part of the invariant: its second conjunct says where blank rows
come from, the first one follows at each commit.

Composition. `EachComponentRuns`: a step of `StandaloneNext` is a step of one component
and leaves the variables of the others alone, so that a behaviour of the composition is
one of each component. The instances of the proof modules are instances of the same
text with the same substitution; the lemmas `SameLimiter` and `SameAttached` show
that their operators agree with those of `MCStandalone`. With both, the theorems of
`RateLimiterProofs` and `AttachmentsProofs` carry over, and the properties that the run
`standalone` checks are the ones proved.

Pages. The client has come as far as the offset of its next page (`Reached`); the
number of rows before a row in the order of the query (`Depth`) says on which side of
it the row lies. `PagesInv`: a steady row has been read if it lies before the offset,
unless a row before it has left (`exposed`); it has been read at most once, and only if
it lies before the offset, unless a row has entered before it (`pushed`); a client that
has finished has come to the end of the list. A page reads exactly the rows whose depth
is between its two offsets (`PagesReadItems`); an edit that changes the depth of a
row is one of those that `exposed` or `pushed` remember (`EditMoves`).

Reports. `SumFunction` is a fold, a recursive function on the subsets of its domain
that takes the elements in a fixed order. The induction theorems of the
library cannot be instantiated here, but its well-founded orders can: among the
counterexamples to a claim about all subsets of a finite set there would be a smallest
one (`SubsetInduction`). From this follow the existence of the fold, the independence
of its order (`SumLaws`), and what the reports need: sums over partitions
(`SumPartition`, `PartitionCounts`) and sums of numbers that differ by little
(`SumClose`), as a rounded quotient times its divisor is off by half the divisor at
most (`RoundedNear`). Funnel, breakdown and timeline partition the applications. The
transitions are partitioned by pair of stages and by application; the days of one
application telescope (`SpanTelescopes`).

Constants satisfy the assumptions named in the modules; those of `RateLimiter`,
`Attachments`, `Listing` and `Analytics`, which other modules instantiate, are
hypotheses of the theorems (`LimiterConstants`, `AttachmentsConstants`, ...) and together
the assumption `StandaloneAssumption` of `MCStandalone`, which TLC evaluates.

Model-checked only: liveness (`EveryRequestAnswered`, `EventuallyFresh`,
`FollowUpsReminded`), which is out of the prover's reach, as is `ENABLED`. Every other
property of the passing runs is proved.

## 5. Plan and what is not modelled

Everything that changes shared state under a rule of its own is modelled, and every
safety property and refinement that a run checks is proved. Still worth doing: a finer
deletion that locks the rows of a cascade one by one, and bounds on the steps that a
request can take, which with `NeverStuck` make up what of liveness is within the
prover's reach.

Not modelled, and why:

* PATCH of columns without a rule (notes, salary, dates, priority): one UPDATE of
  columns that nothing else reads.
* Read flags of notifications: marking one or all as read sets a flag that no
  other component looks at.
* `GET /follow-ups` over all applications, which always reads the first hundred
  rows: its bound is a default without a page parameter (listed as a hazard).
* Validation of requests, serialisation beyond the texts that responses refuse, CORS:
  no state beyond one request. Refused responses are left out for applications
  (blank job titles) and pages.
* `Idempotency-Key`: accepted, and read by nothing.
* Passwords and JWT signatures are ideal; configuration and migrations have no
  behaviour at run time beyond the constraints, which the modules contain.

## 6. Running

    tlc -workers 2 -config Pipeline_concurrent.cfg MCApplicationPipeline
    tlc -workers 2 -config Pipeline_live.cfg MCExchange
    tlc -workers 2 -config Tokens_rotation.cfg RefreshTokens
    tlc -workers 2 -config Dashboard_coherence.cfg MCDashboardCache
    tlc -workers 2 -config Reminders_delivery.cfg MCReminderWorker
    tlc -workers 2 -config Standalone.cfg MCStandalone
    tlc -workers 2 -config Analytics_funnel.cfg MCAnalytics
    tlapm ApplicationPipelineProofs.tla
    tlapm RefreshTokensProofs.tla
    tlapm DashboardCacheProofs.tla
    tlapm ReminderWorkerProofs.tla
    tlapm UniqueNamesProofs.tla
    tlapm RateLimiterProofs.tla
    tlapm AttachmentsProofs.tla
    tlapm StandaloneProofs.tla
