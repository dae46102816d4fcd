# Campaign OS: TLA+ models and proofs

Campaign OS is a Django system in which people and agents write posts, a gate
service and a principal approve them, and background workers publish them to
social platforms; it also mails contacts in timed sequences and sells a paid
intelligence service.  This directory models the parts where a mistake cannot be
taken back (a post or an email sent twice, an approval skipped, a paid account left
without its key, a refresh token lost, a gating condition dropped) and the lock that
serialises publishing.  Paths below are relative to `src/`.

## Inventory

| Component | State it keeps | Operations | Talks to |
|---|---|---|---|
| Publish engine (`apps/publisher/engine.py`, `tasks.py`, `management/commands/run_publisher.py`) | `PlatformPost.status`, `retry_count`, `next_retry_at`, `platform_post_id`; copies of rows in memory | `run_publish_cycle` (beat, 15 s, under a lock), `poll_and_publish` without the lock from `publish_content_item` and `run_publisher`; group claim, gate, hold, dispatch, retry | gate service, intake gate, platforms, composer rows |
| Blotato reconciler (`apps/publisher/tasks.py`, `providers/blotato.py`) | submission ids on parked rows | submit, poll until a deadline, park; sweep every 60 s | Blotato, engine rows |
| Composer (`apps/composer/models.py`, `status.py`, `views.py`, `console_publish.py`) | posts, rows, gate columns, the derived post status | save, autosave, schedule, publish now, move one account, publish a draft through the gate | the engine, over the rows |
| API (`apps/api`) | posts, idempotency records, quotas | create, PATCH, schedule, cancel; claim, finalise, release and sweep of idempotency slots | composer rows |
| Beat lock (`jobs/locks.py`, `config/settings/base.py`) | one Redis key per lock | SET NX EX, compare-and-delete | Celery time limits |
| Approvals (`apps/approvals`) | `Post.review_state`, row statuses, assignments, single-use tokens | submit, approve, request changes, reject, resubmit; console decisions; review and publish links; beside them the account menu, `publish_post` and `schedule_now` | composer rows, the engine, email |
| Outreach (`apps/outreach`) | sequences, steps, mailbox counters, suppressions | enrol, advance due steps, guarded send, send by hand, opt-out | gate service, Gmail, CRM |
| Reply triage (`apps/outreach/triage.py`, `apps/joseph/tasks.py`) | `GoogleIntegration.last_synced_at`, sequence status | fetch, triage, stamp; the calendar sync stamps the same cursor | Gmail, outreach |
| Intelligence activation (`apps/intelligence`) | `PendingActivation`, `StudioCheckoutAttempt`, `IntelligenceSubscription` | activate, recover, fallback worker with retries, hourly durability sweep | intelligence service, Redis broker |
| Published-post operations (`apps/publisher/operations.py`, `apps/composer/views.py`) | the status and `platform_post_id` of a live row | delete the live post, edit it (delete and post again), delete its record; the composer saves or deletes the same row | platforms, the account menu, the calendar, the engine |
| Account tokens (`apps/social_accounts`, the engine) | `oauth_access_token`, `oauth_refresh_token`, `connection_status` | health check every 6 h, refresh before a publish and after a 401, reconnect (consent, profile, page selection, save) | platforms' token and profile endpoints |
| Content intake (`apps/content_intake`) | `ContentIntake`, `UnblockCondition`, `Post` | sheet sync (15 min and a button), HERALD drafts, calendar, kanban moves, conditions | the sheet, HERALD, composer posts |
| Notifications (`apps/notifications`) | notifications, deliveries, attempts | notify, dispatch, retry | email, webhooks |
| Organizations and members (`apps/organizations`, `apps/members`), calendar and queues (`apps/calendar`) | deletion timers, roles, invitations; queue slots and positions | short transactions of their own | one-way into publishing (`scheduled_at`) |
| Generation, the rest of the principal's desk, CRM, decks, inbox, analytics, media, keys, MCP, settings | their own tables | imports, reports, look-ups | mostly one-way |

**What is hard.**  Publish cycles overlap (two of the three ways to start one take no
lock); each works on in-memory instances and saves whole rows; the platform call
between read and save takes seconds to minutes, during which people edit the same
rows; workers are killed by time limits and deploys; answers of platforms get lost;
Blotato settles later than the call.  The correctness properties per component:

* engine: at most one call per scheduling, one worker per row, bounded attempts,
  nothing lost without a crash, due rows settle, the derived status is true,
  nothing uncleared goes out on a gate verdict;
* reconciler: a parked submission is settled with its own outcome and never made twice;
* lock: mutual exclusion for tasks under the hard limit, never held for good;
* outreach: a step is sent once unless its sender ended before the mark; the day's cap
  and an opt-out are overshot by at most the emails already past the guards; a cadence
  stops when the contact replies, and no step of it is lost;
* API: one creation per idempotency key, honest replays, a quota overshot by at most the
  requests that count together, and a slot that is always freed;
* activation: the saved key is the one the service accepts, and a paid activation settles;
* approvals: two stages mean two approvals by the services, a link acts once per request
  that found it live, and a row is published again only where a save or a lost log entry took
  it back;
* published-post operations: the platform shows the post once, and what it shows is on record,
  up to named events;
* account tokens: the refresh token in force is lost only in named ways, and a dead access
  token is renewed or flagged;
* intake: an item mirrors the sheet, keeps its gating condition, and is not drafted for ever.

## Modules

* `PostStatus`: statuses, `VALID_TRANSITIONS`, `derive_post_status`.  Constant-level.
* `PublishEngine`: the table of rows, any number of publish cycles, the platforms, the
  reconciler and people's requests.
* `MCPublishEngine`: names for the TLC instances.
* `SubmissionLedger`, `PostOutcome`: what the engine promises the platforms and the author
  of a post.
* `ExclusiveSection`: what the lock promises, and what the ticks rely on.
* `RedisLock`, `MCRedisLock`: the lock with its clock, its TLC instance.
* `PublishEngine_proofs`: theorems about `PublishEngine` and `RedisLock`, which it extends both.
* `Outreach`, `MCOutreach`, `Outreach_proofs`: sequences, sends, opt-outs, the mail syncs.
* `IdempotencySlot`: what an idempotency key promises.  `ApiRequests`, `MCApiRequests`,
  `ApiRequests_proofs`: the API's calls, which implement it.
* `Activation`, `MCActivation`, `Activation_proofs`: the two-phase paid activation.
* `Approvals` (on `PostStatus`), `MCApprovals`, `Approvals_proofs`: reviews and links.
* `LivePosts` (on `PostStatus`), `MCLivePosts`, `LivePosts_proofs`: operations on a post that
  is live.
* `AccountTokens`, `MCAccountTokens`, `AccountTokens_proofs`: the tokens of one account.
* `Intake`, `MCIntake`, `Intake_proofs`: one row of the planning sheet and what becomes of it.

### PublishEngine and the code

| Model | Code |
|---|---|
| `row` | the committed `PlatformPost` columns the engine reads; `wait` abstracts `next_retry_at` against the clock, `sub` is the submission id as an index into `remote` (0: empty, or a platform's own post id, which the status endpoint does not know) |
| `text` | the caption, one value per parent (`Groups`) |
| `copy[c][p]` | the model instance a cycle holds; `RecordPublished` and `RecordFailure` save all of it, as `save()` does |
| `at[c][p]` | where `_publish_platform_post` stands with the row; `due` and `queued` are rows listed but not yet claimed |
| `lock`, `phase` | the publish-cycle lock and the progress of `poll_and_publish` |
| `remote[p]` | the submissions the platform accepted |
| `recon` | the submission ids the reconciler read before asking Blotato |
| `req[u]` | a web or API request, between its statements |
| `openings`, `raced` | history, read by properties only |

A database transaction is one action; a network call ends one action and starts the
next.  `ClaimGroup` is the whole transaction of `_publish_post_group` (row locks, early
gate, claim); the instance keeps the status it was read with, because the claim is a
queryset update.  A retry refreshes only the status.  The dispatch re-checks the gate on
the instance, not on the row.  `HoldForPrincipal` keeps what the code does: on a fresh
claim `transition_to` raises, on a retry it succeeds and the missing result raises in
the caller; both reach the generic exception branch.  `PublishLog` inserts that fail are
actions of their own (`LogFails`, `BlockUnlogged`, `FailureUnlogged`).  The reconciler's
status call can fail (`ReconcileMisses`).  Each request is split where another process
can come between two of its statements: PATCH checks editability before its
transaction; autosave writes caption and gates in two; the composer saves the parent,
then each row as read, then the schedule, then each status; the account menu and
`publish_content_item` read first and save later.

`Faults` selects `crash` (worker or web process dies), `gate` (gate service
unreachable), `answer` (a platform took the post but the call raised) and `log`.
`Sensitive` rows may be blocked by `check_intake_gate` at any dispatch; `Held` rows wait
for the principal.  `Cleared` captions are those the gate passes.

### RedisLock and the code

One task invocation is its own token.  `Acquire` is the `SET NX EX` that succeeds,
`AcquireLost` one whose answer is lost, `Release` the script, `ReleaseLost` one that
never reaches Redis, `Kill` the hard limit, a deploy or the OOM killer.  `Tick` counts
down the key and counts up the tasks, and waits for an overdue key or task.  The
deployment sets both `TTL` and the hard limit to 600 s; `LockAssumption` asks only
`HardLimit <= TTL`.  `Bounded` are the invocations whose worker enforces the limit; the
others may stay in the block for ever.

`PublishEngine` uses the result: a running tick never loses the lock, only a dead one
(`LockExpires`).  The two meet in `ExclusiveSection`: the lock implements it for the
invocations under the limit, and the ticks use the lock as one (`TicksTakeTurns`).

### Outreach and the code

No handler of outreach opens a transaction and no sweep takes a lock, so every database
statement is an action.  `job[s]` is what a sender holds: a sweep its list of due steps
(`SweepStart` evaluates the query, `Taking` goes by the list whatever became of the rows),
a person one email.  `ClearStep` and `ManualSend` run `_send_email_step` and `thread_send`
up to the transport: mailbox, gate, suppression, cap; `Cleared` remembers whether the guard
found a counter row.  `Deliver`, `TransportFails` and `AnswerLost` are the outcomes of
`transport.send`; `Count` increments the row in the database, `CountCollides` is the unique
constraint when two senders create the day's row; `MarkStep` saves the step.  `ListActive`
and `CloseSequence` are the end of `advance`.  `Enroll` writes the sequence, `EnrollStep`
one step each, with times counted from the start of the request (`ScheduledFor`).
A message is `new` while its date is after `last_synced_at`, `past` afterwards; `GmailFetch`
takes at most `MaxMessages`, `Triage` pauses the thread's active sequences, `GmailStamp` and
`CalendarStamp` move the cursor.  The match of a message to a thread is the constant
`matchOf`: `recent_messages` returns no `in_reply_to`, so only the sender's address decides.
Crashes are kills by the time limit or a deploy.  `faults` counts every failure.

### ApiRequests and the code

`Claim` is the INSERT of `claim_idempotency_slot`, `Refetch` the second statement after it
failed; then `CheckQuota`, `CreatePost` (one transaction), `StampGate`, `Finalize`, or
`Fails` (the handlers that release the slot) or `Crash`.  `ScheduleCheck`/`ScheduleSave` and
`CancelList`/`CancelSave` are the two routes split at their read.  `recent` and `admitted`
say whether a row's `updated_at`, and its admission by the API, lie within 24 hours.  Bodies
are compared as the fingerprint does.  `spent` counts the times a key was freed although its
post existed.  `IdempotencySlot` is the promise: workers enter while there is neither worker
nor outcome, and the outcome stands until it is forgotten.

### Activation and the code

`job[a]` is where a web request (`Views`) or a worker stands in `_activate_two_phase` or the
task.  `remote` is the service: the first commit mints a key, later ones answer
`api_key_minted = False`, every rotation replaces the key.  `Finalize` is the transaction of
`_finalize_local_subscription`, with the rotation when no key is at hand.  `Defer` is
`_queue_pending_activation` or `_reschedule_or_fail`; `Enqueue` sends the message, which may
be lost, delivered twice, or never sent.  `GoStale` is two hours without a save, longer than
the hard limit of a worker; `Sweep` is `sweep_stale_pending_activations`.

### Approvals and the code

A service reads its instances (`ServiceRead`) and transitions them in a transaction that
does not read again (`ServiceSave`): `status` and the `seen` statuses part when something
happens in between.  `MenuRead` and `MenuSave` are the requests that save one row they have
read: the account menu (`transition_platform_post`), the API's schedule and cancel, the
calendar's `reschedule_post`, the composer, which writes the row with the status it had, and
`publish_content_item`, which writes `scheduled`.  `schedule_now` is `ListRows` (its own
query), `ReadRows` (`_transition_post_children` reads those rows again and skips what cannot
reach `scheduled`) and one `SaveRow` for each row, without a lock; the composer comes in at
the second query.  `PublishPost` asks for an approved review state, or for an author with
`publish_directly`.  On the console, `ConsoleApprove` updates the rows and `ConsoleApproved`
saves the post; `ConsoleSend` saves the post, `SendApproves` updates the rows, and
`schedule_now` follows the email.  `ResolveToken` is the look-up inside a link's transaction,
which takes no row lock; `LinkSchedules` and the other `Link...` actions are the rest of it,
and what they save is seen when it commits.  A cycle claims (`EngineClaims`), saves what comes
of it (`EngineFails`, `EnginePublishes`, `EngineHolds`) whatever the row has become, and writes
its log entry (`EngineCloses`), which may fail (`EngineTakesBack`); `EngineDies` leaves the row.

### LivePosts and the code

One `PlatformPost` and what its platform shows (`online`).  `Operation` is
`platform_post_operation`, which asks that the row be published; `Remove` is `post_delete`,
which asks the platform only for such rows and goes on whatever the platform says.  After
`delete_post` (`PostDeleted`, `PostAlreadyGone`, `DeletionRefused`, `DeletionUnanswered`) come
`RecordDeletion` for a deletion, `MarkPublishing`, `Publish` or `Republish...`, and `RecordEdit`
for an edit, `DropRecord` for the record; a save with `update_fields` raises when the row is
gone.  `GoneIsOk` tells providers that take a 404 for success (Ghost) from those that raise.
A publish cycle claims the row under its lock (`CycleClaims`), calls (`Publish`,
`CycleRefused`, `CycleUnanswered`), saves its whole instance (`CycleSaves`) and writes its log
entry (`Logged`, `LogFails`); `PutBack` is the retry branch.  `MoveReads` reads the row;
`MoveSaves` writes a status it allows (the menu, the API, the calendar,
`publish_content_item`), `ComposerSaves` the whole row as it was read, which inserts it again
if it was deleted.  `LeavesOut` is the composer, or its autosave, deleting the row of an account
that was left out, without asking the platform.  `events` counts what can show a post twice or leave a
stray one.

### AccountTokens and the code

Grants of the platform are numbered; a grant may replace the refresh token, and only the
newest (`current`) is taken.  Every task reads the account (`mine`), calls, and saves the columns
it names: `HealthCheck` to `RecordHealth` is `check_social_account_health`, `Publish` to
`Published` or `Unauthorized` is the refresh before a publish and the one retry after a 401.
`RefreshRaises` is what each does with an exception.  `ScheduleHealthChecks` skips accounts in
error.  `Age` lets access tokens run out, which the row knows, or be revoked, which it does
not.  A person who reconnects is three steps: `Consents` is `exchange_code`, whose tokens
are then `pending` in the request or, during the page selection, in the session;
`ConnectSaves` is `_create_or_update_account`, which stores an empty refresh token when none
came; `ConnectAbandons` is a failed `get_profile`, an unfinished selection or a dead request.
`dropped` records a consent that cost the refresh token in force.  The board list of pinterest
(`composer/views.py:1435`) also refreshes, but pinterest is not in the provider registry, so
that code raises before it gets there; it is left out.

### Intake and the code

Every statement commits by itself.  `SyncFetch`, `SyncCompare`, `SyncUpsert`,
`SyncAddConditions`, `SyncFinish` are one row's way through `sync_intake_sheet`; `hash` stands
for the row it was computed from.  `SyncRowFails` is the exception a sync logs per row.
`DraftTask`, `DraftNow`, `AddToCalendar` and `Move` read and check, `Herald...`, `KeepDraft`,
`EnsurePost`, `LinkPost` and `MoveSaves` call and save.  `EditSheet` is a person in the sheet,
`CloseCondition` one on the board.

## Runs

| Run | Instance | Question |
|---|---|---|
| `engine_overlap` | a tick and an unlocked cycle, two sibling rows, one on Blotato, one `Sensitive`; crash, gate outage; 1 retry | can overlapping cycles, crashes and outages send a row twice, lose it, or make its status lie? (about 760,000 states) |
| `engine_locked` | two ticks under the lock, two rows of different parents, one held for the principal, one `Sensitive` and on Blotato, one row per batch; crash, lost answer, failing log; fairness | are attempts bounded, who takes a published row back, and does everything due settle? (about 54,000 states) |
| `engine_editors` | one row, two captions of which one is cleared, a cycle, two requests of any of five kinds, crash | can an edit buy an extra call, or get an uncleared caption out on a verdict? (about 2 million states) |
| `redis_lock` | two bounded invocations and one that overstays, `TTL = HardLimit = 3` | exclusion, ownership, refinement, and that the key comes free (about 8,000 states) |
| `outreach` | one thread, a sequence of an email and a call, a sweep, a person, two inbound messages (symmetric), a fetch of one message, caps 1 then 2, two days, one send by hand, one fault of five kinds | duplicate, over-cap and unwanted emails, missed replies, stranded steps (about 2.7 million states) |
| `activation` | one web process, two workers, two visits, two attempts, three faults of seven kinds; fairness | can a paid activation hang, or save a dead key? (about 450,000 states) |
| `api_requests` | two workers, one key and calls without one, a scheduling and a draft body, a quota of one, three calls, one move, one fault; fairness | can a key create twice, replay a lie, or stay stuck; how far is the quota overshot? (about 1.1 million states) |
| `approvals` | one row, two web processes (symmetric), two stages, two links, four requests, one failed log entry | can an approval be skipped, a link act twice, or a row be published again unaccounted for? (about 1.1 million states) |
| `live_posts` | three processes (symmetric) on a Ghost-like platform, three operations, three posts, two moves or saves, any number of cycles, one fault | is the post ever shown twice, or shown without a record? (about 3 million states) |
| `account_tokens` | two tasks of any kind, two grants, a person's consent among them, one publish beside the health checks, one fault, one passing error; fairness | can the refresh token be lost, or a dead token go unnoticed? (about 790,000 states) |
| `intake` | two syncs, two processes, two contents of the row (gated, and not understood), one edit, one request, one fault; fairness | does the item end up as the sheet has it, with its condition, drafted a bounded number of times? (about 720,000 states) |
| `edit_race` | one row, one cycle, one PATCH | the disagreement below |

**Why the bounds are enough.**  Two overlapping cycles show every race over a claim,
since a third meets the same row lock.  Two siblings are the least that distinguish the
aggregate status and the one-transaction claim.  `MaxRetries = 1` has both branches of
`_schedule_retry` and a retry loop; the comparisons meet at 0, 1 and the limit.
One crash per behaviour is enough for each place a
crash can hit; `BatchLimit` is 1 for the two rows of `engine_locked`, so that a cycle
leaves due rows to the next one, and lets every due row in elsewhere.  Two requests allow an edit and the rescheduling or console
publish that sends it.  The unit of time in `redis_lock` is 200 s, so holders of every
age meet keys of every age.  In `outreach` the sweep and the person are two senders, enough
to read one counter together; the sweep runs again after it ends or dies; two messages and a
fetch of one make a full batch; an email and a call make a sequence with a due and a later
step.  Overlapping sweeps are beyond the run, not beyond the theorems, which hold for any
number.  In `activation` one view and two workers give three holders of a commit's answer;
three faults can lose a message, kill its redelivery and fail a rotation in one behaviour.  In
`api_requests` three calls are a first, a concurrent or failed second, and a replay.  In
`approvals` four requests are a submission, two approvals and a fourth beside them, or two
that schedule, a cycle between their reads and saves; the rows of a post meet only in
queries that take each for itself, so one is enough (the theorems have any number).  In
`live_posts` three processes are the two that both read the row and a cycle between them;
three operations, three posts and two moves let an edit meet a deletion, a republished row
and an outdated save.  In `account_tokens` two tasks are the two
that hold one token, of which the platform honours the first; `MaxGrants = 2` is the grant that
replaces it (`AccountTokens_proofs` has any number).  In `intake` two syncs are an older grid
against a newer, two processes are the draft task and the button or two requests, and one fault
drops the answer, the condition or the process.
`TypeOK` is checked in `engine_overlap`; elsewhere it is proved only.  Deadlock is checked except in `api_requests`, `approvals`,
`live_posts` and `account_tokens`, which stop when the bounded calls, requests or grants are
used up, or the record is gone, and nobody has anything left to do.

**Fairness.**  `Fairness` in `PublishEngine` assumes weak fairness of each cycle's own
steps (threads of a live worker), of some tick beginning (the `publish-cycle` beat entry,
`jobs/schedules.py:30`), of the expiry of a dead tick's key, and of the reconciler
listing a row (`blotato-reconcile`, every 60 s), and strong fairness of its answer being
saved: a sweep that asks for ever is answered once.  Nothing is assumed of people, of
unlocked cycles, of the time a row becomes due, or of Blotato deciding.  In `RedisLock`:
time passes, expired keys are dropped, and a bounded task at its limit is killed.
`ApiRequests`: a running request goes on unless it dies, records grow old, and the hourly
sweep (`jobs/schedules.py:10`) deletes old ones.  `Activation`: requests and workers go on
unless they fail, two quiet hours pass, and the hourly sweep (`jobs/schedules.py:48`) runs; no
fairness is assumed of the broker, of visits, or of anyone's role, and faults are finitely
many because a behaviour that fails for ever settles nothing.  `AccountTokens`: the beat
schedules health checks (`jobs/schedules.py:14`), a worker takes them and a task that runs goes
on; nothing is assumed of refreshes succeeding or of people reconnecting.  `Intake`: some sync
begins (`jobs/schedules.py:60`) and a sync that runs goes on.  `Outreach`, `Approvals` and
`LivePosts` state no fairness: their properties are safety.

## Properties

* `SubmissionBudget`, `OneSubmissionPerScheduling`: calls made, plus calls some cycle is
  entitled to make, plus a claim still possible, never exceed the number of times the row
  entered `scheduled`.
* `ExclusiveClaim`: two cycles never work on one row.
* `AtMostOneLive`: with every answer arriving, a post is never live twice.
* `AggregateHonest`: a post is `published` only if every platform has it, `failed` only
  if none has.
* `NoOrphanWithoutCrash`: a row in `publishing` has a worker or a submission id.
* `UndoneOnlyUnlogged`: a published row is taken back only by the cycle at work on it, and only
  where a `PublishLog` can be lost; no other cycle, no crash and no outdated id of the
  reconciler does it.
* `ImplementsSubmissionLedger`: the submissions of a row, as `SubmissionLedger` has them: one
  more at most for each scheduling, none withdrawn, each settled at most once.
* `ImplementsPostOutcome`: a row is called published or failed once, truthfully, and nothing
  appears on its platform after that, as `PostOutcome` says: no retry, hold, parked
  submission or outdated id of the reconciler publishes a row that was called failed.
* `TicksTakeTurns`: the ticks that share the lock are in the cycle one after the other.
* `AttemptsBounded`: under the lock at most `1 + MaxRetries` attempts, even when answers
  are lost and logs fail.
* `DueSettles`: a due row is published, failed or back with the principal, unless a crash
  orphaned it or Blotato has not decided.  `ParkedSettles`: what Blotato decided on a
  parked row is recorded.
* `UnclearedOnlyByRace`: an uncleared caption goes out on a gate verdict only if it was
  edited while a cycle or a request held the row.  It is the strongest true form of
  the claim that `edit_race` refutes.
* `HolderOwnsKey`, `MutualExclusion`, `ImplementsExclusiveSection`, `LockComesFree`.

* `StepBudget`: outputs of a step are at most one, plus those whose sender ended before the
  mark, plus one for each further sweep.
* `CapOvershoot`: a day's emails exceed the cap by at most the senders that read the counter
  together, plus the emails the collision on a new counter row left uncounted.
* `OptOutOvershoot`: after an opt-out at most one email per sender, already past the guard.
* `MissedOnlyWhenExposed`: a reply is passed over only if it arrived between fetch and stamp,
  the calendar sync moved the cursor, the batch was full, or triage raised; never by a crash.
* `StrandedOnlyByEnrolment`: a completed sequence has a pending step only if a sweep looked
  at it while its steps were being created.
* `OnePostPerKey`, `ReplayHonest`, `QuotaOvershoot`, `ImplementsIdempotencySlot`,
  `SlotComesFree`: as the inventory puts them.
* `ActiveKeyLive`: the subscription's key is the live one, unless two actors held the
  commit's answer at a time.  That exception is reachable (a redelivered message, or a visit
  beside the worker): "double-delivery is benign" (`intelligence/tasks.py:342`) is not so.
* `PaidActivationSettles`: an open activation completes or fails.
* `SignedTwice`: in a two-stage workspace an approved row has two approvals by the services
  since its last submission, unless the console, the account menu or the engine's hold gave it
  a review state, or an outdated instance was saved.  All of these happen.
* `ActedOnce`: a link acts at most once per web process that found it live, and a row is
  published once more only for each save or failed log entry that took it out of `published` or
  away from the cycle at work on it.

* `ShownOnce`: the platform shows the post once, and once more at most for each deletion that
  took a 404 for success (`goneAnswer`), each move of a row seen in `publishing` or `published`
  (`retaken`), each late save over such a row or a deleted one (`outdated`), and each time a
  cycle put the row back after making its post (`repeated`).  The first is real: two edits
  that both read the row as published both post it again.  So is the third: two menu requests
  that read the row after a deletion both schedule it.
* `NoStrayPost`: what the platform shows is what the row says or what an edit or a cycle is
  about to record, unless one of those events happened, an answer was lost or a process died
  (`unanswered`), or the record was deleted while the platform kept the post (`kept`) or was
  being given it again (`overtaken`).
* `RefreshTokenKept`: the row, or a task or request that may still save it, has the token in
  force, unless it was lost with an answer or a process, an outdated instance was saved, or a
  consent dropped its tokens, came without a refresh token, or was saved after a later one.
* `DeadTokenNoticed`: an account that looks connected while its access token is dead is
  renewed or flagged.
* `ConditionRecorded`: a gated item has its condition, or the sync that saved the notes is
  about to add it, unless there was an exception or a crash.
* `DraftsBounded`: HERALD drafts an item at most once per process plus once per fault.
* `MirrorsSheet`: once the sheet is left alone the item comes to match it, although a sync
  with an older grid may write last.

Every property of a passing run is paired with a `Slip...` definition, a plausible bug of
the code under which TLC finds the property violated.

## Disagreements between the code and what it says

* `edit_race` / `UnclearedNeverLive`.  `engine.py:582` says the chokepoint makes it
  "impossible to publish unapproved content by construction".  A PATCH committed during a
  provider call clears the gate columns; the failed call's `_schedule_retry` saves the
  stale instance and restores them; the retry sends the new caption on the old verdict.

Other deviations, met while modelling.  The models have them; no run is kept for them.

* A hold uses up retries.  `engine.py:563` says a hold for the principal "does not exhaust
  retry-count budgets".  On a fresh claim the instance still says `scheduled`, so
  `transition_to("pending_client")` raises; the row is rescheduled with `retry_count = 1`.  On
  the retry the instance says `publishing`, the transition is saved, and the bare `return` gives
  the caller no result, which raises in turn.  Both end in the generic exception branch, and at
  `MAX_RETRIES` a row that merely waits is `failed` (`HoldForPrincipal`).
* The backoff is not kept.  `engine.py:960` says a failed row waits until `next_retry_at`
  passes; the due query does not read that column, so the next cycle takes the row
  (`BeginCycle`).
* `published` is not terminal, as `models.py:411` has it.  A composer save (`views.py:135`), the
  menu (`views.py:1012`), the calendar, `schedule_now` (`views.py:558`) or
  `publish_content_item`, each with an instance read before the engine published it, write
  their status over it; and when the `PublishLog` insert at `engine.py:399` raises, the generic
  branch (463-474) saves the published row back for a retry, which posts it again.
  `UndoneOnlyUnlogged` is what remains true of the engine; `ActedOnce` and `ShownOnce` count the
  rest.
* Two stages are not enforced outside the services.  The console's UPDATE
  (`console_views.py:67`) and the account menu (`views.py:1012`) take a row from
  `pending_review` to `approved` by one person (`SignedTwice`).
* A reconnection can lose the connection it had.  `social_accounts/views.py:361` obtains new
  tokens before `get_profile`; if that raises, or the page selection is left, they are
  gone, and a platform that rotates refresh tokens no longer takes the old one; line 875 stores
  an empty refresh token over a good one (`ConnectAbandons`, `ConnectSaves`).
* A failed edit is not a failed publish.  `operations.py:73` promises "the engine's 'failed
  publish' semantics"; the row keeps `publishing`, which no query selects, until a person
  moves it (`RepublishRefused`).
* A condition can be lost.  `row_hash` is saved before the conditions are created; an exception
  in between is logged, and later syncs skip the row as unchanged (`SyncRowFails`).

## Proofs

`tlapm` proves, for all values of the constants that satisfy `EngineAssumption` (rows of
groups are rows, cycles are finitely many, bounds are naturals, `None` is none of the
values) and `LockAssumption`:

* `PublishEngine_proofs!TypeCorrect`: `Spec => []TypeOK`.  `TypeOK` is not inductive: the
  reconciler saves the state of `remote[p][recon[p]]`, which has a type only if the listed
  id exists.  The invariant `Inv` adds `IdsKnown` (every submission id in a row, an
  instance, a request or the reconciler's list is at most `Len(remote[p])`) and that a
  PATCH in progress carries a caption.  `StepTyped` reduces every step of a cycle to "one
  row, one instance, one stage are replaced by typed ones", and the actions follow it.
* `BudgetHolds`, `AtMostOneCallPerScheduling`: `Spec => []SubmissionBudget` and its
  corollary.  The argument is an account: `Load(p)` counts the calls made and the claims
  held; a step either does not raise `Load(p)`, or raises it by one and takes the row out
  of `scheduled`; and when a row enters `scheduled`, `openings` grows.  The lock plays no
  part, so the result holds for any mixture of locked and unlocked cycles and any edits.
* Overlapping cycles (section 2).  Every step is first reduced to one of a few things it may do to one
  row (`NextTouches`, `NextKeeps`, and `Carries` and `Turns` for the gate), and each invariant is
  shown to survive those.
  - Under `Unmoved` (people edit captions and clear gates, and move no row by hand).
    `ClaimsExclude`: a row with a worker is not `scheduled` and has no other worker (`Single`), so
    nobody can claim it.
    `UndoneUnlogged`, with every fault: a submission id on a row in a cycle's hands, which would
    let the reconciler publish it under the cycle, is left only by a lost log entry
    (`Traced`); without one, a row at work is not `published` before its own cycle says so.
  - Under `Unmoved` and `Locked` (every cycle is a tick).  `AttemptsLimited`, with lost answers and
    failing logs: whoever is in a cycle owns the lock (`LockHeld`), hence a row enters `scheduled`
    once for each retry it counts, and every instance in memory has its count (`Tried`).
  - Under `Unmoved` and `Answered` (answers arrive and log rows can be written; crashes and gate
    outages are allowed).  `LiveOnce`: a row that is `scheduled`, claimed or failed has nothing at
    its platform that may come live (`TakenOnce`).  `NoneOrphaned`: a worker keeps its row or leaves
    it settled, rescheduled or parked with its id (`Attended`).  `StatusHonest`:
    what a row says of its platform is true (`Told`), and a submission id on a row
    is the last one made, for which only the reconciler waits (`Awaited`); an aggregate of
    `published` or `failed` means that every row has that status (`AggregateIsLeast`).
  - Under no assumption, for every request of the model.  `OnlyRacesSlip`: as long as a row was not
    raced (`Vouched`), its own verdict is of its caption or an edit of it is half way; instances in
    a cycle carry the row's caption and a verdict that fits it, and no edit is half way then; a
    console stamps the caption it asked about; and what the composer has behind it bypasses the gate.
  - `LedgerImplemented`, under no assumption.  `LedgerMoves` says what a step does: it appends a
    submission on a claim and leaves the rows alone, settles one, or schedules at most one row;
    a claim in hand means, by `SubmissionBudget`, that the ledger has room.
  - `OutcomeImplemented`, under `Unmoved` and `Answered`.  The refinement maps a row to whether
    its platform shows it and to what it is called.  `OutcomeKept`: a row that was called
    published or failed is never touched again, and the step that calls it so shows nothing;
    with `LedgerMoves`, a step either shows one row or calls some, never both.
* The lock (section 3).  `LockTypeCorrect`; `HolderKeepsKey`, whose invariant is
  `ttl + elapsed[t] > TTL` for every bounded holder, a sum a tick does not decrease;
  `LockExclusion` from it; `LockRefinement`, that the lock implements `ExclusiveSection`; and
  `TurnsTaken`, that the ticks of `PublishEngine` use the lock as that same section, whatever
  cycles run without it: a tick in its cycle owns `lock` (`TickOwnsLock`).
* `AccountTokens_proofs`: `TypeCorrect`, and `TokenKept`.  `RefreshTokenKept` alone is not
  inductive, since a task that ends must not take the token with it.  The invariant adds that
  tokens only grow newer and a `pending` one is no newer than the one in force (`Ordered`), that
  a task between its stages holds what it read or saved last (`Steady`), and that if this is the
  token in force the row has it too (`Agreed`).
* `Outreach_proofs`: all safety properties of the module, each from an invariant of its own.
  `RepliesMissed`: `MailInv` (a message behind the cursor was triaged or exposed, and one still
  new during a sync is in the batch, triaged or exposed, so that moving the cursor loses nothing
  else).  `StepsStranded`: `StrandInv` (a sequence completed while it is being enrolled is in
  `early`).  `OptOutHonoured`: `OptInv` (emails since the opt-out plus senders past the guard are
  at most the senders).  `CapHeld`: `CapInv` (the counter plus the senders that read it are below
  the cap plus the senders; the emails of a day are counted, uncounted, or out and not yet
  counted).  `StepResolvedOnce`: `JobInv` (a sweep never lists the step it holds) and `BudgetInv`
  (before the mark, the outputs are covered by the cut ones and the sweeps about to mark; after
  it, the outputs plus the sweeps that still list the step by the cut ones and the sweeps).
* `ApiRequests_proofs`: `SlotRefined` shows each step to be a step of `IdempotencySlot` on one key
  or a stutter, from `SlotInv` (a key has at most one worker, and its record is then pending, young
  and without outcome).  `OnePost`: `MadeInv` (`made[k] <= spent[k]` while the slot is free or its
  worker has not created yet).  `HonestReplay`: `NameInv` (what a worker made, a finished record
  names and a replay returned belongs to that key and body).  `BoundedOvershoot`: `QuotaInv` (rows
  admitted plus requests past the check stay below the limit plus the workers).
* `Activation_proofs`: `KeyLive` from `KeyInv`: without overlap the one answer that carries a key
  carries the live one, and nobody rotates beside it.
* `Approvals_proofs`: `TwoApprovals` from `SignInv`: a row that waits for the client has one
  approval, an approved one two, unless it is exempt (`RowSigned`), and what a service holds is a
  row it may move (`JobSound`).  `LinksActedOnce` from `CountInv`: a link's decisions plus the
  requests that hold it are at most the processes (`LinkCounted`); how often a row was published,
  plus the cycles at work on it, plus one if it can be claimed, is at most one more than how
  often it was taken back (`RowCounted`).
* `LivePosts_proofs`: `PostShownOnce` from `OnePlace`, an account: the posts that are shown, plus
  the processes that took one down or claimed the row and may put it up again, plus one if a
  person could schedule the row, never exceed one and the counted events (`Allowance`).
  `ShownOnce` is not inductive without the last two, since an edit takes the post down long
  before it makes the next.  `StrayPostFree` from `Known` (ids are those of posts that were made)
  and `Tidy`: as long as none of the counted events happened, the one post that is shown is the
  row's or the one an edit or a cycle is about to record, that process holds the row in
  `publishing`, and nobody else has the same post in hand (`Order`).
* `Intake_proofs`: `ConditionKept` (the property is inductive once a working sync has a row,
  `Filled`); `DraftsWithinBound` from `DraftsHeld`: until a draft is
  kept, every draft that was asked for is in the hands of the process that got it or was lost
  to a fault; once one is kept nobody starts to ask, and the drafts made together with the
  calls still out stay within one for each process and one for each fault.

Their assumptions are the named `ASSUME` of each module, which TLC evaluates in the runs.

41 theorems in eight modules.  Every safety property and every refinement that a passing run
checks is proved for all values of the constants.  The theorems under `Unmoved`, `Answered` or
`Locked` name in their statement what the code needs for them; the instances of the runs that
check the same properties satisfy it.  Only model-checked are the liveness properties
(`DueSettles`, `ParkedSettles`, `LockComesFree`, `PaidActivationSettles`, `SlotComesFree`,
`DeadTokenNoticed`, `MirrorsSheet`): fairness and ENABLED are out of the prover's reach.

## Not modelled

In publishing: `Post.published_at`, first comments, tagging and ingest calls, the
rate-limit table (nothing fills it), rows added or deleted in the composer (`LivePosts` has the
deletion), the queue,
submission for approval, re-timing by PATCH, scheduling by review token (the same effect as the
composer's), captions overridden per platform, and the roll-back of a whole group when the
log of a gate refusal cannot be written (nothing is committed, so the group is simply due
again).  `SoftTimeLimitExceeded` is seen as a lost answer followed by a crash.

In outreach: `run_no_reply` (it adds a step to a cadence that is over), the OAuth scope guard,
template editing, and notifications.  In the API: the per-minute HTTP limits, media, MCP (the
same operations behind another transport).  In activation: the Stripe checkout and webhooks,
and the reconcile task, which copies the remote status.  In approvals: reminders (no beat entry
calls them), comments, and the reviewer's edits of the text, which clear the gate as
`PublishEngine`'s edits do.

In published posts: comments and analytics on a live post.  In account tokens: the OAuth
redirect, app credentials, and disconnecting, which deletes the row.  In intake: items made by
hand, links to documents, the parsing of channels and the gap scan, which only reports; the
button's sync may queue a draft task there, which in the code only the beat's does.

Organizations, workspaces and members (a deletion timer with a daily sweep, roles, invitations)
and calendar queues (positions rewritten by each request from the list it read) have races of their own,
but they do not meet the protocols above, and are left for models of their own.  So
are notifications: nothing schedules their retry loop.  The other components marked so in
`PROJECT.json` import, export or render data, call a model or a platform, or answer look-ups;
they share no protocol with another process that a model checker could get wrong, and
they make up most of the repository's lines.

## Composition and what could follow

`ApiRequests` takes from publishing only that a scheduled row is taken; `Approvals` and
`LivePosts` take the claim, the outcome and the log entry of a cycle, and leave the gates' verdicts, the
retry limit and parking to `PublishEngine`, which shows what happens inside, and takes a provider call
as one outcome, of which `AccountTokens` shows the refresh and the 401.  `PublishEngine` takes from
`RedisLock` that a running tick keeps the lock.  What remains worth adding: rows added and
deleted by the composer under the engine, `run_no_reply`, tenancy and queues.
