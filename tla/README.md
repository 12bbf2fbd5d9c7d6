# SignPulse: specifications and proofs

SignPulse keeps many Telegram accounts in one Python process: it signs in to
chats on a schedule, watches chats for keywords, downloads and publishes manga,
games and pictures, and reports what goes wrong.  Almost everything runs as
coroutines of one asyncio event loop over state in module dictionaries, plus a
few thread pools and JSON files.  This directory holds TLA+ specifications of
its core, the TLC configurations that check them and TLAPS proofs about them.

    tlc -workers 2 -config run_safety.cfg MCSignTasks       one of the runs
    tlapm ClientLifecycleProofs.tla                         the proofs of a module

`PROJECT.json` is the index: the components and their status, the runs and
their properties, mutated definitions for each property that the run must
reject, the source lines of every definition, the divergences found, the hazards
of the code and the theorems.  Paths below are relative to `src/`.

Contents: 1 Inventory of the system, 2 Modules and how they correspond to the
code, 3 Runs, 4 Bounds, 5 Fairness, 6 Divergences, 7 Proofs, 8 What is not
modelled, 9 Plan.

## 1. Inventory

### How the parts interact

    routes, bot, scheduler --> sign task service --> sign task runner --> engine
                                    |                      |                |
       background jobs -----> account service --> account locks --> shared client
                                    ^                      ^                ^
       interactive logins ----------+     keyword monitor, manga worker ----+
       every service --> alert delivery --> SMTP, Telegram bot

All users of an account share one `Client` object per session key
(`tg_signer/core/client.py`).  The services are meant to take the lock of the
account (`backend/utils/account_locks.py`) around it; each does so in its own
way.  Calls between services are plain awaits; state is shared through module
dictionaries (clients, locks, active runs, statuses) and JSON files (accounts,
tasks, alert state, bot offset).

### Components

**Shared client** (`tg_signer/core/client.py`).
*State*: instance, reference count and `asyncio.Lock` of each key.
*Operations*: `get_client`, `__aenter__`, `__aexit__`, `close_client_by_name`,
`log_out`.  *Hard*: every await inside enter and exit is a place where others
run; a locked session database is retried; connects fail; coroutines are
cancelled; a forced close gives up waiting for the lock after five seconds.
*Correct when*: starts and stops are serialized, the count is exact, nobody's
client is stopped, no lock stays held, everybody gets in and out.

**Account locks and the services that share an account**
(`backend/utils/account_locks.py`; sign runs, keyword monitor, manga worker,
account check).  *State*: one lock per account name, pruned at 500 names.
*Hard*: the lock is held for the whole run, only for start and stop, or not at
all, depending on the service.  *Correct when*: all of them work on one
connected client, up exactly while somebody uses it; a sign run that has given the
lock back still enters the client once more to read the reply.

**Sign task runs** (`backend/services/sign_tasks.py`, `sign_task_runner.py`,
`sign_task_run_status.py`).  *State*: `_active_tasks`, `_run_statuses`,
`_background_run_tasks`, `_active_logs`, pending cleanups, all keyed by account
and task.  *Operations*: start, cancel, the phases of a run, finalize, cleanup
timers, renaming.  *Hard*: the mark is set some steps after the start; several
runs use the same keys; a cancellation lands at any await.  *Correct when*: one
run at a time, the status a client polls is that of the run that executes,
status and history agree, the task is always released.

**Alert delivery** (`backend/services/alerts/`).  *State*: a JSON file with
`in_flight`, `last_sent`, `last_attempt` per rule, fingerprint and channel.
*Operations*: `fire_alert`, called from threads.  *Hard*: the clock is read
outside the transaction; the process may die between reservation and outcome;
one of two channels may fail.  *Correct when*: an event is not delivered twice
at once, not again within the cooldown, and never silenced for good.

**Interactive logins** (`backend/services/telegram/login_phone.py`,
`login_qr.py`).  *State*: login sessions, each holding the account lock between
HTTP requests.  *Hard*: the lock has no owner, sessions expire, requests repeat.
*Correct when*: a session releases only a lock it took, and releases it.
*Hard* also: between `acquire()` and the `try` that releases, a start may raise.

**Account service** (`backend/services/telegram/accounts.py`, `devices.py`,
`avatar_cache.py`).  Check, rename, delete, list; deletion closes the client by
name without the account lock.  *Correct when*: no other service works on a
deleted or renamed account's client.

**Account store** (`backend/utils/tg_session.py`, `atomic_io.py`).
`accounts.json`, loaded, changed and replaced without a lock; a global semaphore
that settings replace.  *Correct when*: no update is lost, no more runs than
the limit.

**Background jobs** (`backend/services/background_job.py`,
`account_status_jobs.py`).  Persisted jobs with progress and cancellation; after
a restart the active ones become failed.  *Correct when*: a job ends once, in
the state its execution had.

**Scheduler** (`backend/scheduler/`).  Cron triggers, delayed one-shot runs,
catch-up after a restart, the primary instance lock.  *Correct when*: a task
runs once a day, never after it was disabled, and is not forgotten.

**Keyword monitor** (`backend/services/keyword_monitor/`).  A long-lived client
with handlers, a watermark of seen messages per chat that is saved every thirty
seconds, sharded rules and continue actions.  *Correct when*: a matching message
is handled once, also around restarts.

**Telegram bot and control plane** (`backend/services/telegram_bot/`,
`control_plane.py`).  Long polling with a persisted offset, a supervisor that
follows the settings, idempotent run requests.  *Correct when*: a command is
executed at most once, one poller runs, and one process comes to poll.

**Sign engine** (`tg_signer/core/signer_runner.py`, `signer_actions.py`,
`signer_matchers.py`).  *State*: the cache of the messages its handlers got, the
snapshot taken before each action, the step it is at, what is done so far.
*Operations*: sending, clicking a button, answering with the help of the AI;
retries of a step and of the flow.  *Hard*: the bot answers in a new message or
by an edit, before or after the engine looks; yesterday's answers are still in
the chat; calls fail without telling whether they took effect; the history can
be unreadable and the handlers may not know the chat.  *Correct when*: no step
is left out or repeated by a retry, an old success does not end the flow, and a
bot that helps is followed to the end.

**Sign task configuration and history** (`backend/services/sign_task_*.py`).
Task files, history files, an index, cache refreshes deferred during batches.
*Correct when*: the cache equals the files when no batch is open.

**Manga sources** (`backend/services/manga/runtime.py`, `ehentai/`, `wnacg/`).
Supervisors of polling workers: start, stop, crash restart by generation,
reload.  *Correct when*: at most one worker per source, none after a stop.

**Manga ingest and publishing** (`backend/services/manga/telegram_worker.py`,
`publisher.py`, `channel_publish.py`, `db.py`).  Downloads, retries and the
progress of outbound chapters in SQLite.  *Correct when*: a chapter is published
once although the process restarts between two parts.

**Job runners** (`manga/hmw/worker.py`, `games/worker.py`, `coser/worker.py`)
and **games automation** (`games/automation.py`).  One job at a time with start
and cancel; a persisted queue on top.  *Correct when*: a cancellation ends the
job it was meant for.

**Smaller parts**: device keepalive, proxy runtime, configuration and backup,
HTTP routes, authentication and rate limiting, caches and memory monitor, AI
tools, the engine's command line, the clients of external services, the
frontend.  They are mostly input and output; the rate limiter, the TTL cache,
the retry policy and the daily time window are pure algorithms worth checking.

The hazards, each at its line, are in `PROJECT.json` with the properties that
watch them.

## 2. Modules

| module | code | role |
|---|---|---|
| `SharedConnection` | what `tg_signer/core/client.py` promises | abstract specification |
| `ClientLifecycle` | `tg_signer/core/client.py` | detailed, implements the above |
| `AccountSharing` | account lock and four services | composes `ClientLifecycle` with the lock |
| `LoginSessions` | `telegram/login_phone.py`, `login_qr.py`, `sessions.py`, `account_locks.py` | logins and runs that share the account locks |
| `SignTaskRun` | `sign_tasks.py`, `sign_task_runner.py`, `sign_task_crud.py` | runs of one task |
| `SignEngine` | `tg_signer/core/signer_runner.py`, `signer_actions.py`, `signer_matchers.py` | the script of one chat against its bot |
| `SignSchedule` | `scheduler/__init__.py`, `sign_catchup.py`, `sign_task_crud.py` | the jobs that start the runs of one task |
| `AlertDelivery` | `alerts/dispatcher.py`, `alerts/config.py` | calls of `fire_alert` |
| `BackgroundJobs` | `background_job.py`, `account_status_jobs.py` | persisted jobs and the account check batch |
| `SourceSupervisor` | `manga/runtime.py` | the supervisor of a polling manga source |
| `BotPolling` | `telegram_bot/runtime.py`, `scheduler/instance_lock.py` | long polling in several processes |
| `KeywordMonitor` | `keyword_monitor/runtime.py` | restart of the handlers, watermark |
| `GamesPipeline` | `games/automation.py`, `games/worker.py`, `games/wordpress.py` | listener, job runner, site |
| `MangaDelivery` | `manga/assembler.py`, `telegram_worker.py`, `publisher.py`, `channel_publish.py` | a discussion thread on its way to the reader |
| `GalleryIngest` | `manga/ehentai/worker.py`, `wnacg/worker.py`, `storage.py` | a gallery on its way to the reader |
| `Subsequences` | | what a comprehension over a list keeps, as a recursive function, for the two above |
| `MC...` | | constants and symmetry for TLC; `MCSignTasks`, `MCSupervision`, `MCPublishing` and `MCServices` put components side by side |
| `...Proofs` | | theorems and their lemmas: `ClientLifecycleProofs`, `AccountSharingProofs`, `LoginSessionsProofs`, `AlertDeliveryProofs`, `SignTasksProofs` (`SignTaskRun`, `SignEngine`), `SupervisionProofs` (`BackgroundJobs`, `SourceSupervisor`), `ServicesProofs` (`SignSchedule`, `BotPolling`, `KeywordMonitor`), `PublishingProofs` (`GamesPipeline`, `GalleryIngest`, `MangaDelivery`) |

An action is the code between two awaits that can really suspend (in
`AlertDelivery`: between two accesses of shared state).  An `asyncio.Lock` that
is free is acquired without suspending, so `Enter` and `Exit` take it in the
same step; a coroutine that finds it held fetches the lock *object* and waits
(`waitsOn`), because the dictionary may get another object in the meantime.
Where the code runs in a thread of the server instead, the steps of the thread
are actions of their own (`CancelReads`, `CancelSets`, `CancelWrites`;
`EditReads`, `EditWrites`).

**ClientLifecycle.**  One session key (keys do not interact).  `instance`,
`refs` and `lock` are the three dictionary entries, `holder` says who holds each
lock object, `connected` and `variant` belong to the Client objects, `using` and
`pc` to the coroutines.  `get_client` is `GetCached`/`GetNew`; `__aenter__` is
`Enter`, `EnterResume` (the lock was held), then `Connect`, `Ready`,
`DatabaseLocked`, `ConnectFails`, `Aborted` while the lock is kept; `__aexit__`
is `Exit`, `ExitUnlocked`, `ExitResume`, `Stopped`; `close_client_by_name` is
`Close`, `CloseResume` (lock obtained or five seconds over), `Closed`.
`Cancel` is a `CancelledError` at any of these awaits: it is not an `Exception`,
so only the `async with` runs.  `StopClient` is `stop()`, which may raise before it
disconnects: pyrogram refuses to stop a client that was never initialized, which
is what a failed `get_me` leaves (`client.py:230-239`), and every caller swallows the
exception (`:286-289`), so an object can be dropped while it is connected.  Out of the
client a coroutine lets go of the object or keeps it (`Part`) and enters it again,
registered or not.  The constant `Faults` says which of failing connects,
cancellation and forced close the environment does.

**SharedConnection** knows members and a link that is down, starting, up or
stopping.  `ClientLifecycle` maps `members` to the coroutines with a reference
and `link` to the operation in progress (`ImplementsSharedConnection`);
`AccountSharing` maps it once more with the *physical* connection of the clients
the account works with (`Live`: the cached object and those somebody uses) instead
(`ConnectionFollowsUsers`), which says that the reference count and reality do not
drift apart.  `ConnectionFollowsUsers` also says that everybody inside has one
connected client (`OneSession`).

**AccountSharing** adds the account lock.  A sign run takes it before it asks
for the client (`SignStart`) and gives it back after its last exit (`SignLeave`);
a timeout or a cancellation cuts it off (`SignCancelled`).  After a success without a
reply its finalizer enters the same object once more *without* the lock, when it
is still connected (`FetchEnter`, `FetchStep`, `FetchTimeout`:
`sign_task_runner.py:419-426`, `sign_tasks.py:309-316`).  The monitor takes the lock to
start and to stop; the manga worker takes it to start only; the account check
gets the client first, then takes the lock and connects without a reference.  The
monitor and the manga worker close a cached client without updates before they
ask for one with them.  They do not await between `get_client` and `__aenter__`
(`Unsuspended`).

Steps outside the account lock do break the sharing (section 6), so the module
records in `strays`, which is not in the code, who has been outside its protection:
whoever starts, stops or waits for the client without the lock while somebody
else holds it or starts, stops or waits as well (`Colliding`, looked for after every
step); who enters an object that is no longer the cached one; who is cut off
while starting or stopping; and an account check that connects. `Orderly` means that
there is none but account checks. `OrderlySharing` promises one connected client,
never stopped under anybody, as long as the services are orderly: clients are
then still replaced, closed by name, left without the lock, and entered again to
read the reply. `ConnectionFollowsUsers` holds as long as `strays` is empty.

**LoginSessions.**  A login takes the account lock in one HTTP request and gives
it back in another one, or in a cleanup.  `table` is the pruned lock table,
`cached` the lock object the sign service keeps per account, `locked` the state
of each lock object, and `holders` (not in the code) who believes to hold it.
Each of the `N` requests is a process: `Start` (`start_login`,
`start_qr_login`) sweeps old sessions (`Sweep`, `Swept`), takes down those of
its account (`PurgeFirst`/`PurgeNext` for phone logins, whose keys are compared
by prefix, `CleanFirst`/`CleanNext` for QR logins), waits for the lock and ends
with `CodeSent`, `QrShown` or a failure.  The proxy, the configuration and the client
are made between `acquire()` and the `try` (`login_phone.py:103-173`,
`login_qr.py:538-592`): `Raises` is an exception there, after which nobody gives the lock
back (`Lost`).  `Verify...` is `verify_login`, `Poll...`
the status request, `Password...` `submit_qr_password`, `CancelQr` the
cancellation, `Expire`/`Expired` the watcher of a QR session, `Scanned` the
update that Telegram sends.

**SignTaskRun.**  One task of one account, which may be renamed once (`Keys` are
the two names).  `ready` is the queue of created background tasks that have not
been stepped: `start_task_run` marks nothing, `Begin` does.  The phases of a run
are its suspension points: account check, waiting for the account lock, working,
settling, and inside `_runner_finalize` fetching the last message and notifying.
`CancelRun` only *requests*: the error arrives with the run's next step
(`CancelUnstarted`, `CancelExecution`, `CancelFinalize`), and what it skips
depends on the phase.  `Publish` is the end of `runner()`, `Record` and `Close`
the end of `_runner_finalize`.  `StatusCleanup` and `LogCleanup` are the delayed
cleanups, `Rename` is `rename_account_references`.

**SignEngine.**  The bot numbers its messages; an edit gives a message its next
version.  `talk` is the chat, `feed` the updates under way, `cache` the engine's
`chat_messages`, `flow` the locals of `sign_a_chat` and of the step it plays:
`before` is `_chat_state_snapshot` at the start of the step, `done` the last
step that ended, `tries` and `attempt` the two levels of retry.  `Preheats` and
`Retries` begin an attempt (`BeginsAttempt`); `SendLooks` to `SendIsDone` are a
text and the wait for a terminal answer, `FindsCached`, `FindsInHistory`,
`FindsNone`, `ClickConfirmed`, `ClickUnconfirmed`, `ClickRaises` a click, `Follow...`
and `LastClickEnds` what `_handle_post_click_followup` makes of it, `Notices`,
`Answers`, `Replied`, `AnswersNot`, `AnswerRaises`, `LooksBack` an answer.
`HandlerGets` is `_on_message`, `BotTalks` a bot that does as it likes and
`BotHelps` one that reacts as the script expects (both external).  `Changed` is
the comparison of two snapshots on which all conclusions rest.  `effects`,
`answered` and `bot.told` are not in the code; they record what Telegram
confirmed and what the bot has said.

**SignSchedule.**  Time is a slot of a day.  `cron` and `shots` are the jobs
APScheduler has for the task, `file` its `config.json`.  `FireCron` is
`_job_run_sign_task`, which puts a range task off to a random moment
(`FireShot`); `Boot` is `sync_jobs` and the catch-up of the start; `EditReads`,
`EditWrites`, `EditSyncs` are a request that edits the task and its background
sync; `RunReads`, `RunEnds` the read-modify-write of `config.json` at the end of
a run.  What a run does is in `SignTaskRun`.

**AlertDelivery.**  Each event is one call of `fire_alert`: `Fire` reads the
clock, `Reserve` is the first transaction (drops stale reservations, checks
cooldown, reservation and backoff of each open channel), `Send` tries a channel,
`Finish` is the second transaction.  Any time may pass before each of them: nothing
bounds the wait for the transaction or the length of a send.  `LockTimeout` and `Crash` lose a call at
any point; the state is on disk and stays.  Rules, settings and overrides enter
as the set of open channels.  `took` and `over` are not in the code: they record when a
call had its first transaction and its end, from which the properties tell which
calls were `Late` (they outlived their reservation) or `Overtaken` (another
transaction worked with an older time than what they had on record).

**BackgroundJobs.**  `status` and `file` are a job in memory and on disk, `place`
its position in the dictionary and `stamp` its creation time, which together are
the order of the history.  `StartCheck` looks at the newest jobs, creates one and
trims; `Begin`, `Tested`, `Paused` are the coroutine; `Cancel...` is
`request_cancel`, in one step or interrupted (`scenario.preempt`);
`ProcessRestarts` covers a shutdown, a crash and the recovery of the files.
Writes of the jobs in `scenario.flaky` may fail.

**SourceSupervisor.**  Requests (`Boot`, `StartSource`, `RequestPass`, `Disable`,
`Reload`) and crash restarts are calls that wait at the database, the catalogue,
the worker's `stop()` or its task; `generation`, `stopping` and `current` are the
fields of the supervisor, `settings` and `saved` its settings in memory and on
disk.  E-Hentai awaits the catalogue in its start, WNACG does not.

**BotPolling.**  `node` is what each process knows: whether it lives, where its
supervisor is, the fingerprint it polls with, the poller and its batch.
`Reconcile`, `Probed`, `ProbeFails` are `_reconcile_locked` around the calls of
the Bot API; `Fetch` and `Handled` are the loop of the poller, which saves the
offset of an update before it handles it; `BootNode` asks for `.scheduler.lock`,
`Quits` and `CrashNode` give it back.  `acked` is what Telegram has dropped
(external).

**KeywordMonitor.**  `Enters`, `Detaches`, `Turns`, `Attaches`, `AttachFails` are
`restart_from_tasks` under `self._lock`, account by account under the account
lock (`busy`: somebody else has it); `Delivers`, `DeliversAgain` are `_on_message`
up to its first wait; `ShutsDown`, `MonitorDies`, `MonitorReturns` end the process
and start the next.  `passed` and `hits` record what happened to each message.

**GamesPipeline.**  The listener's pass is `PassBegins` (reconciling), `Scan`,
`Choose...` and `PassEnds`, `JobReturned` or `JobAborted` when it has waited for a
job; the runner's job is `Pulls` to `Finalizes`; `Cancel`/`CancelReturns`,
`Pull`, `Reload`, `RetryFailed`, `Crash` and `Shutdown` come from outside
(`Disturbances`).  `memory` and `disk` are the state of the listener, `jobFile`
the files of the runner, `articles` and `catalog` the site's articles (external)
and the published catalogue.

**MangaDelivery.**  Four deliverers (watchdog, message handler, sweep, backfill)
may be inside `_on_chapter_ready` for the same thread: `Uploads`, `Stores`,
`Lists`, `Posts`, `Marks`, `Decides`, `Locks`, `Sends`, `Records`, `Fails` are its
stretches between awaits.  `bucket` is the assembler's, `chapter` the database
rows, `site` and `channel` what readers see (external).

**GalleryIngest.**  E-Hentai and WNACG ingest a gallery in the same way; only
E-Hentai has a backfill.  `ingest` holds the locals of each `_ingest_gallery`:
`CountsStored` and `FetchesGallery` are its start, `Downloads`, `TakesNumber` and
`PutsFile` a page, `FlushReads` to `FlushShows` the inner `flush`, `Outbound` to
`RecordsAlbum` the end.  `PassMeets` and `BackfillAsked` are the two ways in;
`ListenerStops` stops the worker under them, and `PassCancelled` ends the pass a
little later, the backfill only when it looks.  `files` is the media store: a
numbered one (FTP, SFTP, S3) may write over a file, an image bed never does.
`shown` is what the site has and `albums` what the channel got (both external).

**MCSignTasks, MCSupervision, MCPublishing, MCServices** instantiate components that share no
state.  Their `part` says which one a behaviour is about; the others keep their
initial state, so that one run checks the components side by side without the
product of their states.  The fairness of a part that is switched off asks
for nothing, as its steps are disabled.

## 3. Runs

A property that is a conjunction of named parts is listed with what its parts
say; each starts with the type invariant where it is an invariant of its module.

| run | instance | checks | distinct states |
|---|---|---|---|
| `lifecycle_faults` | 2 coroutines, all faults, fair | a lock object is held only by a coroutine that connects or stops, so no fault blocks a key for ever (`HeldOnlyByLifecycleOp`); every enter and exit ends (`CallsComplete`) | 60648 |
| `sharing` | a sign run, a monitor, a manga worker and an account check on one client, all faults | orderly services share one connected client and it is not stopped under them (`OrderlySharing`); while nobody strays, one connection, up exactly while used (`ConnectionFollowsUsers`) | 331845 |
| `logins` | 3 requests of any kind and a sign run on one account; QR requests may overlap | one login or run at a time works on the account; a login in a store holds the lock, no lock is orphaned but by a start that raised, and sessions are written under the lock (`LocksFollowLogins`); who waits for the account gets it, unless a start has lost its lock (`AccountBecomesFree`) | 36225 |
| `run_faults` | 2 started runs, a scheduled one, cancelled anywhere, renaming | one run at a time, final status agrees with the history | 22680 |
| `run_safety` | 3 started runs, a scheduled one, cancelled before finalize, fair; or the engine with a script of 2 steps against a moody bot, of 3 against a helpful one | mark = execution, the status tells the run and is no ghost (`StatusTellsTheRun`), a cancelled run leaves no history, the task is released and every status settles (`RunsEnd`). No step repeated by a retry or left out, no stop on an old success (`ScriptIsFollowed`); a helpful bot is followed to the end (`HelpfulBotSucceeds`) | 256789 |
| `alerts` | 3 calls about one event, 2 channels, waits and sends of any length | no double delivery, cooldown and backoff kept, but for calls that were late or overtaken; silence bounded by one TTL after a crash | 4136745 |
| `supervision` | 3 check jobs, one of which may fail to write, a restart, a cancelling thread; or a polling source with 4 requests and crashes | one batch at a time and it is listed (`OneListedCheck`); active means running; an outcome is true, durable and final (`OutcomeStands`); jobs settle. One worker, none after a stop, with the saved settings (`SwitchIsObeyed`); on means served after a crash | 268902 |
| `publishing` | 2 game posts with 2 disturbances; or a manga thread of 2 or 3 pages with overlapping deliveries or mishaps; or a gallery of 3 pages, its pass and 2 backfills with 2 upsets | one article per post; posts neither lost nor taken for published nor tried for ever (`PostsAreKept`). Pages single, site before channel, count true, images kept, album and videos posted once (`PagesAreKept`). Pages of a gallery in their place and never written over, the site shows them, the album is posted once and only after them (`GalleryIsKept`); what counts as processed is complete (`BackfillFillsIn`); posts and chapters settle | 559735 |
| `services` | 2 days of a task with 2 occasions; or 2 processes that poll, with troubles; or a monitor of 2 accounts with upsets; or 3 coroutines at a client with 2 variants, whose connects may fail and stops may raise | one run per day at the time of `config.json` (`DaysAreKept`). Only the lock's owner polls; updates are handled once and not lost (`UpdatesAreKept`); the bot follows its settings (`BotServes`). Each message counts once (`HitsAreExact`); saved rules come to be served. Starts and stops of a client are serialized, its count is exact, it is not stopped under a user, refinement of `SharedConnection` | 212374 |

Three runs expect a violation:

| run | property | what happens |
|---|---|---|
| `cancel_stuck` | `TaskIsReleased` | A run cancelled at an await of `_runner_finalize` (`sign_task_runner.py:627`) never resets `_active_tasks`; later runs of the task are refused until a restart. |
| `sharing_unlocked` | `SharedClient` | A sign run reads the reply without the account lock (`sign_tasks.py:316`). While its last exit awaits `stop()`, a monitor starts under the lock, is handed the cached object and waits; the exit drops that object and the monitor enters it. The next sign run gets a fresh object, which nobody connects since the count is already 1. `client.py:193-195` promises that coroutines can safely share one client. |
| `missing_page` | `NothingLeftOut` | A page that answers 404 is passed over and the next one is stored; a backfill goes on at the *number* of stored pages (`ehentai/worker.py:375`), so it stores the last page twice and never asks for the missing one. The gallery then counts as complete, and every later backfill takes it for a duplicate. |

## 4. Bounds

- `Users` 3 without cancellation and forced close: one that holds the lock, one that
  waits for it, one that comes later. With every fault 2 are enough for a lock that
  is held while it is waited for, popped or given up. With 3 and a forced close,
  `CallsComplete` fails in the model for a reason the code does not have: two
  coroutines hold two locks and connect one object, and while one of them fails and
  tries again for ever the other one's connection goes down and is made again,
  where in the code its next call raises. `AccountSharing` has four.
- `Clients` 2 to 4: an object is reused as soon as nothing refers to it, so the
  bound limits objects alive together. Only a leaked connection keeps one;
  `Spare` stops the steps that can leak one (a `stop()` that raises, a cut, a check
  that connects) when fewer than `Reserve` objects are unused. `Reserve` 1 lets
  them happen as long as one object is left; 4 in `sharing_unlocked` rules them out,
  so that its counterexample has no other cause.
- `sharing` has one service of each kind and `Bounded`: at most one of them has
  strayed and an object is unused. The properties say nothing once a service has
  strayed, and no step takes anybody out of `strays`; an account check, which may
  stray without ending the promise, stays within the bound.
- `Locks` 2: the object in the dictionary and one dropped by a forced close that
  is still waited on. Without forced close one object is ever used.
- `MaxRetries` 2 (code: 5): both branches, retry and give up, occur.
- `Variants` are the settings that make `get_client` replace a cached object.
- `Runs` 3 or 4 with their cancellation phases (`CancelAt`): one executes, one is
  created, one is refused, one is scheduled. Symmetry is left out where liveness
  is checked.
- `SignEngine`: 2 steps are one that succeeded and one that fails, and 3 put each
  kind of step before and after each other; the history is a success of
  yesterday below today's menu, and `Lookback` 2 lets a new message push the
  success out of the window; 2 attempts. A bot that does as it likes posts one
  message and edits one, which is what one step can confuse. A helpful bot says
  as much as the script needs. `HowTheBotIs` pairs the faults: calls that raise or stay
  unconfirmed with a readable history, and an unreadable history without
  handlers and with a step back in retries.
- `LoginSessions`: `N` = 3 requests are a login, a second request about it and a
  login that takes it down. `MaxLocks` 2 with one account keeps the table from
  being pruned (section 6). Two lock objects show a wrong one.
- `AlertDelivery`: 3 calls are what it takes for one to be wrong about another
  while a third interferes. `Cooldown` 2, `Backoff` 1, `TTL` 2
  and `MaxTime` 3, so that every window expires before the clock stops, for late calls
  too. `BothOpen` leaves both channels open to every call; a call with one channel
  does what it does about that one. All keys are one (they interact only by the
  trimming to 512 entries, which `RoomAssumption` rules out).
- `BackgroundJobs`: 3 jobs over a history and a list of 2 (code: 50 and 10), so
  that a job is trimmed and one is not looked at; `Batch` 2 gives an account
  before and one after the pause; one restart. `Second` keeps fewer than
  `ListLimit` jobs in one second, which three jobs reach.
- `SourceSupervisor`: 4 requests (the start, and a start, stop and reload in any
  order after it) and 4 workers; `Room` and `Spare` stop steps that would need a
  fifth.
- `GamesPipeline`: 2 posts (`Backfill` 1, `Window` 2: the first scan skips one,
  later scans see all), 2 tries, 2 disturbances of a set (`Disturbances`), 4 job
  files, of which one that nobody refers to is used again.
- `MangaDelivery`: 3 pages, one a video, `BatchSize` 2, so that a thread has a
  full and a started batch; 2 deliveries at once or 2 mishaps; `MaxAttempts` 2
  (code: 6).
- `GalleryIngest`: 3 pages and `FlushEvery` 2 (code: 10) give a full and a started
  batch; `Weathers` are one ingest at a time with 2 backfills and 2 upsets
  (failures, stops of the listener, restarts), or 2 at a time with one upset.
  Only the weathers of one ingest promise anything about the order of the pages.
- `SignSchedule`: a day has 3 slots, before, in and after the window; 2 days show
  what crosses midnight; 2 occasions of a set.
- `BotPolling`: 2 processes, 2 updates (a batch with a rest), one change of the
  settings, 2 troubles of a set. `KeywordMonitor`: 2 accounts of which one is
  contended, one edit, one message each that may be delivered again, one upset.

The sets `Disturbances`, `Occasions`, `Troubles` and `Upsets` say which kinds
come together in one behaviour; each kind occurs in one of them.

`CHECK_DEADLOCK FALSE` stands where the system stops: all runs, jobs, requests or
posts ended, or the bounded clock ran out.

## 5. Fairness

- `ClientLifecycle`: an `asyncio.Lock` wakes its waiters in order, so a waiter
  gets it although others take it in between: strong fairness of `EnterResume`
  and `ExitResume`. `connect()` and `stop()` return, in some way: weak fairness
  of `OpenStep` and `Stopped`. The wait in `close_client_by_name` ends after
  five seconds. A retry without end is excluded by the code (`MaxRetries`).
  Nothing forces a coroutine to leave.
- `LoginSessions`: handlers go on and watchers expire (weak), waiters of a lock
  get it in their order (strong fairness of `GetsLock`, `RunAcquired`), runs end.
  No user is forced to send a code or confirm a scan, so `AccountBecomesFree`
  excepts an account that always has a login waiting for its user.
- `SignTaskRun`: weak fairness of each run's steps. Each wait of a run has a
  timeout or waits for a lock whose holders release it; at most one run of a
  task waits for the account lock, so strong fairness is not needed.
  Cancellation, cleanup, renaming and new runs are never forced.
- `SignEngine`: the coroutine goes on, as each of its waits has a timeout, and
  updates reach the handlers (weak fairness of `EngineStep` and `HandlerGets`).
  `HelpfulBotSucceeds` is about a bot that answers, so `BotHelps` is fair, and
  `Patient` lets no timeout of the engine end before that answer: how long a bot
  may take is a setting.
- `BackgroundJobs`: weak fairness of each coroutine; a test and a pause have
  timeouts. `SourceSupervisor`: weak fairness of each call and each worker's
  own steps; crashes and requests are not forced.
- `GamesPipeline`: weak fairness of the listener; strong fairness of the runner
  and of choosing, because both are disabled while the loop is elsewhere and a
  pause after a failure lasts an hour at most. `MangaDelivery`: the worker does
  not rest while a delivery can go on or its watchdog, sweep or backfill has work.
- `BotPolling`: supervisor and poller are stepped, the Bot API answers, a minute
  ends. `KeywordMonitor`: sign runs give the account lock back, and a restart
  that waits for it gets its turn among them (strong fairness of `RestartStep`).

## 6. Divergences that need other constants

The runs above are the disagreements worth a run of their own. The following
properties hold in the passing runs and fail when a constant is changed; the
remaining constants are those of the named configuration.

The shared client, runs, the engine and alerts:

| property | change | reason |
|---|---|---|
| `StartStopSerialized` | `lifecycle_faults.cfg` with `Users` and `Locks` of three, `Faults = {"close"}` | a forced close gives up waiting for the lock and pops it (`client.py:484`); the next enter creates another lock while the old holder still works. `client.py:308` explains why the exit must not do so. |
| `SharedClient` | `sharing_unlocked.cfg` with `Users = {m,g}`, `MangaWorkers = {g}`, no sign run, `Faults = {}` | The manga worker leaves without the account lock (`manga/telegram_worker.py:366`). A monitor that starts while `stop()` is awaited keeps the object the exit then drops; the next one to start gets a fresh object that nobody connects, since the count is already 1. |
| `OneConnection` | `sharing_unlocked.cfg` with `Users = {s1,q}`, `StatusChecks = {q}`, no monitor, `Faults = {}`, `Reserve = 1` | the account check connects the object it got before it had the lock (`accounts.py:525`) |
| `SharedClient` | `sharing_unlocked.cfg` with `Users = {s1,s2}`, `SignRuns = {s1,s2}`, no monitor, `Faults = {"cancel"}`, `Reserve = 1` | a `CancelledError` at the connect is not caught by `except Exception` (`client.py:258`): the count stays at 1 |
| `Cancellable` | `run_faults.cfg` with `Runs = {r1,r2}`, nothing scheduled, `CancelAt = {}`, `Renames = FALSE` | Two `start_task_run` before the first runner is stepped: the refused one pops the handle of the key (`sign_tasks.py:1202`) and the run that executes cannot be cancelled. |
| `CancelledLeavesNoHistory` | the same with `CancelAt` = all seven phases | cancelled while notifying, the run has its history entry and the status says cancelled (`sign_task_runner.py:723`) |
| `NoGhostRunning` | the same with `CancelAt = {"created"}` | a task cancelled before its first step runs no handler and its status says running for ever (`sign_tasks.py:1163`) |
| `NoGhostRunning` | the same with `CancelAt = {}`, `Renames = TRUE` | the entries move while the run goes on with the key it captured (`sign_task_crud.py:444`) |
| `StopIsEarned` | without its condition on `unreadable` | the snapshot before an action can miss the history while the one after it has it, so that the unchanged success of yesterday counts as new and the flow ends early; the docstring of `_maybe_stop_after_send` (`signer_matchers.py:592`) says that an unchanged one does not count |
| `NothingSkipped` | `Conditions` with an unreadable history and unconfirmed clicks, without its condition on `unreadable` | the same: an unconfirmed click takes an old message for the bot's reaction |
| `DoneOnce` | without its condition on `backoff` | `SIGN_TASK_RETRY_BACKOFF_STEPS` asks for steps to be repeated |
| `OneDelivery` | without its condition on `Overtaken` | `reserved_at` is read before the lock of the transaction (`alerts/dispatcher.py:211`). A call that stamps first and reserves second sees the other's reservation in its future, takes it for stale and delivers the same event at the same time. |
| `OneDelivery` | without its condition on `Late` | nothing bounds a send (SMTP timeouts bound each socket operation only): a delivery that takes longer than the TTL is no longer protected |
| `Spaced` | without its condition on `Disturbed` | the same two: an outcome is recorded with a time that a later transaction takes for the future or writes back |

Logins (`logins.cfg`):

| property | change | reason |
|---|---|---|
| `NoOrphanLock`, `AccountIsExclusive` | `Overlaps <- PhoneMayOverlap` | requests about one phone login overlap: `start_login` pops the keys it collected before its awaits (`login_phone.py:91`, `:99`), a login that was registered meanwhile among them, and its lock stays held; a second verification releases a lock that is no longer its own (`:287`) |
| `AccountIsExclusive` | two accounts, `MaxLocks = 1` | the pruning drops an unlocked object that a service still refers to (`account_locks.py:22`): two locks for one account |
| `LiveSessionHoldsLock` | accounts `"a"` and `"b"` | a start loops over the dictionary while another one changes it: `RuntimeError` after the lock was given back and before the login was dropped (`login_phone.py:86`) |
| `LiveSessionHoldsLock` | accounts `"a"` and `"a_b"`, `StartsWith <- PrefixKeys` | the logins of the account are found by the prefix of their key, so a start for `a` takes the lock of `a_b` |
| `NoOrphanLock`, `AccountBecomesFree` | without their exception of `Lost` | the client of a login is made after `acquire()` and before the `try` (`login_phone.py:103`, `:173`; `login_qr.py:538`, `:592`): a proxy with an unusable port (`utils/proxy.py:30`), a missing configuration or a constructor that raises leaves the lock of the account held until the process restarts |
| `WritesUnderLock` (of `LocksFollowLogins`) | without its condition `overlap = {}` | a poll that is answered after the session was cancelled writes it without the lock (`login_qr.py:408`) |

Background work:

| property | change | reason |
|---|---|---|
| `ActiveIsRunning`, `FinalIsFinal`, `OutcomeIsDurable` | without their condition on `preempt` | the thread that cancels tests the status, then sets it (`background_job.py:224`): a job that ended in between is `canceling` for ever, and no batch can be started until the restart |
| `ActiveIsRunning` | `WriteFaults` with `"create"`, without its condition on it | a job whose first write fails is in the dictionary and has no coroutine |
| `OneCheck`, `RunningCheckIsListed` | `StartCheck` without `Second` | more jobs in one second than the list looks at, or a clock set back: the running one is not among the newest ten |
| `NoStrayWorker` | E-Hentai with overlapping requests | `start_ehentai` awaits the catalogue between its test and the creation of the worker (`manga/runtime.py:281`) |
| `OffMeansOff` | E-Hentai with crashes | a restart that waits for the catalogue is overtaken by a stop and creates its worker after it (`manga/runtime.py:333`) |
| `OffMeansOff`, `WorkerHasSettings`, `OnMeansServed` | WNACG without the condition on `overlap` | a request that opens the database works with what it read before the other one |
| `ListenerStays` | `publishing.cfg`, as it is | cancelling a job cancels the wait for it, and the listener's task ends with that error (`games/automation.py:546`); posts wait until a reload |
| `NoPostIsLost` | `Window = 1`, `Backfill = 0` | more new posts than a scan reads: the cursor passes the older ones (`games/automation.py:389`) |
| `OneArticle` | `LookupFails = TRUE` | an error of the search for the slug counts as "not found" (`games/wordpress.py:93`) |
| `SiteCountIsTrue`, `ImagesKept` | without `atOnce = 1`, `[pages 3, atOnce 2, mishaps 0]` | of two requests to the site the shorter lands last; a delivery whose pages the unique key refuses drops them (`manga/telegram_worker.py:1532`, `:1588`) |
| `PagesInPlace`, `ProcessedIsOut` | without `OneIngest` | a backfill, or the pass and a backfill, work on the same gallery: both go on at the same page and store it, workers with a store each give two pages the same number, and one shows the site a chapter that the other has made longer (`ehentai/worker.py:375`, `storage.py:472`) |
| `NoPageTwice` | without `~edits` | an edited message is taken for a new page |

Scheduled and long-lived services (`services.cfg`):

| property | change | reason |
|---|---|---|
| `OncePerDay` | without the exception of edits and runs by hand | the one-shot job of a task that was disabled, moved or already run by hand still fires (`scheduler/__init__.py:143`) |
| `WindowIsServed` | without the exception of late runs | a run that ends after midnight marks the next day as done |
| `WindowIsServed` | a window from slot 2 to 0, or from 1 to 1 | after midnight the window of the evening before is open (`sign_catchup.py:62`), and the job of the new day comes only in the evening: no run is due in between |
| `OncePerDay` | `Slots = 4`, a window from slot 2 to 1 | a catch-up run of the morning part is still at work when the evening's cron job fires, finds no mark of the day and puts off a second run |
| `CronFollowsFile` | `Occasions` with `{"edit","manual","overlap"}`, without its condition on it | the end of a run writes back the `config.json` it read before an edit (`sign_task_history_ops.py:651`) |
| `StandbyTakesOver` | any instance with two processes | `main.py:497` says that secondaries can take over; `try_acquire_scheduler_lock` is only called when a process starts (`scheduler/__init__.py:595`), so after the owner's end nobody polls or schedules |
| `HitOnce` | no allowance for crashes and failed writes | the watermark is written every thirty seconds: what was handled since is handled again |

`PostedOnce` grants one repetition per mishap, and `TriesAreBounded` one more try
per disturbance: a restart between the post and its record cannot be told from
one before the post.

## 7. Proofs

TLC checks the instances above; the theorems hold for any number of coroutines,
clients, locks, runs, events, jobs, requests, workers, processes, updates, accounts,
messages, posts and pages, and any times. Every safety property the passing runs
check, invariant or action property, is the conclusion of a theorem, some under
conditions that are named with it and that section 6 shows to be needed.

`ClientLifecycleProofs`, from `LifecycleAssumption`:
- `TypeCorrect` and `HeldOnly` hold under every fault.
- `StartStop` assumes `"close" \notin Faults` (section 6 shows why). The
  property is not inductive: two coroutines could hold two lock objects.
  `SingleLock` says that everybody waits for the object of the dictionary,
  `OperationsHold` that whoever connects or stops holds what it fetched.
- `RefsCount`, `NeverStopped` and `Implements` assume `Faults \subseteq {"fatal"}`:
  a cancelled enter does leave its count behind. They need `Alone`: while a
  coroutine connects or stops, nobody else has a reference. `Implements` shows
  that each action is a step of `SharedConnection` or a stutter.

`AccountSharingProofs`, from `SharingAssumption` and `LifecycleAssumption`, on top
of the lemmas of `ClientLifecycleProofs`:
- `OrderlyServices` (`OrderlySharing`) has no hypothesis: any services, any faults. What
  section 6 shows to break the sharing is what `strays` records, and the property
  promises nothing after it. Its parts are `ClientIsShared` and `SharedIsNeverStopped`.
- Neither is inductive. `StraysGrow` reduces both to steps in which nobody has strayed
  yet and nobody does. `Discipline` says where each kind of service may be
  without and with the account lock; it makes the holder of that lock alone in
  everything but being inside. Hence a client is closed by name, and a sign run
  waits to enter, only while nobody refers to the client (`QuietCloses`), whoever
  has just got a client got the cached one (`JustGot`), all who refer to a client
  refer to the same one (`OneClient`), and it is connected under them (`LiveInside`).
- `SharingImplements` (`ConnectionFollowsUsers`) is the refinement in terms of the
  connection itself, not of the count, and has no hypothesis either. It needs in
  addition that the cached client is connected only while somebody refers to it or
  stops it, which an account check that connects ends; it is then in `strays`.

`LoginSessionsProofs`, for any number of requests and sign runs of one account
(`OneAccount`) whose requests about a phone login come one after the other
(`PhoneOneByOne`); requests about QR logins may overlap. Section 6 shows that two
accounts and overlapping phone requests do disturb each other.
- `LoginsAreExclusive` (`AccountIsExclusive`): a lock without an owner is passed
  from the request that opens a login to the store, and on to the watcher, sweep or
  request that takes it down. `Owns` lists these places. `OneLock` says that
  everybody means the object of the table, `Accounted` that the holders the model
  keeps beside the lock are exactly the owners, of which there is one, and `Once`
  that a login is taken down in one place only, so that nobody releases twice.
- `LocksFollow` (`LocksFollowLogins`) adds `QrAlone`: without overlapping requests a
  login that is being asked about stays in its store, so it is written under the lock.

`SignTasksProofs`, the runs, from `RunAssumption`:
- `TypeCorrect`, and `OneRun` under every cancellation and renaming. The
  invariant adds `Marked`: a run that executes under the present name of the
  account is marked, and before the renaming there is no other name.
- `ActiveIsExecuting` and `StatusFollows` assume that the account keeps its name
  and that no run is cancelled while it finalizes; `cancel_stuck` and section 6
  show why. Every step of a run is classified by what it does to the entries of
  its own key (`Effect`: it enters, goes on, quits or stays out), and each class
  preserves both properties because only one run executes. `Asked` keeps a
  cancellation that was asked for in an allowed phase from arriving in another.
- `HistoryAgrees` (the status that is final agrees with the history) holds under
  every cancellation and renaming, `CancelledIsClean` (a cancelled run has no
  history entry) as long as nobody is cancelled while notifying, and `StatusTells`
  as long as the account keeps its name and nobody is cancelled before the first
  step or while finalizing. `Writes` says what a run's step does to its history
  and to a status; `Told`, that a final status belongs to a run that has ended and
  that the history is what the phases say; `Shown`, that a run under way is shown.

`SignTasksProofs`, the engine, from `EngineAssumption`, for any script, any bot and
all conditions:
- `EngineFollowsScript` is `ScriptIsFollowed`. Each action is one of seven kinds
  (`Kinds`: the bot talks, a handler gets an update, the flow looks, moves, is
  confirmed, begins an attempt, ends a step). `Paced` relates the step to what is
  done, so that a confirmation finds a step without an effect (`Once`) and a step
  that ends has all before it done (`Covered`).
- What a comparison of snapshots is worth needs two more: `Seen`, the snapshot
  describes the chat until the bot reacts, so a change is a reaction and a step
  that ends unconfirmed was answered; and `OldSuccess`, until the bot says so
  success stands only in messages the snapshot has, also when the window of the
  history moves (`Window`), so a new success was said since the flow began.

`AlertDeliveryProofs`, from `AlertAssumption`: `TypeCorrect`; `Exclusive` and
`Spacing` (`OneDelivery`, `Spaced`) for waits and sends of any length, crashes and lock
timeouts, without further hypotheses: their exceptions are in the properties and
name the call that was late or overtaken.  For `Exclusive`, `Guarded` says that
a call that delivers undisturbed owns what it reserved, by token and by time, hence
its reservation is active and suppresses every other call. For `Spacing` the books are
followed as long as no call about the event was disturbed (`Calm`): the last attempt on
record is at least as new as every call that was tried (`Known`), while a call is busy
every other attempt is older (`Newest`), so that no `Finish` moves a time back, a busy
call began after every outcome (`Later`) and a call tried after one keeps its distance
(`Apart`), and each ended call's outcome or a later one is recorded (`Recorded`).
`NeverSilencedForGood` (`BoundedSilence`) assumes only `Backoff <= TTL`, hence
holds with late transactions and crashes too: whatever is on record about a slot
has an `Origin`, the call that was sent, failed or reserved it, and as what calls
have done is never taken back (`Lasting`) it remains the reason why another was
suppressed. A recorded attempt may be a mere reservation; it silences for the
backoff, 60 seconds in the code, which must lie within the 300 of the TTL.

`SupervisionProofs`, the jobs, from `JobsAssumption`, with any failing writes,
restarts and cancellations:
- `OutcomesStand`: a job that is not created has no trace (`Untouched`); it is not
  completed, in memory or on disk, before its last account nor once asked to stop
  (`Truthful`); and unless a cancellation is interrupted the file says completed
  or canceled only of jobs that are so (`Durable`), which is what a restart needs.
- `BatchesTakeTurns` (`OneListedCheck`) assumes `MaxHistory >= ListLimit`, 50 and 10
  in the code. Creation times follow the order of creation (`InOrder`), and a batch
  that runs is the last created: only jobs of its second can precede it in the
  list, and these are fewer than `ListLimit` (`Watched`), so the list shows it and
  the trimming keeps it (`LastIsNewest`).
- `ActiveJobsRun` (`ActiveIsRunning`) has the conditions of section 6: the first
  write does not fail and the cancelling thread is not interrupted.

`SupervisionProofs`, the sources, from `SupervisorAssumption`: `SwitchObeyed`
(`SwitchIsObeyed`) assumes that all `Circumstances` are `Sound`: E-Hentai, whose start
waits between its look at the worker and the creation of one, has neither
overlapping requests nor crashes (section 6 shows what happens otherwise); WNACG may
have both.
- `WorkersKnown` and `CallKnown` give the one worker that nobody has told to stop:
  a worker is created only when there is none, and whoever takes one out tells it.
- `Order`, for requests that do not overlap, is about the generation: a worker with
  the present one was created since the last stop or reload, so the database is
  open and the source on (`Generations`), and a restart that waits has the
  generation of its worker (`RestartWaits`). A restart with the present generation
  therefore finds no request under way and the settings in memory as they are on
  disk. `RequestAt` says what a request has done by each of its waits.

`ServicesProofs`, the schedule, from `ScheduleAssumption`, for any length of a day,
any plans, edits, restarts and late runs:
- `CronFollows` (`CronFollowsFile`) needs no condition: `CronInv` says that the end of
  a run that has read the file writes back the schedule the file has, as no edit
  overlaps with it.
- `DaysKept` (`DaysAreKept`) assumes that windows end on the day they begin
  (`WithinDay`); section 6 shows why. `OnceRuns` relates the mark in the file, the
  run under way, the one-shot jobs and what the day has had: today is used when it
  has its run, and then nothing is due and no job waits. `WindowInv` says that
  while a window is open its day has a job in time, is due or is used.

`ServicesProofs`, the bot, from `PollingAssumption`, under every trouble:
- Every action is classified by what it does to one process (`Quiet`, `Ended`,
  `Started`, `TakenFirst`, `TakenNext`, `Finished`), so each invariant is shown
  for six kinds of step instead of fourteen actions.
- `PollsWithLock`: `Claimed` says that a process that polls *or probes* holds the
  lock, which is what makes `OnlyOwnerPolls` inductive: a process gives the lock
  back only when its supervisor has ended.
- `HandledAtMostOnce`: `Once` and `Untouched` say that the file and the poller
  agree on the offset and nothing from it on has been handled.
- `UpdatesKept`: `Sound` says that a batch has no gaps, `Counted` that the updates
  behind the offset that are neither finished nor at work are no more than the
  handlings that were cut off.

`ServicesProofs`, the monitor, from `MonitorAssumption`, under every upset:
- `KeyServed`: `Arranged` says where a restart is, and what it has done by then.
- `HitsExact`: `Watermark` relates the three copies of what was seen. In memory
  it is never behind the file; what is at or below it was handled, what is above
  it was handled at most as often as a crash or failed write excuses (`Excuse`).

`PublishingProofs`, from `GamesAssumption`, `GalleryAssumption` and
`MangaAssumption`, one inductive invariant per pipeline:
- Games: `ItemKept` holds of every post in memory and on disk alike, which is what
  makes it survive a restart: an item is done only if its article is there, a job
  that published has an article for the post it works on, and each try an item may
  still get leaves it within the limit and the disturbances (`TriedAgain`). So
  `GamesTellTheTruth` holds whatever the site answers. `PostsKept` (`PostsAreKept`)
  assumes that the search for an article does not fail (`~LookupFails`, for
  `OneArticle`) and that a scan sees all posts (`MaxPosts <= Window`, for
  `NoPostIsLost`); section 6 shows both. The limit of tries is at least one, as
  the settings clamp it (`games/config.py:237`, `:520`).
- Galleries: `GalleryShape` is what an ingest knows whatever the others do: its batch
  and the list it read are of stored files, and what the site shows is stored.
  `GalleryAlone`, where ingests come one by one, says that its batch is new, the site
  shows a prefix of the rows, and every album beyond the first has its upset.
  `GalleryPlaced`, where no page is missing either, puts page `k` in row `k`.
  `GalleryKept` (`GalleryIsKept`) and `BackfillComplete` (`BackfillFillsIn`) have no
  hypothesis: their conditions are those of the properties.
- Manga: `MangaShape` says that a delivery has read a prefix of what is stored,
  `MangaPosts` that one delivery posts at a time and plans only what is not recorded,
  `MangaAlone`, where deliveries do not overlap, that the count of the site is true
  and that no image is dropped. `MangaPagesKept` (`PagesAreKept`) has no hypothesis.
- The lists of files and images are comprehensions over sequences (`Keeping`,
  `InOrder`), recursive functions in the model. What they return is proved by
  looking at the least position at which it would be wrong
  (`LeastCounterexample`, from the well-foundedness of `<` on the naturals).

Only model-checked:
- the liveness properties `CallsComplete`, `RunsEnd`, `HelpfulBotSucceeds`,
  `AccountBecomesFree`, `JobSettles`, `OnMeansServed`, `PostSettles`, `ChapterSettles`,
  `BotServes` and `RulesAreServed`: they rest on fairness, hence on `ENABLED`, which
  the proof system does not handle;
- the three violations, `TaskIsReleased`, `SharedClient` and `NothingLeftOut`, and those
  of section 6;
- the composition of parts in `MCSignTasks`, `MCSupervision`, `MCPublishing` and
  `MCServices`, which is only a way to run them together: they share no state.

## 8. What is not modelled

Left out of the modelled parts:
- `ClientLifecycle`: the in-memory session key, `log_out`, `_ensure_app_ready`
  and the flood-wait wrapper of the calls made while inside.
- `AccountSharing`: avatars and device sessions (`accounts.py:290`, `:357`), the refresh of
  a task's chats, which gets the client before it takes the lock and enters it
  under the lock (`sign_task_chats.py:393`), the downloads of HMW
  (`hmw/telegram_zip.py:108`) and the monitor's continue actions, which hold the lock
  while they work (`continue_actions.py:1129`), and the deletion of an account,
  which closes its client by name without the lock (`accounts.py:683`; the forced
  close is a fault of `ClientLifecycle`). A service's retry after a failed start
  is a new start. An entry of a coroutine that is already inside (a sign run's calls
  while it runs) only counts up and down again and is left out.
- `LoginSessions`: the credentials, the content of a session file, and the
  renaming of an account with a login in progress.
- `SignTaskRun`: the cooldown, the global semaphore, the deferral of cache
  refreshes (`sign_tasks.py:251`) and the work itself, whose result is success,
  failure or timeout; the retry policy is one verdict.
- `SignEngine`: topics, the choice of several options in one picture (a click may
  succeed for some and fail for others), the trimming of the cache at 200
  messages, other bots of the chat, the loops over chats and days, and how texts
  are classified: a text is a menu, a question or a success.
- `SignSchedule`: other jobs (maintenance, backup, keepalive), the deletion of a
  task, tasks of all accounts, listen mode, and the jobs of a second process,
  which the scheduler lock of `BotPolling` excludes.
- `AlertDelivery`: how a rule is chosen and edited, the journal of recent alerts
  and the trimming to 512 keys (`alerts/config.py:141`). The clock is monotone; a
  wall clock set back makes every window look inactive.
- `BackgroundJobs`: logs and summaries.
- `SourceSupervisor`: a start that is refused because the settings are invalid,
  and the Telegram worker's start and stop, which have no crash restart.
- `BotPolling`: commands and menus, and `delete_webhook`, which drops pending
  updates on request.
- `KeywordMonitor`: matching and what a hit does; messages that arrive out of
  order, of which those below the watermark are dropped (`runtime.py:440`);
  `stop()` of a shutdown while a restart is at work, which it does not wait for.
- `GamesPipeline`: several channels, `scan_now`, manual publication, pruning,
  deferred uploads and errors of the finalization.
- `GalleryIngest`: the limit of pages, several galleries in one pass, searches
  and the waits between them, the links from one page to the next
  (`prefer_showpage_url`), the choice among several directories of an album, and
  a site or channel that is not configured. A failed channel post is tried
  again only by an ingest that stores something: a complete gallery counts as a
  duplicate first, and the sweep of `MangaDelivery` looks for chapters of
  threads only.
- `MangaDelivery`: which messages are accepted and how thread roots are found,
  albums without a thread, telegraph posts, the times between retries, and the
  end of a worker.

Not modelled at all, with the reason for each, are the components with that
status in `PROJECT.json`. Most are input and output: external clients, archives,
settings files, the frontend. Three have
state worth a model and none yet:
- `accounts.json` (`tg_session.py:115`) is loaded, changed and replaced without a
  lock, in one thread between two awaits, so only its use from server threads
  can lose an update;
- the runners of HMW and coser have the shape of the games runner; HMW awaits
  `_progress`, a plain function (`hmw/worker.py:223`), so that a job fails there;
- the rate limiter, the TTL cache and the retry policy are sequential.

## 9. Plan

| step | module | properties |
|---|---|---|
| done | `SharedConnection`, `ClientLifecycle`, `AccountSharing`, `SignTaskRun`, `AlertDelivery` | sections 3 and 7 |
| done | `LoginSessions`, `BackgroundJobs`, `SourceSupervisor`, `SignEngine`, `SignSchedule`, `BotPolling`, `KeywordMonitor`, `GamesPipeline`, `MangaDelivery`, `GalleryIngest` | sections 3 and 7 |
| next | account deletion and renaming over `LoginSessions` and `AccountSharing` | no other service works on a deleted account |
| then | `AccountStore`, `HistoryIndex` | no lost update; the cache equals the files when no batch is open |
| then | rate limiter, TTL cache, retry policy, daily window | equal to a reference definition |

Theorems to come: those of the modules above, and `DaysKept` for windows that span
midnight once the property says which day a run after midnight belongs to.
