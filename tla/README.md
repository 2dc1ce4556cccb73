# staffNinja in TLA+

staffNinja is a Discord bot for the staff of a convention: one asyncio process
(`src/bot/main.py`) that answers slash commands, watches channels, keeps two
counter channels up to date, forwards its log to a channel, and runs background
jobs from a PostgreSQL table that other bots may share. This directory holds TLA+
modules for the parts of it that have state and concurrency, TLC configurations that
check them on small instances, and TLAPS proofs of what matters most for every
instance. `PROJECT.json` lists the components, the runs, what each definition stands
for in the source, and the hazards the properties were chosen for.

To run everything, in this directory:

    tlc -workers 2 -config QueueFleet.cfg MCJobQueue.tla     (and so on, see "Runs")
    tlapm JobQueueProofs.tla                                 (and so on, see "Proofs")

## 1. Inventory

| component | state it keeps | operations | hard behaviour |
|---|---|---|---|
| job queue (`src/jobs/queue.py`, `worker.py`, `scheduler.py`, migration 001) | table `staffninja_jobs`; in each process a worker task and a reaper task | enqueue, claim_next, mark_completed, mark_failed, reap_stale_jobs, start, stop | several processes on one table; statements whose effect or answer is lost; handlers slower than the stale timeout; a process that stops in mid-job |
| database backup (`src/jobs/builtin_handlers.py`) | two processes, three pipes, two coroutines, one file | handle_database_backup | five actors that block one another; errors that are swallowed; cancellation |
| backup rotation (same file) | the backup directory, over months | _rotate_backups | partial files under valid names; the turn of the month; unlink errors |
| account linking (`src/services/staffninja_service.py`, `src/bot/cogs/staffninja.py`) | `pending_link_challenges`, column `"Discord"` of the site's `"User"` table | link, verify | commands of the same or of other users interleave at each await; mail and UPDATE fail or lose their answer |
| job payload (`src/jobs/models.py`, `builtin_handlers.py`) | column `payload`, its text, `Job.payload` | enqueue, from_record, ping, log_message | a value that changes its type on its way |
| chat monitor, policy command, AI provider (`src/bot/cogs/chat_monitor.py`, `staffninja.py:245-505`, `src/ai/ollama.py`) | two cooldown dictionaries, a semaphore, the executor's queue and threads | on_message, policy, complete | many messages and commands in flight; one timeout over waiting and answering; threads that outlive it; a second caller without the semaphore |
| statistics channels (`src/bot/main.py:158-300`) | the guild's categories and channels | ensure_staff_stats_channels | overlapping runs, each deciding on what it saw before an await |
| debug log (`src/bot/main.py:30-155`) | a bounded queue, a forwarder task, a channel | emit, ensure_debug_log_forwarding, the forwarder loop, _split_log_message | overlapping callers in create_text_channel; a deleted channel; errors in mid-record |
| command sync (`src/bot/main.py:331-399`) | the tree in memory, Discord's two published sets, `sync_lock` | sync_app_commands | two requests that fail separately; restarts with another configuration |
| mailing lists (`src/bot/cogs/mailing_lists.py`, `src/services/google_groups_service.py`) | a view per user, Google's membership | mailinglist, _on_subscribe, _on_unsubscribe | callbacks that overlap, calls in threads, administrators |
| document search (`src/services/document_search_service.py`, `src/db/queries.py`) | none between calls; a table that others change | search_documents, extract_relevant_sections | two stages with awaits between, lookups that raise, window arithmetic |
| database pool (`src/db/connection.py`) | one global pool | connect, fetch, execute, close | several first callers |
| lifecycle (`src/bot/main.py:402-480`) | `job_scheduler`, `periodic_resync_task` | on_ready, on_resumed, the periodic loop | events that overlap; a failure in the middle of on_ready |
| reports, agent framework, stub cogs, settings, logging, scripts | none, or constants | | see "Not modelled" |

How they interact. `on_ready` starts the job scheduler (worker and reaper), the debug
log, the statistics channels and the command sync, and then the periodic loop that
repeats the last three; `on_resumed` repeats them too. These three parts therefore
always have several callers. The worker calls the backup handler through the registry
of `src/jobs/handlers.py`; a backup is enqueued by a daily task or by the jobs command.
The chat monitor and the policy command call the document search and the AI provider.
Everything that touches PostgreSQL goes through the pool. Log records of every part end
in the debug log's queue. The components share no other mutable state, which is why the
modules can be checked apart: each has the others as its environment (a call that may
raise, a caller that may come at any time).

What makes each component correct, in a sentence:

* **job queue**: no attempt is executed twice, nothing is executed by two workers
  unless its timeout passed, nothing is given up with retries left or retried without,
  and every job ends;
* **backup**: a success means a whole dump, a failure leaves no file that passes for a
  backup, and the handler ends;
* **rotation**: the newest backups, and one for every month of the window, are there;
* **account linking**: only the reader of an account's mail is linked to it, success is
  true, a code can neither be guessed without limit nor used twice;
* **job payload**: a handler gets what was enqueued;
* **chat monitor and policy command**: cooldowns hold between messages that overlap, the
  limit on inferences holds, nothing is asked that nobody waits for, every question ends;
* **statistics channels**: overlapping runs do bounded harm and the loop repairs it;
* **debug log**: no record is posted twice or out of order or stays queued, and
  cutting a record loses no text;
* **command sync**: the guild has the enabled commands and nobody else has any;
* **lifecycle and pool**: one worker, one reaper, one loop and few pools, however events
  overlap; a bot that is ready gets its commands;
* **mailing lists**: a success is real, protected and hidden groups are out of reach,
  the message shows what is so;
* **document search**: a match that some answer had is returned, and first, whatever else
  fails; every place a term occurs at is shown.

## 2. Modules

| module | models | composed by |
|---|---|---|
| `RetryQueue` | abstract: what a client of the queue may rely on | `JobQueue` (`Contract`, a refinement with the same `status` and `attempt`) |
| `JobQueue` | the table, and in each process the worker and the reaper | `MCJobQueue`, `JobQueueProofs` |
| `JobPayload` | a payload from enqueue to its handler | |
| `BackupJob` | one run of the backup handler; implements `BackupRotation` (`Directory`) | `MCBackup`, `BackupProofs` |
| `BackupRotation` | the directory over many runs, as whole actions | `BackupJob`, `MCBackup`, `BackupProofs` |
| `AccountLink` | challenges, commands in flight, the mail, the UPDATE | `MCAccountLink`, `MCCommands`, `CommandsProofs` |
| `ChatMonitor` | one coroutine per message and policy command, cooldowns, semaphore, executor | `MCChatMonitor`, `ChatMonitorProofs` |
| `StatsChannels` | runs of ensure_staff_stats_channels on one guild | `MCStatsChannels`, `StatsChannelsProofs` |
| `DebugLog` | the handler's queue, the callers, the forwarders | `MCDebugLog`, `DebugLogProofs` |
| `LogSplit` | `_split_log_message`, a turn of its loop a step | `MCDebugLog`, `DebugLogProofs` |
| `CommandSync` | the steps of sync_app_commands: the tree, Discord's copy, the lock | `Startup` |
| `Startup` | on_ready, on_resumed, the loop and the pool, around `CommandSync` | `StartupProofs` |
| `MailingList` | a view, its callbacks, Google | `MCMailingList`, `MCCommands`, `CommandsProofs` |
| `DocumentSearch` | the stages of search_documents | `MCDocumentSearch`, `MCCommands`, `SearchProofs` |
| `Snippets` | the loop of extract_relevant_sections | `MCCommands`, `SearchProofs` |

The grain is the same everywhere. Code of one coroutine between two awaits is one step,
because nothing else runs there; each await is a place where all others may step. A call
to PostgreSQL, Discord, Google, SMTP or the file system is one step at which it takes
effect, and where it may raise there are two failures: before its effect, or after it
with the answer lost. Variables and operators bear the names of the code; where the code
tests something subtle, the test is an operator of its own, and next to it stands, under
a name that says what is wrong with it (`LockedNever`, `RetriesRemainOffByOne`), the bug
that a property has to notice. Nothing uses these definitions.

* **JobQueue.** `status`, `attempt`, `createdAt` are columns; `stale` is the set of rows
  with `started_at < NOW() - timeout`, and `Age` lets time pass. `pc`, `job`, `held` are
  the worker: `held` is the `Job` that `RETURNING *` gave it. The claim is two steps,
  `ClaimLock` (the subselect locks a row, `SKIP LOCKED` passes locked ones over) and
  `ClaimCommit`. `mark_failed` is two statements with a decision between
  (`ReadAttempt`, then `Requeue` or `GiveUp`), as are the two of the reaper.
  `MarkFailedRaises` ends the worker's task in a live process, which is what
  `_loop` does. `Stop` and `Start` are processes; what a worker was about stays.
* **BackupJob.** The dump is a number of chunks, a pipe the number it holds. The handler's
  `gather`, the reading of stderr afterwards, the swallowed errors of both coroutines,
  each exit and its unlink, and `Record` (what the worker makes of it) are actions.
  `toWarn` is what pg_dump has yet to write to its stderr, any number up to `Warnings`.
* **BackupRotation.** A file is the time in its name. `Finish` rotates as the code does,
  by `Daily` and `Monthly`; `Kill` leaves a partial file, which the code cannot tell from
  a backup. One run of `BackupJob` is shown to be one run of it: `Directory` maps the
  file, the handler at work and the success to `files`, `running` and `whole`.
* **JobPayload.** A value of Python is its type and the keys of the object it stands for.
  `Fetched` is the driver: `enqueue` passes text and casts it, and nothing in `src/` sets
  a codec, so that text comes back.
* **AccountLink.** A code is the challenge it was drawn for. What a user may type is
  `Known`: what is in the mail the user reads, or a guess. The history variable `told`
  is the answer the user read last.
* **ChatMonitor.** `Accept` is `on_message` up to its first await: check and stamp.
  `Timeout` is `wait_for` cancelling `_run_inference` wherever it is; a request that is
  still `queued` in the executor is cancelled with it, a thread in `requests` lives on.
  A member of `Policies` is a use of the policy command, which shares search, executor,
  timeout and reply with the messages, and neither cooldowns nor semaphore.
* **StatsChannels.** The code's order: counters, category, purge of duplicates per
  counter, then find, create, rename or migrate per counter, with a step for each call.
  `VoiceFound` compares as the code does, so that a legacy channel is found only if its
  name happens to be normalized. What a call does to the guild is an operator of its own
  (`MakeChannel`, `Rename` and the like), which the action takes, and which `Raise` may take
  as well before it gives up (`Unanswered`). `Leftover` is what the purge is there for: a
  counter may have duplicates at the start.
* **DebugLog / LogSplit.** `Ask`, `Make`, `Made` are the parts of `create_text_channel`
  as seen by the caller and by the guild (the gateway may announce a channel before the
  response). A record is its position in the log, cut into `Chunks[r]` parts; `LogSplit`
  is how it is cut.
* **CommandSync.** `global` and `local` are the tree's two sets, `offered` what Discord
  has published; `Boot` is a new process with any `DISABLED_COMMANDS`. The module has the
  steps only; who takes them is in `Startup`.
* **Startup.** A member of `Events` is a task of on_ready or on_resumed, `at` is where it
  is: the two statements of the migration ("table", "index"), the scheduler, the sync, the
  upkeep (debug log and statistics, which keep their errors to themselves), the loop. Each
  call to the database may first make the pool (`Ask`, `Connected`), and may raise. The
  actions of `CommandSync` are conjuncts of this module's.
* **MailingList.** `known` is `is_member` of the view's list, `shown` the message. A
  callback asks for one group after the other (`Ask`, `Serve`, `Resume`). A request that
  is refused (`Refuse`) or that ends the callback (`Break`) may have taken effect.
* **DocumentSearch / Snippets.** A document is its marks; `TopOf` is Python's sort and
  slice with any order among equals. The order of the two lookups is a set's order.
  `MCDocumentSearch` keeps the matches that answers have had (`seen`).

## 3. Runs

Eight runs pass and four show a violation. Each property of a passing run has a mutant: a
plausible bug put in the place of one definition, under which the same run must fail.

Three runs put machines that share no variable into one module: `Backup` has
`BackupRotation` beside `BackupJob`, `DebugLog` has `LogSplit` beside it, and `Commands` has
what stands behind `/staffninja`: `AccountLink`, `MailingList`, `DocumentSearch` and
`Snippets`. A behaviour there is one of one machine with the others at rest, so that the
state spaces add and do not multiply.

### QueueFleet (`MCJobQueue`, `Spec`)
Two bots, two rows (one with two attempts, one with `max_retries = 0`), every call may
raise, one stop of a process. *OneExecutionPerAttempt*, *ExclusiveUntilStale*: two
workers are on one row only for different attempts, and only after it was stale.
*FailedOnlyWhenExhausted*: mark_failed's late decision and the reaper never fail a job
early. *RetryOverrunBounded*: with several bots the decision can be late the other way,
and a job may be started more often than `max_retries`, but at most once more for each
further bot. Two bots and two rows are enough for each race (a claim for the same row, a
claim against a reaper, a report for a row that was reaped and claimed again); the retry
limit of two gives a first, a last and an excess attempt.
The type invariants are no property of any run. They are theorems (`TypeCorrect` and the
like) or parts of a proved invariant, as in `DebugLogProofs`.

### QueueSolo (`MCJobQueue`, `FairSpec`)
The deployment the repository describes: one bot, three rows (one of a type without
handler), faults, one stop. *FirstAttemptsInOrder*, *CompletedIsFinal*,
*ImplementsContract* (every step is one of `RetryQueue`), *OrphansLeaveRunning*,
*JobsEndWhileWorkerLives*. The acknowledgement of mark_completed is not lost in this run:
if it is, a completed job is run again, as it must be in any such queue.

### QueueDeadWorker (`MCJobQueue`, violation of *EveryJobEnds*)
`worker.py:3-4` promises that pending jobs are dispatched and marked
completed or failed, but `_loop` guards only `claim_next`: a `mark_failed` that raises
(`worker.py:79`) ends the worker's task, nothing starts it again, and pending jobs wait
until the process restarts. The run has no process stop and all fairness below; it is a
lasso, not a deadlock.

### Payload (`JobPayload`, violation of *PingsAnswered*)
`docs/JOB_QUEUE_GUIDE.md:53-56` has ping echo the payload it was enqueued with. The row's
payload comes back as text (see `Fetched`), `from_record` (`models.py:41`) takes a text
that is not empty as it is, even that of `{}`, and `{"pong": True, **payload}` raises; after three
attempts the job is failed. The same holds of log_message and the backup, whose payloads
are asked with `get`. The tests call the handlers with a dict and `from_record` with a dict.

### Backup (`MCBackup`, `MCSpec`)
One run: *SuccessIsComplete*, *FailureLeavesNoFile*, *EveryBackupEnds*,
*ImplementsRotation*. Four chunks and pipes of one make every pipe fill and empty several
times; up to two warnings are one more than the stderr pipe holds. Where the code falls
short, the properties say how far:

* A write that raises is swallowed, and the run may still end as a success with a
  truncated file (`builtin_handlers.py:206`): while gzip and a pipe can take the rest, no
  process notices. *SuccessIsComplete* bounds what can be missing, by that write and what a
  pipe holds; a longer rest blocks gzip instead.
* A run that never ends is one that a full pipe holds up for ever. `Unread` lists the
  three pipes that can be left without a reader: gzip's stdout after a write error, pg_dump's
  stdout after `pipe_to_gzip` ended on a dead gzip, and stderr, which is read only after
  `gather` (216). *EveryBackupEnds* says that nothing else keeps a run from returning.

*ImplementsRotation* says that whatever the handler's two coroutines, its two processes
and a cancellation do, the directory sees one run that begins and is completed, cleaned up
or abandoned.

Beside it, the months: one worker, three months of three possible backups each, two daily and
two monthly files kept, runs that fail, are killed or skip rotation, unlinks that fail.
*MonthCovered*, *NewestKept*, *LatestWholeSurvives*. Three months let one leave a window of two;
three backups a month exceed what is kept daily. The properties count a partial file as what the
code takes it for: it can displace a month's whole backup (`builtin_handlers.py:92`), and the
properties say how far that goes. *NewestKept* counts the workers, since a rotation takes the
file of another worker's run, which may still fail, for a backup; with two workers in one
directory the other two fail.

### Commands (`MCCommands`, `MCSpec`)
Linking: two users, two accounts, two codes, two commands at a time, two attempts, expiry,
the staff site, a restart. *LinkedByMailboxReader*, *SuccessIsTrue*,
*UsedChallengeIsForgotten*. Two of each gives every pair: one user with two challenges,
two users for one account, two commands on one challenge.

Mailing lists: three groups (open, protected, leadership), a user who does not lead, two
callbacks, each fault, one act of an administrator. *SuccessIsReal*, *ShownIsCurrent*,
*OutOfReach*. The history variable `done` says what Google did; `alone` says that no two
callbacks overlapped and that groups changed only where Google said so. With overlapping
callbacks the message can stay wrong (`mailing_lists.py:100`), and so it can after an error
that hides a change, which is why *ShownIsCurrent* is limited to `alone`.

Search: three documents of any marks, of which two are read and returned, two lookups that
may raise, one deletion. *MatchIsAnswered*: a match that some answer had comes back, at
the head of the result, whatever the other lookup ranks it or raises. Two limits of two
below three documents make both stages leave one out. Passages: every text of up to
fourteen characters with three terms, in windows of six: *EveryPlaceShown*. Six is the
least size at which half, third and the rest of the window are all different.

### ChatAnswers (`MCChatMonitor`, `FairSpec`)
Four messages, so that two share a channel, two an author and one is an injection, and a
policy command; one slot, two threads; a clock of four units with cooldowns of two and
one. *AcceptedSpaced*, *InferencesWithinLimit*, *OnlyTheAwaitedBegin*,
*EveryQuestionEnds*. With one slot a question waits behind another and both may time out;
with two threads the requests of two that gave up keep the pool from a third.

### Stats (`MCStatsChannels`, `FairSpec`)
Two runs at a time, both counters, with and without a category, legacy voice channels, a
counter with no channel or with three, one exception (before or after its call took
effect), one change of a counter. *DuplicatesBounded*, *LastChannelSurvives*,
*EventuallySettled*. A creation whose answer is lost adds no channel to the bound: the run
that made it ends, and the next one finds what it made.

### DebugLog (`MCDebugLog`, `MCSpec`)
`on_ready` and the loop, four records (two of two chunks, one of a library), a queue of two, two
faults (a call that raises, a missing guild or permission, a deleted channel). *PostedOnce*,
*PostedInOrder*, *QueueDrains*. Three channels are enough for two faults, since each further
channel needs a deletion or an overlap. Beside it every message of up to nine characters with
newlines anywhere, cut in parts of three: *PartsFit*, *NothingLost*. Nine is three parts, with
every run of newlines at and across each cut. That no part is empty (*PartsFit*) is also why the
loop ends, each turn taking a character at least.

### Startup (`Startup`, `StartFairSpec`)
Two events, the loop, one other caller of the database, one command that may be enabled or
disabled, and two faults: calls that raise, or restarts with another configuration.
*GuildOffersEnabled*: once a sync has completed, the guild offers what is enabled and
nothing is offered elsewhere, whatever fails or overlaps later. *OneOfEach*: overlapping
on_ready tasks start one scheduler and one loop. *LeakBounded*: callers that find no pool
each make one, all but the last being lost (`connection.py:38`), and this is as bad as it
gets. *UpOnceMigrated*: failures behind the migration never keep the loop from starting
nor the commands from being published. Two events are enough for each race of two
handlers; two faults for a failure and the restart after it.

### StartupSync (`Startup`, violation of *SyncedOnStartup*)
`src/README.md:27` has the commands synced on startup. on_ready awaits its migration first
and nothing catches what that raises (`main.py:417`): the task ends, with neither worker
nor sync nor loop, and only a new ready event, which Discord does not owe the process, makes
up for it. One event and one fault; all fairness below. The debug log and the statistics
are not started either.

### SearchNoMatch (`DocumentSearch`, violation of *EmptyWhenNoneMatch*)
`document_search_service.py:129`: "Returns an empty list when no documents match." The
first stage's query has no condition but the category (`queries.py:168`), so that every
document is a candidate, with rank 0 if it matches nothing, and the best of them are
returned. The replies for no match (`chat_monitor.py:302-311`, `staffninja.py:310-314`) are
sent only when every lookup raises or the categories asked for are empty; by the same token
the fallback is tried then only. Two documents, of which one is returned.

### Stopping
`CHECK_DEADLOCK FALSE` stands where the system really stops: a backup returns or hangs, a
search ends, the clock and the messages of a run are used up.

## 4. Fairness

* **JobQueue**: a worker task that can step does (the event loop runs it) and a handler
  ends; time passes; a stopped process is started again (the service is supervised, see
  `src/docs`). A claim and the reaper's statements are repeated by the code after every
  failure, and the database does not fail for ever: these are strongly fair. Nothing says
  that mark_failed must succeed, since the code does not repeat it.
* **BackupJob**: both processes and all tasks run; no process has to die or be cancelled.
* **ChatMonitor**: the loop runs what is ready, calls to the database and to Discord end,
  and the timer fires. The model never has to answer, nor a thread to be free.
* **StatsChannels, DebugLog, Startup**: the periodic loop comes back, Discord and the
  database answer each call with success or an error, and tasks run. In `Startup` Discord
  says "ready" at least once to every process, and a task's turn at `sync_lock` is strongly
  fair, for it competes for `asyncio.Lock`, whose queue is fair. Resumes and further ready
  events need not happen.
* **AccountLink, BackupRotation, MailingList, DocumentSearch, JobPayload**: safety only. Users
  need not act.

## 5. Proofs

TLAPS checks the following for every value of the constants under the modules' named
assumptions (which TLC evaluates in the runs). Where a property is not inductive, the
strengthening was first checked by TLC as an invariant of the run.

* **JobQueueProofs**: `TypeCorrect`, `NoDoubleExecution`, `GivesUpOnlyWhenExhausted`,
  `CompletesOnlyHandledJobs`, `ExclusionUntilTimeout`, `OverrunIsBounded`: any rows, bots,
  faults, stops (finitely many bots, for the last).
  `Base` is the type invariant with "a worker that is about a row has one". Each theorem
  adds its own strengthening on `Base`. *OneExecutionPerAttempt* is not inductive, for
  nothing in it keeps a second claim from reaching the same attempt: one needs that a
  worker's copy `held` is never beyond the row's counter, that a holder's copy of a
  running row's current attempt is alone, and that a row being claimed is locked by one
  worker and pending. *FailedOnlyWhenExhausted* needs what mark_failed decided
  ("exhausting" means the counter had reached the limit, and it never falls).
  *RetryOverrunBounded* counts: a row's attempts beyond its budget are at most the bots
  that have used up their one late decision (`OverrunInv`), because a bot that decides late
  (`Requeuing`) has read a count within the budget and is about no other row meanwhile.
  For one bot (`OneBot`; any number of restarts and faults) also `SoloBudget`,
  `SoloRequeue`, `SoloImplementsContract`, `SoloFirstAttemptsInOrder`, and
  `SoloCompletedIsFinal` (no lost answer of mark_completed). With one bot nobody changes
  the row between mark_failed's two statements; `SoloInv` says so. A job that has not begun
  is pending with the time of its INSERT, so that the claim, which takes the oldest pending
  row, passes over none (`OlderStarted`). The refinement maps `status` and `attempt` to
  themselves; each action is a step of `RetryQueue` or a stutter.
* **CommandsProofs**. Linking: `TypeCorrect`, `LinkedByReader`, `SuccessStaysTrue`,
  `AttemptsLeft`, `UsedIsForgotten`, `LinksStay`. One invariant carries all: a challenge is
  drawn before it is mailed, pending or worked on; until it is stored it belongs to one
  command; no two users have the same one pending; who passed the check of the code reads
  the account's mail. Mailing lists: `SuccessWasReal`, `MessageIsCurrent`,
  `NothingOutOfReach`. What a callback has yet to ask is within the user's reach
  (`WithinReach`), and an answer on its way was so at Google when it was given
  (`AnswerIsReal`). *ShownIsCurrent* speaks of a callback that has edited its message;
  before that, the view's list is Google's but for the one group whose answer is on its
  way (`NotesCurrent`). Alone, only the callback that is being served changes a group
  (`OneServed`).
* **ChatMonitorProofs**: `TypeCorrect`, `CooldownsHold`, `LimitHolds`, `NoWaiterLost`,
  `PoolServesTheAwaited`. The stamps cover the acceptances they stand for (`StampsCover`);
  lemmas about sequences say what joining, letting in and cancelling do to the semaphore's
  queue.
* **BackupProofs**. One run: `RunTypeCorrect`, `SuccessHoldsWholeDump`, `FailureCleansUp`,
  `RunImplementsRotation` (the initial states map to initial states, each step to a step or a
  stutter). Chunks are conserved along the pipes (`Conserved`) but for the one that a write may
  lose (`LostOne`), and each actor ends only after those before it (`EndsInOrder`); that the
  coroutines and pipes hold no more than they may follows from who is reading
  (`BuffersBounded`). The directory: `DirTypeCorrect` and `NewestAreKept`, for any number of
  workers. A rotation that deletes a file keeps `DailyKeep` newer ones; of these only the files
  of the other workers' runs, one each (`RunsApart`), can still be lost (`NoneAboveDeleted`),
  which is why *NewestKept* counts workers. For one worker (`OneWorker`) also
  `NewestBackupSurvives` and `EveryMonthCovered`: the run that ends is about the newest file.
* **StatsChannelsProofs**: `TypeCorrect`, `DuplicatesAreBounded`, `LastChannelStays`. Both
  properties rest on one fact: the first channel of a counter is never deleted
  (`FirstStands`), since what a run deletes lies behind another channel (`FirstSpared`). So
  a run that finds no channel has found that there never was one, and
  `CategoriesBounded` and `ChannelsBounded` count the runs that have found this and have
  not created theirs, together with those created; where channels were left from before, no
  run finds none and their number stays.
* **DebugLogProofs**: `NothingPostedTwice`, `PostsInLogOrder`. A record is in the queue or
  in the hands of one forwarder (`HeldOnce`), and what is posted of it are the chunks that
  forwarder has sent (`PostsBehind`); a forwarder that is the only one stands between what
  its channel shows and what the queue has (`OneBehind`). The cutting: `EveryPartFits`,
  `CutsLoseNothing`. What remains is the message from some place on, and the parts hold the
  characters before it (`CutSomewhere`). That `lstrip` and `rfind`, which `LogSplit` defines
  by least and greatest elements, find what they should rests on the
  naturals being well-founded.
* **StartupProofs**: `StartTypeCorrect`, `GuildOffers`, `NothingOutside`, `OneOfEachHolds`,
  `LeakIsBounded`. *GuildOffersEnabled* is not inductive: a sync could start from a right offer
  with a wrong tree. `TreeOK` says what the tree can be, `PublishOK` what a caller knows between
  its two requests. *LeakBounded* counts the callers that have made a pool or are connecting:
  each of them found none, and the loop starts after a call of another has come back.
* **SearchProofs**. Passages: `SnippetTypeCorrect`, `WindowsHold`, `PlacesShown`,
  `PassagesGoOn`, from the arithmetic of halves and thirds (`Thirds`) and from what the
  loop knows of the places it has visited. The stages: `OneAnswerIsEnough`. What an answer
  marked keeps a positive score (`SeenScores`) and what has one by its rank is a match
  (`RankedMatch`), so that it is among those read unless all of these match (`SeenRead`). The
  documents found that are gone are no more than the deletions (`GoneCounted`), so that with
  fewer deletions than documents read one of them is still there to be returned.

Two assumptions deserve a word. `OneBot` is the deployment of `src/docs`; with several
bots the theorems about the budget are false, which `RetryOverrunBounded` measures.
`OneWorker` is the same deployment; with two bots that rotate one directory
*LatestWholeSurvives* and *MonthCovered* are false, and what still holds of it is
`NewestAreKept`.

Only model-checked are the liveness properties, since fairness and `ENABLED` are beyond the
prover: *OrphansLeaveRunning*, *JobsEndWhileWorkerLives*, *EveryBackupEnds*,
*EveryQuestionEnds*, *EventuallySettled*, *QueueDrains* and *UpOnceMigrated*. Every other
property of a passing run is the statement of a theorem. `JobPayload` has one run, which
shows a violation, and no theorem.

## 6. What the models show that no run is about

Found while translating, each at its line. They need no interleaving, or are outside of
what a document of the repository promises, so that no violation run claims them.

* `queue.py:66`: a handler slower than the stale timeout marks a job completed that the
  reaper has failed (`queue.py:153`); `RetryQueue` allows it ("at most completes late").
* `queue.py:89`: with two bots the retry decision can be late; see *RetryOverrunBounded*.
* `cogs/staffninja.py:132`: verify removes whatever challenge is stored by then, a newer
  one included; the user has to ask again.
* `staffninja_service.py:185`: after an UPDATE whose answer was lost, the next try is
  refused although the user is linked.
* `chat_monitor.py:284`: the cooldown is stamped when a question is accepted, also when
  its answer fails, while lines 14-15 speak of it as one after an answer. At boot, a
  monotonic clock below the cooldown makes the first questions wait (257).
* `builtin_handlers.py:228`: a failed backup is a returned value and so a completed job,
  while `JOB_QUEUE_GUIDE.md:42` has failures retried. Line 276: an error of the rotation
  deletes a whole backup. Line 175: a gzip that cannot be spawned leaves pg_dump running.
* `builtin_handlers.py:90`: the window counts calendar months, the current one included.
* `main.py:216`, `230`: legacy voice channels are compared with a normalized name that
  Discord does not give voice channels, so that they are rarely found.
* `main.py:141`: overlapping callers may create two debug channels; 115-117, 128: one that
  is deleted is not created again, since the forwarder never ends.
* `main.py:57`: records of other threads reach an asyncio queue without a lock;
  `main.py:454`: a task that nobody holds; `main.py:51`: a record with the wrong number of
  arguments (`cogs/staffninja.py:374`) raises inside the handler.
* `mailing_lists.py:57`: menus of more than 25 options are refused by Discord.
  `google_groups_service.py:78` reads the first 200 groups only; 39 shares one client
  between threads; 127 converts only HttpError, against `SERVICE_LAYER_GUIDE.md:44`.
* `document_search_service.py:98`: lower-casing may shift positions; `Snippets` takes the
  text as it is. `DocumentSearch` has what else the search does with a document that does
  not match, in the run `SearchNoMatch`.

## 7. Abstractions and bounds

* Payloads, results, texts, embeds, names and formats are left out unless a property is
  about them. The payload of a job is in `JobPayload` and left out of `JobQueue`, where a
  handler may raise at any time.
* In `Startup` the debug log and the statistics are one call to the database, for what
  matters there is that they end and keep their errors; two faults bound the calls that
  raise and the restarts together.
* `ChatMonitor` leaves open which queued request a thread takes next, since other work
  shares the executor, and the policy command's texts and ranking are outcomes.
* A statement delayed past the restart of its process is not modelled (PostgreSQL ends
  the session's transaction).
* The staff site's `"User"` table is documented as read-only to the bot
  (`ARCHITECTURE.md:20-21`) although `update_user_discord_link` writes it; `AccountLink`
  models the write. Two challenges with the same digits are not modelled.
* The bot's cache of the guild is up to date in `StatsChannels`; edits of one message are
  applied in the order they are made in `MailingList`.
* `DocumentSearch` counts hits in the category with those in the title.
* `createdAt` in `JobQueue` is the order of the INSERT steps. `created_at DEFAULT NOW()` is
  the start of a transaction, which two overlapping enqueues could commit the other way
  round.
* In `AccountLink` the staff site fills the column of an account that has none. That an
  administrator links an account anew at a user's wish (`staffninja_service.py:143`) is not
  modelled; *SuccessIsTrue* speaks of links that nobody takes away.
* Bounds: `MaxStops`, `MaxRestarts`, `MaxTime`, `MaxChanges`, `MaxFaults`, `MaxRecords`,
  `MaxLength`, `MaxTerms`, `MaxRank`, `MaxHits`, `MaxDeletions`, `Warnings`, `Leftover` and
  the size of `Channels` are bounds of the model; all other constants are parameters of the
  code, taken small. Symmetry is used for bots in `QueueFleet` and for codes and documents in
  `Commands`: safety runs whose constants are interchangeable.

## 8. Not modelled

* **the rest of the lifecycle**: the timer that enqueues the daily backup (one sleep and an
  enqueue whose errors are caught), the permission and guild checks before a command, and
  shutdown's own steps. `JobQueue` has a stop of the worker at any point.
* **texts of the chat monitor and the policy command**: the heuristics for questions and
  injections, ranking, prompt, links and truncation are pure functions of strings.
* **the registry of AI providers**: filled on the first call and constant after it.
* **reports** (profile, server, events, jobs): SELECTs for one reply.
* **agent framework, org tools, reminders, staff status**: skeletons without state.
* **settings, logging set-up, quotes, scripts**: constants and one-off tools.

## 9. Plan

Done, in this order: the queue with its contract and proofs; the backup handler and the
rotation; account linking; the chat monitor; the statistics channels; the debug log; the
command sync; mailing lists; document search; then `JobPayload`, `Startup` (lifecycle and
pool around the command sync), the policy command and the executor in `ChatMonitor`, the
refinement of `BackupRotation` by `BackupJob`, and the proofs about the overrun, the order
of first attempts, the finality of completion and the daily backups; then the proofs about
the statistics channels, the mailing lists, the debug log and its cutting, the stages of
the search, the type invariants of the backup and the start, and the daily backups of
several workers.

Next: the composition of `JobQueue` with `BackupJob` (a killed run, reaped and run again
while its file is there), and what two workers in one directory leave of the months.
