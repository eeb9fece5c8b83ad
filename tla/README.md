# Verification of telegram_media_downloader

TLA+ modules, TLC configurations and TLAPS proofs about the concurrent and
persistent core of the downloader: how channels are scanned and indexed, how package
downloads are queued, admitted to the disk, run, interrupted and recovered, how links
given to the Web console and the bot become downloads, and how the configuration
survives a crash. Paths are relative to `src/`.

## 1. The system and its parts

One process runs an asyncio event loop with Pyrogram clients (the user's client,
a management bot and an optional resource bot), a Flask web console in threads
of its own, and a few SQLite and YAML files.

| component | files | state it keeps | operations |
|---|---|---|---|
| Disk-space admission | `module/download_admission.py`, `_package_reservation_bytes` of the channel library service | deque of waiting requests, requested and reserved bytes | compute the size of a reservation, acquire, release, notify_space_changed |
| Telegram activity gate | `module/telegram_activity.py` | counters of registered, active and waiting downloads, whether a scan is active | register/activate/release an intent, acquire/release a scan permit |
| Channel store | `module/channel_library_store.py` (SQLite) | libraries, scan jobs, media messages, packages, download batches and their packages | one transaction per method |
| Channel library service | `module/channel_library_service.py`, `module/package_download.py`, `module/download_stat.py` | asyncio tasks per batch, slots, retained reservations, one-shot auto-retry set | create/dispatch/run/cancel/retry batches, startup recovery, graceful stop, scans |
| Scans and package index | `module/channel_library_store.py`, `channel_library_service.py`, `comment_workflow.py` | scan jobs with checkpoints, failed ranges, repair targets, stored messages, packages with their fingerprints | queue, claim, read a range, pause, resume, stop, repair, publish the index, select packages |
| Web task store | `module/task_state.py` (second SQLite file) | task rows and file rows with a transition table | ensure, update, reconcile, retry, complete, clear |
| Web console: link tasks | `module/web.py`, `download_stat.py`, `download_entry.py` | pending previews and prescans, the prescan slot, nodes that scan or download | submit a link, select or delete packages, confirm, cancel, clear |
| Management bot | `module/bot.py`, `download_entry.py`, `pyrogram_extension.py` | prescan sessions, previews under tokens, `task_node`, the counter of task numbers | prescan and package links, buttons, confirm, /stop, sweep of finished nodes |
| File lifecycle | `module/download_queue.py`, `download_lifecycle.py`, `download_transfer.py`, `progress_persistence.py` | queue, worker state, progress samples | enqueue, work, transfer with retries, upload |
| Configuration | `module/app.py`, `config_persistence.py` | two YAML files, journal and staged files; positions and retries of the chats | update_config, paired commit, recovery |
| Resource delivery | `module/resource_delivery.py`, `resource_bot_store.py`, `resource_bot.py` (third SQLite file) | activation keys, users, bindings, delivery jobs, staging manifests | redeem, revoke, bind, enqueue, process a job, recover; no longer started by `BotManager.start` |
| Bootstrap and health | `media_downloader.py`, `download_runtime.py`, `application_bootstrap.py`, `runtime_health.py` | runtime phase file | start, stop, health probe |
| MCP, filter, cloud drive, Telegram extensions, utilities | `module/mcp_server.py`, `filter.py`, `cloud_drive.py`, `pyrogram_extension.py`, `utils/` | none of their own | see section 5 |

How they interact. A Web or MCP request creates a batch in the channel store and
a task row in the task store: two databases, two commits, linked by an outbox
column (`dispatch_status`). The request then submits a command to the loop, which
starts one asyncio task per batch behind a semaphore of slots. The task takes the
packages one by one: it refetches the messages under a permit of the activity
gate, reserves disk space, queues the files to the workers, and writes what
became of the package to the channel store. When a run ends, its callback decides
whether the batch is retried. At startup the service infers from both databases
what an earlier process left behind.

A scheduler task of the same service claims scan jobs, reads message ranges under
a scan permit of the gate, stores the messages with the checkpoint in one
transaction, and publishes the package index, which must not touch packages that
are being downloaded. Links go another way: a Web thread or a handler of the bot
hands a scan coroutine to the loop, the preview waits in memory for its user, and
a confirmation hands over a coroutine that downloads the packages through the
same queue and the same task rows.

What is hard in it:

* interleavings on the loop: every `await` lets commands, callbacks and other
  batches in, and state read before it is used after it;
* Web threads and the loop write the same rows; each method is one transaction,
  a handler is several;
* crashes and shutdowns between any two commits, with recovery by inference;
* cancellation at every `await` (user, timeout, shutdown), with clean-up that
  must not be cancelled or repeated;
* waiting in three places (slots, gate, disk), each with its own rule of
  fairness.

What makes each component correct:

* *admission*: nothing is left behind by a cancelled call; admitted bytes fit
  (but for what failed uploads leave on the disk, section 6); the queue moves;
* *gate*: counters agree with the permits; a scan is alone; downloads go first
  and scans are not forgotten;
* *store*: a package is leased to one batch; batch, attempt and package rows tell
  one story;
* *outbox*: the two databases end in agreement; a batch that was committed ends;
  what completed stays completed; a cancellation is not undone by a restart;
* *file lifecycle*: rows that say a file exists are right, counters count each
  file once, the result of a package comes after its work, permits return;
* *scans*: no message is skipped unless a failed range says so; a ready library holds
  what its mode asks for and is indexed (but for what a failed full revisit left unread, and for the index
  after the retry of a failed repair, section 6); a failed range can be repaired; every scan ends;
* *index*: an offered package is a true package of the channel; the index of a
  finished scan is the plan of one pass (both but for stale anchors, section 6); what was selected is what is downloaded;
* *configuration*: both files are of one generation after recovery; a message to
  be retried stays until it is downloaded;
* *link tasks*: no row and no slot is left behind by requests that race; a batch of
  packages is not over between two of them, and can be stopped there.

`PROJECT.json` lists the hazards at their lines.

## 2. The modules

```
ActivityPriority  <--implements--  TelegramActivity    <-- TelegramActivity_proofs
PackageLease      <--implements--  ChannelStore
                                        ^ EXTENDS, implements
                                   ChannelOutbox       <-- ChannelOutbox_proofs (of both)
PairRegister      <--implements--  ConfigPair
                                        ^ EXTENDS, implements
                                   ChatHistory         <-- ChatHistory_proofs (of both)
ScanStore  <--EXTENDS--  ScanRunner                    <-- ScanRunner_proofs
TaskRuns   <--EXTENDS--  WebTasks, BotTasks  <--EXTENDS--  LinkTasks <-- LinkTasks_proofs
FileLifecycle                                          <-- FileLifecycle_proofs
DiskAdmission                                          <-- DiskAdmission_proofs
PackageIndex                                           <-- PackageIndex_proofs
```

**DiskAdmission** models `DiskSpaceAdmission`. Each critical section of the class
has no `await` in it, so one turn of the loop of `acquire()` is one action
(`Turn`: fail, wait as over capacity, wait, or be admitted). `_wait_for_change`
is the state `"parked"`; `_notify_all` and the poll timer make it `"ready"`. The
grace period is a three-valued timer. Bytes are units; the disk is a number.
`Reservation` is what the service asks for: the size of all files or, for a package of
`Streams`, whose files are deleted when they are uploaded, that of the window of files
the workers can have in hand at a time (`_package_reservation_bytes`). Nothing ties
what a package writes to what it reserved: it downloads its `left` bytes, and each worker has
one file in hand (`Write`, of at most `Largest` bytes) until its lifecycle ends. Then the file is gone, uploaded or as
a failed attempt (`LeavesDisk`), or it stays (`Keep`): as part of the package (`stored`) when nothing is
deleted, and as `kept` when it should have been deleted and its upload, or the deletion, failed. What is
kept goes when it is uploaded later or cleaned up (`KeptGoes`). Deletions of other files (`Reclaim`) and
writers without a reservation (`ForeignWrite`) are the rest of the disk. A package releases
its reservation when it likes, with bytes unwritten or files kept; that the workers are done by then is `ResultAfterWork` of
FileLifecycle. The two settings that make a package stream are taken not to
change during its lifecycle, though the console can change them; and a package of unknown size
fails before it asks (`channel_library_service.py:1325`).

**TelegramActivity** models the gate with explicit intents, permits, waiters
and releases that settle in a later task. **ActivityPriority** says what it
promises: a scan is alone, and starts only when no download waits or is active.

**ChannelStore** models the transactions that touch `download_batches`,
`download_batch_packages` and the download columns of `channel_packages`: one
action per method, callable by anybody in any order. **PackageLease** is the
promise: a package is held by at most one batch.

**ChannelOutbox** EXTENDS ChannelStore by the Web task rows and the service. `loop`
is the work in progress on the event loop that spans several commits (nothing
else runs on the loop until it is idle), `run[b]` the asyncio task of a batch with
the stop flag of its node, `request[b]` the Web thread that creates it, `callback`
and `retried` the done callbacks, `phase` the life of the process. `Crash` comes
between any two commits and clears what is in memory (`Vanish`). Startup is the
phases `dispatch`, `tasks`, `batches` in the order of `start()`. What the transfers
of a package produce is a nondeterministic summary of its file rows (`evidence`).

**FileLifecycle** models one package on its way through the queue, the workers and
the task store. `producer` is the package task (`download_prepared_messages` and
the end of `run_packages`), `at[m]` with `goal[m]`, `keep`, `handling` and `snap[m]` the
lifecycle of a file in a worker, `permit[m]` its intent at the gate, `task` and
`file` the rows. The loop's own code is atomic between awaits. Calls of the task store run in threads, so every transition of a
lifecycle is two actions, `ReadTask` (may the status be written?) and `WriteRow` or
`WriteRaises`, and `snapshot_node` is one action per row (`SnapshotStatus`,
`SnapshotTask`, `SnapshotRow`) over the copy it took. Queued, downloading and
uploading tasks are one status, `"live"`: each may follow the others. The retries
and the stall watchdog of `transfer_media` are one result; sampled progress, which
writes `downloading` over `downloading` while a transfer is awaited, is left out.

**ScanStore** has the transactions on libraries, scan jobs, failed ranges and repair
targets. `held[l]` says by content what scans have stored of which message: media rows unless the mode is
comments, source posts with their comment packages unless it is messages (`Stores`, the mode at the time of the
commit). A change of the mode sets the messages up to the watermark to be read again (`revisit`).
**ScanRunner** EXTENDS it by the service: `runner` is the scheduler task with the
place it is at, its job and the range it reads, `woken` its wake event, `request` a
Web thread between the reads and the transactions of a command, `sweep` a cron sweep
that waits for its permit, `gate` what downloads do meanwhile. A step ends where a Web
thread or a crash can come between two transactions, or where the coroutine awaits.
Requests to Telegram succeed, fail, or are rate limited, chosen freely within
`MaxUpsets`.

**PackageIndex** models what a publication does with the rows that are there:
`Plan` is the planner of `comment_workflow.py` (a folded pass over the stored
messages: albums, a caption with the captionless media around it), and each batch of a scan
publishes the tail of the plan, keeps the stable part, supersedes and revives rows by
key and fingerprint. Selecting, downloading, a changed mode, lost batches, repairs
and changed comments go on between the batches.

**ConfigPair** is the journaled commit of `config.yaml` and `data.yaml`. The directory
is a record of the files it holds; `past` is what it has been since the last sync, and
a crash leaves any of these. **PairRegister** is its promise: one register that is
written in a single step. **ChatHistory** EXTENDS it by what is in the files:
`download_all_chat` reads the chats from their saved positions, workers finish messages in any order,
`update_config` computes positions and retries and commits them.

**TaskRuns** has the task rows with `ALLOWED_TASK_TRANSITIONS` and the coroutines that
download packages: `run[r]` is a coroutine (a batch `run_packages`, a single package, a
comment range), `work[r]` its files in the queue or at a worker, `node[t]` the `TaskNode`
with its counters, `active` the table of active nodes. A file is queued, in work or
over here; what it goes through is in FileLifecycle. **WebTasks** has the link tasks
of the console: `scan[t]` is the scan coroutine, `call[c]` the request a Flask thread
serves, cut where the code leaves a lock, `preview`, `prescan` and `slot` the tables in
memory. **BotTasks** has those of the bot: previews `pending[k]`, confirmations `tap[h]`
that await their messages, and `taskNode`, from which /stop works and which the sweep
cleans. **LinkTasks** composes the three and adds the end of the loop, after which
Flask threads go on for a while, and the restart.

Definitions commented "A mistake" or "Mutant:" are deliberate errors; they are used
only to show that the checked properties notice them.

## 3. What TLC checks

| run | question | bounds |
|---|---|---|
| `disk_admission` | Is anything left behind, does it fit, does the queue move? | 3 packages: 3 units with files of 2, 3 of 1 that stream, 1; 2 workers; a disk of 4, 1 of them the minimum, and 1 foreign unit; 45,897 states |
| `activity_gate` | Are counters, exclusion, priority and wake-ups right? | 3 intents, 2 scans |
| `channel_store` | Do the rows agree under any order of operations? | 2 batches, 2 packages |
| `outbox_batch` | Do the two databases agree through faults and recovery, does the service only use the store's operations, and does every batch end? | 1 batch of up to 3 packages, 1 restart, 1 user request |
| `file_pipeline` | Are rows, counters, permits and the result of a package right when files overlap, a stop or timeout comes and a write fails, and does the package end? | 1 unfetched message, 2 files, 2 workers, 1 failing write |
| `channel_scans` | Is no message skipped silently, does a ready library hold what its mode asks for, can every failed range be repaired, and does every scan end? | 1 library in the modes messages and comments, 2 messages, 3 jobs, batches of 1, 1 retry, 1 command, 2 upsets (failures, rate limits, downloads, crashes); 238,936 states |
| `package_index` | Are offered packages true, is the finished index the plan of one pass, is a selection what is downloaded? | channels of 4 messages whose album lies across two batches: `A, plain, B, A` and `A, A, A, B`, comments at post 4; either 1 lost batch, 1 changed comment and 1 use, or 2 lost batches; 152,441 states |
| `config_history` | Are the files of one generation after any crash, does a start always read them, and does a retry stay until it is done? | 2 chats of 2 messages, 2 saves, 1 crash or error; 1,166,641 states |
| `link_tasks` | Is any row or slot left behind by racing requests, is a batch over or out of reach between two packages, does every link end, and is what is downloaded still listed? | 2 Web ids, 1 bot id, packages of 1 and 2 files, 2 runs, 2 threads, prescans of 2 batches, 4 requests and ends of the loop, 1 token and tap; 346,202 states |
| `index_hang` | Does a publication that is put off let the loop go on? (violated, section 6) | as `channel_scans` |
| `ready_unindexed` | Is the index of a ready library complete? (violated, section 6) | 1 library in mode messages, 2 messages, 4 jobs, batches of 1, no retries, 4 commands, 2 upsets; no downloads, pauses, stops, crashes or shutdowns |
| `history_forgets` | Is every message downloaded or kept for a later run? (violated, section 6) | as `config_history` |

Why the bounds are enough to be interesting. In `disk_admission` the one that streams reserves
2 of its 3 units and fits together with the small one, and the big one fits only alone, so passing, waiting,
being over capacity, a third file in a window of two and a kept file in the place of the next all occur. In `activity_gate` a download can wait behind an
active scan while a second one is released early. In `channel_store` both
batches contain both packages in every combination of success, failure, retry
and confirmation. In `outbox_batch` three packages let one be finished, one be in
work and one not be started when the stop, the fault or the crash comes, and
`UnknownSize` makes one of them fail before the run begins; one restart and one
request can fall between any two commits. In `file_pipeline` two files at two
workers are in any two phases at once, and the snapshot of the first can be
overtaken by the whole upload of the second; the failing write can hit any of the
transitions. In `channel_scans` a scan has two batches, so that one can be stored
and the other lost, repaired by a second job and swept by a third, while the second
upset interrupts the repair. In `package_index` the batch boundary cuts a package, which is
what publishing the tail again is for; two lost batches let a repair move packages that another failure has
taken as its anchor, and `Bounds` gives these in turn with one loss among comments and uses. With one loss
anchors always hold, so the exception of the two invariants (section 6) excludes nothing there. In `config_history` the single fault can hit
either save at any file-system step, and the two chats can be at different positions.
In `link_tasks` four requests are a submission, a selection or
second link, a confirmation and a cancel or an end of the loop; packages of one and two files make a batch
of which all files are counted between its packages. Two batches
that compete for a package and a slot are in `channel_store` for the tables, and for the service
in the theorem that it implements them (section 4). Larger instances (two batches with a
restart, one batch with two restarts and three requests) have been run without a
different answer; they take longer than a routine check should.

The type invariants of `TelegramActivity`, `ChannelStore` and `FileLifecycle` are
theorems (section 4) and not checked again by their runs.

Deadlock is not checked where the system may rest: a batch that has ended and no
request to come is a final state.

Fairness. The gate, the admission, the outbox and the file pipeline assume weak
fairness of what the event loop does by itself: a ready task is run, a timer
fires, a notified waiter wakes, an intent is released at the end of its
lifecycle, a transfer ends (the transfers have timeouts), a done callback is
called and a supervisor restarts the process. `ScanRunner` assumes the same of the scheduler task,
of a Web thread that is in a request, of a sweep, of rate limits and of transfers. `LinkTasks` assumes that
the loop goes on with something while it runs, which suffices as nothing there
can go on for ever, and that request threads go on; nobody has to start
it again. Nothing is assumed of users, Web threads that only may come, faults,
crashes, foreign writers, the progress of files and the release of a reservation, which a package
whose upload failed may keep.

## 4. What is proved

`TelegramActivity_proofs` proves for every finite set of downloads and of scans:
type correctness, `CountersAgree`, `ScanIsAlone`, and that the gate implements
`ActivityPriority`. The counters are sums over the intents, so the inductive
invariant carries, besides the types, the equation between each counter and the
cardinality of the set of intents (and unsettled releases) it counts; exclusion
follows because a scan starts only when the counters, and hence the sets, are
empty.

The first part of `ChannelOutbox_proofs` proves of the store, for all sets of batches and packages: type correctness,
`OneActiveAttempt`, `BatchMatchesAttempts`, `SummaryMatchesLatest`, and that the
tables implement `PackageLease`. `OneActiveAttempt` is not inductive alone: an
active attempt has to be the package's current batch (the pointer that creation
and retry look at), batch rows have to agree with their attempts, and a package
that ever succeeded has to have been taken; the conjunction `IInv` is what each
action preserves, one step per action and conjunct.

Its second part proves for all sets of batches and packages and any numbers of
slots, restarts and requests that the service implements the store: every commit is one
of the operations of `ChannelStore`, its guard included, and every other step leaves the
tables alone (`ServiceUsesStore`). The theorems about the tables then hold of
the service (`TablesStayCorrect`). A commit is legal only because of what the code that makes
it knows, so the invariant `ServiceInv` says, beside the types and the `IInv` of the store,
what is known between two commits: where a run stands while the loop does several commits for
its batch (`LoopOf`); that the packages a run still answers for are the unfinished ones of its batch
(`TodoOf`); that while the process is up somebody answers for every active batch, and only a node
or the loop may leave the task of an ended one active (`WorkOf`); that nothing exists before the
request that creates a batch (`OriginOf`); and what each phase of a startup leaves to the next
(`StartupOf`). From it follow `TypeOK`, `DatabasesAgree` (whose premise, that nothing of the batch is
under way, is the case in which `ServiceInv` ties task and batch row together), `CompletedStays` and
`StartupKeepsCancellation`.

`DiskAdmission_proofs` proves for any finite set of packages of any sizes and any disk:
`TypeOK`, `NothingLeftBehind`, `OutstandingFits` and `FreeSpacePreserved`, with any number of workers. The invariant `Books`
says that a caller's place tells whether it is requested or reserved, and that the deque holds each
requested caller once and nobody else. `FilesAgree` says what the files of a package add up to: no worker has more in hand
than the largest file, what is to come, in hand and stored is no more than the whole, a package that streams stores nothing, and
one without a reservation has no files. That a package has no more on the disk than it reserved is not put into
`Write` but follows (`WithinReservation`), from the arithmetic of `Reservation` and, for one that streams, from a sum over the workers.
`SumFits` compares the free space with what the reservations leave to be written, while the code compares it with whole
reservations. What failed uploads keep is in neither, and both properties say so: `kept` stands on the side of the free space,
and without it they are false (section 6). The sums are folds: that a caller who comes or goes changes a sum by its size is
proved by induction over finite sets, restated for the SET of the subsets for which the sum is as it
should be (`FiniteSetInduction`).

`ScanRunner_proofs` proves for any set of libraries, any modes, bounds, batch size and number of
retries: `TypeOK`, `NoSilentGap`, `ReadyIsComplete` and `NoFailureStranded`. The store's half of the
invariant (`StoreInv`) relates the rows of libraries, jobs, failed ranges and repair targets: only the
last job of a library can go on (`OneJob`); every message up to a checkpoint of a library, a job or a
failed range is stored as the mode asks for, to be read again, or in an unresolved range (`Coverage`, with `Kept` for the first two); what a repair has passed of a target
is kept so, and the target stays under repair until it is done (`Cursors`); the checkpoints of a
job do not run ahead of its library's, and what a repair has fetched and not indexed is before the end of a
target it still has to index (`Marks`, `RepairMarks`); what is to be read again lies before the cursor of a full scan that goes on or has failed, or such a scan has
lost it and no repair has read it yet (`Revisits`), and neither it nor what is stored lies above the watermark (`HeldBelow`);
a library whose scan has ended is indexed
(`EndedIsIndexed`) and, when it is ready, has nothing to repair (`ReadyIsRepaired`). These
hold only because a transaction is given what is still true, although the scheduler reads rows, awaits a
permit or an answer of Telegram, and uses then what it read before. So the runner's half (`RunnerInv`) says for
each place what its local variables tell about the rows (`Standing`, `Indexed`), as long as the job is
not deleted. `Stays`, `Grows` and `LibrariesGo` state what a transaction leaves to the others: a command
that comes in between may pause, stop or delete a job but does not move its checkpoints.
`ReadyIsComplete` was first stated without its exceptions, and no invariant made it
inductive; the steps that break it are the run `ready_unindexed` and the failed revisit of section 6.

`FileLifecycle_proofs` proves for any number of files, workers and failing writes:
type correctness, `RowsAreBacked`, `ResultAfterWork`, `CountersTellResults` and
`TerminalTaskStays`. Its `IInv` adds to the types and `RowsAreBacked` what is on its
way: what a lifecycle is about to write, and what a snapshot has picked and not
yet written, is backed too, nothing is in the cloud before the upload
(`FilesConsistent`); the queue holds each queued file once, messages from
`producer.next` on are untouched and a permit belongs to a file in work
(`QueueConsistent`); `total` is the number of messages passed, and after the join no
work is left (`ProducerConsistent`); a message is counted with its result or its
lifecycle still has to write it (`CountConsistent`). One lemma per action shows that
the action preserves each of the conjuncts. `TerminalTaskStays` needs the types
only: each place that writes the task row (an enqueue, a transition, a snapshot, a
cancel) looks at what it finds there.

`ChatHistory_proofs` first proves for all contents, crashes and errors that a start never
finds the directory unrecoverable (`AlwaysRecoverable`) and that the commit implements
`PairRegister` (`KeepsGeneration`). Because a crash leaves any directory of `past`, the
inductive invariant speaks of all of them: each is recoverable, and a start would read
from it what the last sync made durable or, only between the replacement of the
journal and its sync, what is being written (`OneGeneration`); and the entries before
the one a step is at are staged, or in place (`EntriesDone`). It assumes `~LateFailures`, that the sync
right after the journal's replacement does not raise; section 6 says what happens
when it does.

Its second part is about what the files say. Every step of `ChatHistory` is, for the two files, a step of
`ConfigPair` or none (`HistoryUsesPair`), so the results above hold of a running download
(`HistoryRecovers`), and `RetriedUntilDone` holds for any chats, filters, numbers of saves and faults
(`RetriesStay`). What leaves the disk leaves it when a journal is replaced, so the invariant has to say of a
process what its memory knows of the disk: `HistoryInv` adds to the invariant of the pair that a running process knows
every message the disk wants retried or has got it, and that a write under way offers exactly what
the process knows (`RetriesKnown`); that a message to be retried was loaded as such or has been touched by this
process, and none that the filter skipped is one (`StatusTells`); which chats and messages are untouched still
(`Cursor`), from which it follows that the filter never sees a message to be retried; and that only chats
of the configuration have any of this (`OnlyConfigured`). `UpdateSaves` is about the places of chats in the two
files: `Keys` numbers the distinct chats of config.yaml, which `KeysFacts` shows to be a numbering without
gaps or repetitions: the ranks of a finite set are an injection into a set of the same size. The hypothesis
`Values = Saved` is that the files have the shape `update_config` leaves: data.yaml has an
entry for configured chats only, and no more than there are. The theorem shows that it stays so; a user who edits
the files may break it (section 6).

`LinkTasks_proofs` proves `BotRunsAreStoppable` and `CompletedIsOver` for any numbers of
tasks, packages, files, threads, handlers and coroutines. Neither is inductive: both
speak of the flag and the counters of a node, which several coroutines, handlers and
requests reach by its task. `IInv` says who may touch it: a number of the bot belongs to
one run that goes on (`BotNumbers`); the flag of a batch of the bot is set from its first
package to its last, and nothing is counted before (`BotBatches`); a link of the console
is offered to its user only when its scan, which makes the node, is over
(`ScannedFirst`); and what a node counts, like a row that is completed, comes from a run that has
begun (`CountsBegun`). `Goes` is the lemma for a run that takes a step, `NewRun` for one that
is handed over, `Quiet` for all that leaves the runs alone.

`RowsAreOwned` needs a second invariant beside `IInv`, for it speaks of rows that one actor has left and
the next has not taken up yet. `Owned` says of each link of the console which scan it has, and that what makes
its row `scanning` can still be reached by a cancel (`ScanOwned`); that something confirmable stands for a `waiting`
row, in the tables or in the hands of the one call that popped it (`OfferKept`, `WaitOwned`); and of each
run that its kind is that of its task, that the row of a comment range is its own and that a
single run leaves no row at work when it is over (`KindKept`, `CommentOwned`, `RunOwned`). `Still` and
`StaysOwned` carry the tasks a step does not touch, which is most of them at any step.
`DownloadedStaysListed` follows from one fact more, `ListMarked`: a list from which a batch downloads is marked as
confirmed, in the same critical section that hands the batch to the loop.

`PackageIndex_proofs` proves `SelectionIsCurrent`, for any channel, posts, comments and numbers of lost
batches, mode changes and downloads, from `IInv`: the tables have one row per key, and a selected row has
the items with which it was selected and is stable, or was retired by a change of the mode. A publication
drops from the selection what it revises or removes; that its plan comes from a recursive pass over the
messages does not matter for this. `SelectedItemsKept` says what is left when the mode was
changed: a retired package may stay selected, but not with other items.

All of it rests on the assumptions named in the modules (finite sets, a value
outside the sets for "none", natural numbers for the sizes).

Only model-checked: liveness (`PipelineMoves`, `NobodyIsForgotten`, `BatchesEnd`, `PackageEnds`,
`ScansEnd`, `LinksEnd`), which is out of the prover's reach; and `StableIsTrue` and `FirstIndexIsPlan` of
`PackageIndex`, which compare what the planner, a fold over a sequence, makes of the tail of a channel with
what it makes of the whole: that needs induction over data. Every other property of a passing run is a theorem.

## 5. What is not modelled, and the plan

In this order:

1. **RetainedUploads**: upload retry and cleanup composed with reservations, and
   two runs of one task side by side (the lifecycles a batch timeout leaves
   behind go on while the batch is run again).
2. The rest of the bot: `/download` of a range, media sent to it directly and
   `listen_forward`; the pruning of completed rows in the task store.
3. Proofs about the planner, once recursion over sequences can be reasoned about: that a plan of
   the tail from a true start is the tail of the plan is what `StableIsTrue` rests on.

Resource delivery and the resource bot are code without a caller: `BotManager.start`
(`module/bot.py:496`) sets `app.resource_bot_store = None` and starts neither the role
nor the worker.

Left out for good: parsing, naming, formatting, templates, encryption, the filter
language, Pyrogram's patched methods, the MCP server's forwarding of requests and the
upload subprocess are data handling or I/O without a protocol of their own; they are
listed in `PROJECT.json`.

## 6. Where the code and its documents disagree

Runs that TLC refutes, each with a finding in `PROJECT.json`:

* `index_hang` (`IndexYields`): a publication that a package in its upload puts off is
  repeated after `wait_until_downloads_idle()`, which returns without suspending
  because an upload holds no intent at the gate. The loop spins and the upload that
  would end it never goes on.
* `ready_unindexed` (`ReadyIsIndexed`): a repair job indexes its targets and nothing else
  (`channel_library_service.py:2059`). When a repair has failed, an incremental scan stores a batch and
  fails before it publishes it, and the repair is then retried, its end makes the library `ready`
  although that batch is not in the index; `docs/web-control-console.md:212` says that it is.
* `history_forgets` (`NothingForgotten`): the saved position is one past the last
  message and is loaded as the last message read; when a run ends with only a retry or
  an older message, the message at the position is passed over.

TLC also refutes two claims that have no run of their own; each is a property of a passing run with its exception
taken out:

* *A failed revisit is forgotten.* A change of the mode queues a full scan from message 1 and leaves the watermark of the
  library where it is (`channel_library_store.py:1260`). When that scan fails, its retry is a new job
  (`channel_library_service.py:1947`), which starts past the watermark (`channel_library_store.py:3937`), as does an incremental
  scan: the library becomes `ready`, with nothing stored of what the new mode asks for, and the packages of the mode before are superseded
  (`:1277`). `docs/web-control-console.md:161` says that the change queues a full revisit from message 1, and `:212` that
  the snapshot and the index of a `ready` library are complete. In `channel_scans`, `ReadyIsComplete` without
  `AwaitsRevisit(l, i, {"failed"})` is violated by a trace of 28 states.
* *A window reservation is outgrown.* With upload and deletion on, a package reserves a file for each worker
  (`channel_library_service.py:204`); its docstring says that the peak footprint is bounded by that and that the package
  downloads "file by file without overflowing" the disk. The source of a failed upload stays (`download_lifecycle.py:222`, and on
  purpose, `channel_library_service.py:1144`) while the worker takes the next file, so the package takes the disk below `minimum_free_bytes`, which
  admission is there to preserve. In `disk_admission`, `FreeSpacePreserved` without `kept` is violated after six states.

Observed while modelling, without a run. *Channel downloads*: the capacity a request
is compared with counts bytes that are both written and reserved twice, which
resets the grace timer of an oversized package; a large head is passed by smaller packages again and again
(`download_admission.py:146`); a stop during a refetch makes the start
callback fail, and unstarted packages end as failed, not cancelled; a batch is
cancelled before its timeout handler tries to put it back; a package the disk cannot
hold may be recorded as completed from file rows of an earlier run; the snapshot at the end
of a file's lifecycle overwrites the upload outcome another file has just recorded; a late
sampled progress write has the same effect (`progress_persistence.py:80`); an aborted
batch leaves its Web task completed rather than failed; a stop that a graceful shutdown
overtakes is forgotten, and a graceful stop makes a cancelled task active again
(`channel_library_service.py:1130`); replaying the request of a batch whose task was
cleared creates a queued task that nobody runs (`"zombie"` in the model); a failed
upload retry of a package that also has failed files keeps its reservation.

*Scans and index*: a full revisit cuts the last package of each batch
(`channel_library_store.py:5150`, against `docs/web-control-console.md:157`); in mode
"both" the first index pass supersedes comment packages (`:178` of the same document);
a resume of a running
job with a pending pause, and the end of a scan (`channel_library_service.py:2158`), overwrite a pause; a queued batch
whose package is published over ends as completed though stale; a change of the mode supersedes
selected packages; a lost batch in mode "comments" still runs the index,
and a repair in it resolves a failure without storing messages; a transient error in
`_refresh_comment_posts` fails the job.

The index may end with *overlapping stable packages*. A failure remembers where the channel has to be planned again,
the start of the package before it (`reindex_anchor_for_message`, `channel_library_store.py:4239`), and no
later repair moves that anchor. In the channel `A, A, A, B` with batches of two: a full scan loses messages 1 and 2
and publishes {3} as uncertain; an incremental scan loses 4, with anchor 3; the repair of the first failure
merges {1, 2, 3} and retires the package at 3; the repair of the second plans from 3 again
(`:5148`), sees no message before it, and revives the package at 3 as stable. The library is `ready` with {1, 2, 3} and
{3} both offered, against `docs/web-control-console.md:227`, "A successful repair rebuilds the complete
affected closure before publishing stable packages". The same sequence of calls on the code's own store and planner gives the
same rows. `StableIsTrue` and `FirstIndexIsPlan` therefore hold while every failure's anchor is the start of
a true package (`AnchorsHold`); without that exception TLC finds the trace within a minute in the bounds of
`package_index`.

*Configuration*: an `OSError` of the sync after the journal's `os.replace`
(`config_persistence.py:218`) removes staged files a journal names, after which a
crash leaves a pair that no start can recover (`LateFailures`); positions of
configured chats are advanced by Web and package tasks; a lifecycle that raises never counts
in `finish_task`; duplicate or removed chats mix positions and retries
(`docs/architecture-review-2026-07-07.md:19`): when the first of two chats is removed from config.yaml, the
other's old entry of data.yaml stays behind the new one, and as `assign_app_data` lets the last entry win, what
`update_config` saves for that chat is never read again.

*Link tasks*: a message that is not there counts as skipped and as not found
(`pyrogram_extension.py:927`), so a package of the bot may be completed and cleared while
its files download, and a cleared row is then opened again and stays `downloading` (these tasks
are excluded from `RowsAreOwned` and `LinksEnd`); a cancel that races with a confirmation is
answered although the popped preview is downloaded; a second confirmation of a package marks its row
failed as by a restart, and one of a prescan starts two runs of one node
(`web.py:2617`; also excluded); accepted links whose chat cannot be read or whose slot is busy leave no row;
a deletion of packages between a confirmation's snapshot and its `confirmed = True` is
answered though they are downloaded; a stop is not looked at while a package is put into the queue;
a stopped batch whose files were all counted becomes completed; tasks of the bot
cannot be cancelled in the console, as its table is keyed by number; a cancelled queued
task whose row was removed gets one again at its next file; two taps on a button of the bot start two tasks;
the prescan session stays on during its scan, so two links are prescanned; a single
package of the bot whose first file ends before the second is put into the queue is swept from
`_bot.task_node`, and /stop cannot reach it; a range task of the bot that is stopped
leaves its row downloading.
