----------------------------- MODULE ScanRunner -----------------------------
(***************************************************************************)
(* The scan side of ChannelLibraryService (channel_library_service.py):    *)
(* one scheduler task that claims jobs, reads message ranges batch by      *)
(* batch and publishes the index; commands of Web threads that pause,      *)
(* resume, stop, repair, retry and delete; incremental sweeps that wait    *)
(* for Telegram between two reads of the store; crashes and shutdowns.     *)
(*                                                                         *)
(* A step of the scheduler ends where a Web thread or a crash can come     *)
(* between two transactions, or where the coroutine awaits.                *)
(***************************************************************************)
EXTENDS ScanStore

CONSTANTS
  Batch,          \* full_scan_batch_size and incremental_scan_batch_size
  MaxRetries,     \* the length of transient_retry_delays_sec
  MaxRequests,    \* bound: commands of Web threads
  MaxUpsets       \* bound: failing requests, downloads that come up while
                  \* scans run, changes of a mode, crashes and shutdowns

ASSUME ScanRunnerAssumption ==
  /\ Batch \in Nat \ {0}
  /\ {MaxRetries, MaxRequests, MaxUpsets} \subseteq Nat

VARIABLES
  runner,     \* the scheduler task: where it is, its job, its range
  woken,      \* _wake_event
  stopping,   \* _stopping
  hung,       \* the event loop repeats a deferred publication without an await
  request,    \* the Web thread in pause, resume or stop_job, with what it read
  sweep,      \* a queue_incremental that waits for its scan permit
  gate,       \* what downloads are doing
  latest,     \* latest[l]: the last message of the channel
  requests, upsets

memory == <<runner, woken, stopping, hung, request, sweep>>
world == <<gate, latest>>
bounds == <<requests, upsets>>
vars == <<scans, memory, world, bounds>>

-----------------------------------------------------------------------------
(* Downloads: "transfer" holds the activity gate and leases a package,     *)
(* "upload" leases the package only, "other" holds the gate only.          *)
Busy == gate \in {"transfer", "other"}
Leased == gate \in {"transfer", "upload"}

Down == [pc |-> "down", job |-> 0, next |-> 0, end |-> 0, target |-> 0, stage |-> "none"]
NoRequest == [op |-> "none", job |-> 0, seen |-> "none"]
NoSweep == [lib |-> "none", first |-> 0, cron |-> FALSE]

Job == jobs[runner.job]
Mode == library[Job.lib].mode
Last == Min({runner.next + Batch - 1, runner.end})
Goto(pc) == runner' = [runner EXCEPT !.pc = pc]
Loop == runner' = [Down EXCEPT !.pc = "loop"]
At(pc) == runner.pc = pc /\ ~hung
StoreUnchanged == UNCHANGED scans
OnlyRunner == UNCHANGED <<woken, stopping, hung, request, sweep, world, bounds>>

(* What an exception does: inside the try of _scan_range any status that   *)
(* may fail is failed, in _run_job only a job that is still running.       *)
FailBatch ==
  IF MayMove(runner.job, "failed") THEN Transition(runner.job, "failed") ELSE StoreUnchanged
FailRunning ==
  IF Job.status = "running" THEN Transition(runner.job, "failed") ELSE StoreUnchanged

-----------------------------------------------------------------------------
(* _run_scheduler and _wait_for_work *)
Recover ==
  /\ At("loop")
  /\ IF stopping THEN StoreUnchanged /\ runner' = Down
     ELSE RecoverJobs /\ Goto("claim")
  /\ OnlyRunner

ClaimJob ==
  /\ At("claim")
  /\ \E j \in JobIds : Claim(j) /\ runner' = [Down EXCEPT !.pc = "start", !.job = j]
  /\ OnlyRunner

FallAsleep ==
  /\ At("claim") /\ (Running # {} \/ Queued = {})
  /\ Goto("idle") /\ woken' = FALSE
  /\ UNCHANGED <<scans, stopping, hung, request, sweep, world, bounds>>

(* A mistake: nothing but an event wakes the scheduler.                    *)
WakeByEvent ==
  /\ At("idle") /\ woken
  /\ Loop /\ StoreUnchanged /\ OnlyRunner

Wake ==
  /\ At("idle")
  /\ \/ woken
     \/ \E j \in JobIds : jobs[j].status = "waiting_rate_limit" /\ ~jobs[j].waits
  /\ Loop /\ StoreUnchanged /\ OnlyRunner

(* _run_job up to the first range *)
Begin ==
  /\ At("start")
  /\ \/ /\ Job.status = "queued"
        /\ Transition(runner.job, "running")
        /\ UNCHANGED runner
     \/ /\ Job.status \notin {"queued", "running"}
        /\ Loop /\ StoreUnchanged
     \/ /\ Job.status = "running"
        /\ runner' = [runner EXCEPT !.next = 1, !.end = library[Job.lib].fetched,
             !.pc = IF Job.kind = "repair" THEN "target"
                    ELSE IF Job.kind = "incremental" /\ Mode # "messages" THEN "refresh"
                    ELSE "first"]
        /\ StoreUnchanged
  /\ OnlyRunner

ScanFrom(first, end, target) ==
  runner' = [runner EXCEPT !.pc = "top", !.next = first, !.end = end, !.target = target]

(* What was fetched before an interruption is indexed first. *)
IndexBacklog ==
  /\ At("first")
  /\ IF Job.indexed >= Job.fetched
     THEN ScanFrom(Job.next, Job.snap, 0) /\ StoreUnchanged
     ELSE IF Mode = "comments"
     THEN IF Job.status = "running"
          THEN /\ Advance(runner.job, Job.fetched)
               /\ ScanFrom(Job.next, Job.snap, 0)
          ELSE FailRunning /\ Loop
     ELSE /\ runner' = [runner EXCEPT !.pc = "publish", !.end = Job.fetched, !.stage = "first"]
          /\ StoreUnchanged
  /\ OnlyRunner

(* The next target of a repair job, in the order of its ranges. *)
NextTarget ==
  /\ At("target")
  /\ LET left == {f \in DOMAIN Job.targets : ~Job.targets[f].done}
     IN IF left = {} THEN Goto("finish")
        ELSE \E f \in left :
               /\ \A g \in left : failures[f].first <= failures[g].first
               /\ ScanFrom(Job.targets[f].next, failures[f].last, f)
  /\ StoreUnchanged /\ OnlyRunner

-----------------------------------------------------------------------------
(* The boundary of a batch, in _scan_range and _refresh_comment_posts:     *)
(* the job may have left "running", a control request is consumed, and     *)
(* downloads go first.                                                     *)
Boundary(proceed) ==
  \/ Job.status # "running" /\ Loop /\ StoreUnchanged
  \/ ConsumeControl(runner.job) /\ Loop
  \/ /\ Job.status = "running" /\ Job.control = "none" /\ Busy
     /\ Transition(runner.job, "auto_paused_download") /\ Goto("waitidle")
  \/ /\ Job.status = "running" /\ Job.control = "none" /\ ~Busy
     /\ proceed /\ StoreUnchanged

Top ==
  /\ At("top")
  /\ IF runner.next <= runner.end THEN Boundary(Goto("fetch"))
     ELSE /\ StoreUnchanged
          /\ IF runner.target = 0 THEN Goto("finish")
             ELSE runner' = [runner EXCEPT !.pc = "publish", !.stage = "resolve",
                               !.end = failures[runner.target].through]
  /\ OnlyRunner

ResumeQueue ==
  /\ At("waitidle") /\ ~Busy
  /\ IF Job.status = "auto_paused_download" THEN Goto("requeue") ELSE Loop
  /\ StoreUnchanged /\ OnlyRunner

Requeue ==
  /\ At("requeue")
  /\ IF MayMove(runner.job, "queued") THEN Transition(runner.job, "queued") ELSE FailRunning
  /\ woken' = TRUE /\ Loop
  /\ UNCHANGED <<stopping, hung, request, sweep, world, bounds>>

(* _fetch_batch under the scan permit: the request succeeds, or ends with  *)
(* a FloodWait, a permanent or a transient error.                          *)
Fetched == IF Mode = "messages" THEN "commit" ELSE "comments"
FetchOk ==
  /\ At("fetch") /\ ~Busy
  /\ Goto(Fetched) /\ StoreUnchanged /\ OnlyRunner

Upset == upsets < MaxUpsets /\ upsets' = upsets + 1
FaultOnly == UNCHANGED <<woken, stopping, hung, request, sweep, world, requests>>

WaitForLimit ==
  IF MayMove(runner.job, "waiting_rate_limit")
  THEN Transition(runner.job, "waiting_rate_limit") ELSE StoreUnchanged

FetchFloodWait ==
  /\ (At("fetch") \/ At("comments")) /\ ~Busy /\ Upset
  /\ WaitForLimit /\ Loop /\ FaultOnly

FetchRefused ==
  /\ (At("fetch") \/ At("comments")) /\ ~Busy /\ Upset
  /\ FailBatch /\ Loop /\ FaultOnly

FetchTransient ==
  /\ At("fetch") /\ ~Busy
  /\ IF Job.retries < MaxRetries /\ Job.status = "running"
     THEN RecordRetry(runner.job) /\ UNCHANGED <<runner, upsets>>
     ELSE /\ Upset
          /\ IF Job.retries < MaxRetries \/ Job.kind = "repair" THEN FailBatch /\ Loop
             ELSE Goto("record") /\ StoreUnchanged
  /\ FaultOnly

-----------------------------------------------------------------------------
(* _scan_changed_comment_posts of a batch: a comment package is only       *)
(* published by a running job.                                             *)
ScanComments ==
  /\ At("comments") /\ ~Busy
  /\ IF Job.status = "running" THEN Goto("commit") /\ StoreUnchanged
     ELSE FailBatch /\ Loop
  /\ OnlyRunner

(* _refresh_comment_posts looks at every known post again; any error ends  *)
(* the job.                                                                *)
Refresh ==
  /\ At("refresh")
  /\ IF runner.next > runner.end THEN Goto("first") /\ StoreUnchanged
     ELSE Boundary(runner' = [runner EXCEPT !.next = Last + 1])
  /\ OnlyRunner

RefreshFails ==
  /\ At("refresh") /\ runner.next <= runner.end /\ ~Busy /\ Upset
  /\ FailRunning /\ Loop /\ FaultOnly

(* commit_fetched_batch of _fetch_commit_and_index *)
Commit ==
  /\ At("commit")
  /\ IF Job.status = "running"
     THEN /\ CommitFetched(runner.job, Last, runner.next .. Last, runner.target)
          /\ runner' = [runner EXCEPT !.pc = "publish", !.stage = "batch"]
     ELSE FailBatch /\ Loop
  /\ OnlyRunner

(* A batch whose retries are used up: the range is recorded, then passed.  *)
RecordLost ==
  /\ At("record")
  /\ IF Job.status = "deleted" THEN StoreUnchanged /\ Loop
     ELSE RecordFailure(runner.job, runner.next, Last) /\ Goto("skip")
  /\ OnlyRunner

SkipLost ==
  /\ At("skip")
  /\ IF Job.status = "running"
     THEN /\ CommitFetched(runner.job, Last, {}, 0)
          /\ runner' = [runner EXCEPT !.pc = "publish", !.stage = "lost"]
     ELSE FailBatch /\ Loop
  /\ OnlyRunner

-----------------------------------------------------------------------------
(* _index_until_published, and what follows it.                            *)
Through == IF runner.stage \in {"first", "resolve"} THEN runner.end ELSE Last

Touched ==
  IF Job.kind # "repair" THEN Unresolved(Job.lib)
  ELSE IF runner.stage = "batch" THEN {runner.target} ELSE {}

AfterPublish ==
  CASE runner.stage = "first" -> ScanFrom(Job.next, Job.snap, 0)
    [] runner.stage = "resolve" -> Goto("target")
    [] OTHER -> Goto("settle")

CommentsOnly == Mode = "comments" /\ runner.stage = "batch"

PublishIndex ==
  /\ At("publish")
  /\ IF CommentsOnly /\ Job.status = "running"
     THEN Advance(runner.job, Last) /\ Goto("settle")
     ELSE IF MayPublish(runner.job, Through)
     THEN /\ \E u \in {{}, Touched} :
               Publish(runner.job, Through, u,
                       IF runner.stage = "resolve" THEN {runner.target} ELSE {})
          /\ AfterPublish
     ELSE /\ IF runner.stage \in {"first", "resolve"} THEN FailRunning ELSE FailBatch
          /\ Loop
  /\ OnlyRunner

(* The publication would change a leased package. The wait for idle        *)
(* downloads returns at once when only an upload is left: the loop tries   *)
(* again without ever awaiting.                                            *)
PublishDeferred ==
  /\ At("comments") \/ (At("publish") /\ ~CommentsOnly)
  /\ Job.status = "running" /\ Leased /\ ~Busy
  /\ HasFinishedFull(Job.lib)       \* else it has no package to download yet
  /\ hung' = TRUE
  /\ UNCHANGED <<scans, runner, woken, stopping, request, sweep, world, bounds>>

Settle ==
  /\ At("settle")
  /\ \/ ConsumeControl(runner.job) /\ Loop
     \/ /\ Job.control = "none" /\ stopping
        /\ IF MayMove(runner.job, "queued") THEN Transition(runner.job, "queued")
           ELSE FailRunning
        /\ Loop
     \/ /\ Job.control = "none" /\ ~stopping
        /\ runner' = [runner EXCEPT !.pc = "top", !.next = Last + 1, !.stage = "none"]
        /\ StoreUnchanged
  /\ OnlyRunner

Finish ==
  /\ At("finish")
  /\ LET s == IF Unresolved(Job.lib) = {} THEN "completed" ELSE "partial"
     IN IF MayMove(runner.job, s) THEN Transition(runner.job, s) ELSE FailRunning
  /\ Loop /\ OnlyRunner

-----------------------------------------------------------------------------
(* Web threads: pause, resume and stop_job read the job, then decide.      *)
Requested == requests < MaxRequests /\ requests' = requests + 1
RequestOnly == UNCHANGED <<runner, stopping, hung, sweep, world, upsets>>

ReadJob ==
  /\ request = NoRequest /\ runner.pc # "down"
  /\ \E op \in {"pause", "resume", "stop"}, j \in JobIds :
       /\ jobs[j].status \in Recoverable
       /\ IF op = "resume" /\ jobs[j].status \in {"paused_user", "stopped"}
          THEN UNCHANGED requests ELSE Requested
       /\ request' = [op |-> op, job |-> j, seen |-> jobs[j].status]
  /\ StoreUnchanged /\ UNCHANGED woken /\ RequestOnly

Goal(op) == CASE op = "pause" -> "paused_user"
              [] op = "stop" -> "stopped"
              [] OTHER -> "queued"

ActOnJob ==
  /\ request # NoRequest
  /\ LET j == request.job
         s == Goal(request.op)
     IN IF request.seen = s THEN StoreUnchanged
        ELSE IF request.seen = "running" /\ request.op # "resume"
        THEN IF jobs[j].status = "running" THEN RequestControl(j, request.op) ELSE StoreUnchanged
        ELSE IF MayMove(j, s) THEN Transition(j, s) ELSE StoreUnchanged
  /\ request' = NoRequest /\ woken' = TRUE
  /\ UNCHANGED requests /\ RequestOnly

(* queue_repair, retry_failed_job and delete_channel_library *)
QueueRepair ==
  /\ runner.pc # "down" /\ Requested
  /\ \E l \in Libraries :
       \E S \in {Open(l)} \union {{f} : f \in Open(l)} : CreateRepairJob(l, S)
  /\ woken' = TRUE /\ UNCHANGED request /\ RequestOnly

RetryFailed ==
  /\ runner.pc # "down" /\ Requested
  /\ \E j \in JobIds :
       /\ jobs[j].status = "failed"
       /\ IF jobs[j].kind = "repair" THEN RetryRepairJob(j)
          ELSE CreateScanJob(jobs[j].lib, jobs[j].kind, jobs[j].start, jobs[j].snap)
  /\ woken' = TRUE /\ UNCHANGED request /\ RequestOnly

Delete ==
  /\ runner.pc # "down" /\ Requested
  /\ \E l \in Libraries :
       /\ DeleteLibrary(l)
       /\ sweep' = IF sweep.lib = l THEN NoSweep ELSE sweep
  /\ UNCHANGED <<request, woken, runner, stopping, hung, world, upsets>>

-----------------------------------------------------------------------------
(* Commands on the owner loop: resolve_and_create_library ...              *)
OnLoop == runner.pc # "down" /\ ~hung /\ ~stopping

Submit ==
  /\ OnLoop
  /\ \E l \in Libraries, mode \in Modes :
       \/ CreateLibrary(l, mode, latest[l]) /\ UNCHANGED upsets
       \/ Upset /\ ChangeMode(l, mode, latest[l])
  /\ woken' = TRUE
  /\ UNCHANGED <<runner, stopping, hung, request, sweep, world, requests>>

(* ... and queue_incremental, by hand or from the cron sweep: it reads the *)
(* watermark, waits for the scan permit, then creates the job.             *)
FullScanPending == \E j \in JobIds : jobs[j].kind = "full" /\ jobs[j].status \in Recoverable

StartSweep ==
  /\ OnLoop /\ sweep = NoSweep /\ Requested
  /\ \E l \in Libraries, cron \in BOOLEAN :
       /\ library[l].status # "absent" /\ HasFinishedFull(l)
       /\ cron => ~FullScanPending /\ JobsIn(l, Recoverable) = {}
       /\ sweep' = [lib |-> l, first |-> library[l].fetched + 1, cron |-> cron]
  /\ StoreUnchanged
  /\ UNCHANGED <<runner, woken, stopping, hung, request, world, upsets>>

EndSweep ==
  /\ OnLoop /\ sweep # NoSweep /\ ~Busy
  /\ LET l == sweep.lib
         nothingNew == sweep.cron /\ latest[l] < sweep.first
                         /\ library[l].mode = "messages"
         create == CreateScanJob(l, "incremental", sweep.first,
                                 Max({latest[l], sweep.first - 1}))
     IN IF nothingNew \/ ~MayCreate(l) \/ ~HasFinishedFull(l)
        THEN StoreUnchanged /\ UNCHANGED woken
        ELSE create /\ woken' = TRUE
  /\ sweep' = NoSweep
  /\ UNCHANGED <<runner, stopping, hung, request, world, bounds>>

-----------------------------------------------------------------------------
(* Shutdown cancels the scheduler where it awaits, but not in a request.   *)
Shutdown ==
  /\ OnLoop /\ Upset
  /\ stopping' = TRUE
  /\ UNCHANGED <<scans, runner, woken, hung, request, sweep, world, requests>>

Cancelled ==
  /\ stopping /\ ~hung
  /\ runner.pc \in {"idle", "waitidle", "top", "fetch", "refresh"}
  /\ IF runner.job # 0 /\ Job.status = "running"
     THEN IF Job.control # "none" THEN ConsumeControl(runner.job)
          ELSE Transition(runner.job, "queued")
     ELSE StoreUnchanged
  /\ runner' = Down
  /\ UNCHANGED <<woken, stopping, hung, request, sweep, world, bounds>>

Crash ==
  /\ runner.pc # "down" /\ Upset
  /\ runner' = Down /\ hung' = FALSE /\ request' = NoRequest
  /\ woken' = FALSE /\ stopping' = FALSE /\ sweep' = NoSweep /\ gate' = "idle"
  /\ UNCHANGED <<scans, latest, requests>>

Start ==
  /\ runner.pc = "down" /\ request = NoRequest
  /\ RecoverJobs /\ Loop
  /\ woken' = FALSE /\ stopping' = FALSE /\ sweep' = NoSweep
  /\ gate' = "idle"
  /\ UNCHANGED <<hung, request, latest, bounds>>

(* Telegram and the downloads. *)
Post ==
  /\ \E l \in Libraries :
       latest[l] < MaxMessage /\ latest' = [latest EXCEPT ![l] = @ + 1]
  /\ UNCHANGED <<scans, memory, gate, bounds>>

BeginTransfer ==
  /\ OnLoop /\ gate = "idle"
  /\ Upset
  /\ gate' \in {"transfer", "other"}
  /\ UNCHANGED <<scans, memory, latest, requests>>

EndTransfer ==
  /\ runner.pc # "down" /\ ~hung /\ gate # "idle"
  /\ gate' = IF gate = "transfer" THEN "upload" ELSE "idle"
  /\ UNCHANGED <<scans, memory, latest, bounds>>

LimitEnds ==
  /\ \E j \in JobIds : Elapse(j)
  /\ UNCHANGED <<memory, world, bounds>>

Init ==
  /\ ScanStoreInit
  /\ runner = Down /\ woken = FALSE /\ stopping = FALSE /\ hung = FALSE
  /\ request = NoRequest /\ sweep = NoSweep
  /\ gate = "idle"
  /\ latest = [l \in Libraries |-> 1]
  /\ requests = 0 /\ upsets = 0

Scheduler ==
  \/ Recover \/ ClaimJob \/ FallAsleep \/ Wake \/ Begin \/ IndexBacklog \/ NextTarget
  \/ Top \/ ResumeQueue \/ Requeue \/ FetchOk \/ ScanComments \/ Refresh
  \/ Commit \/ RecordLost \/ SkipLost \/ PublishIndex \/ Settle \/ Finish \/ Cancelled
Faults == FetchFloodWait \/ FetchRefused \/ FetchTransient \/ RefreshFails \/ PublishDeferred
Commands == ReadJob \/ ActOnJob \/ QueueRepair \/ RetryFailed \/ Delete
              \/ Submit \/ StartSweep \/ EndSweep
Process == Shutdown \/ Crash \/ Start
Environment == Post \/ BeginTransfer \/ EndTransfer \/ LimitEnds

Next == Scheduler \/ Faults \/ Commands \/ Process \/ Environment
Spec == Init /\ [][Next]_vars

FairSpec ==
  Spec /\ WF_vars(Scheduler) /\ WF_vars(ActOnJob) /\ WF_vars(EndSweep)
       /\ WF_vars(Start) /\ WF_vars(EndTransfer) /\ WF_vars(LimitEnds)

-----------------------------------------------------------------------------
Statuses == {"absent", "indexing", "ready", "partial", "paused", "stopped", "failed"}

(* The rows keep their types, a control request belongs to a running job,  *)
(* checkpoints are ordered and never beyond the channel: what the CHECK    *)
(* constraints and the code of the store rely on.                          *)
TypeOK ==
  /\ \A l \in Libraries : /\ library[l].status \in Statuses
                           /\ library[l].mode \in Modes \union {"messages"}
                           /\ library[l].indexed <= library[l].fetched
                           /\ library[l].fetched \in 0 .. latest[l]
  /\ \A j \in JobIds : /\ jobs[j].status \in JobStatuses
                        /\ jobs[j].control # "none" => jobs[j].status = "running"
                        /\ jobs[j].indexed <= jobs[j].fetched
                        /\ jobs[j].snap <= latest[jobs[j].lib]
  /\ held \in [Libraries -> SUBSET (Contents \X Messages)]
  /\ revisit \in [Libraries -> SUBSET Messages]
  /\ runner.job \in {0} \union JobIds

(* Message i is to be read again after a change of the mode, and a full    *)
(* scan whose status is in S has not come to it yet.                       *)
AwaitsRevisit(l, i, S) ==
  /\ i \in revisit[l]
  /\ \E j \in JobsIn(l, S) : /\ jobs[j].kind = "full"
                              /\ jobs[j].next <= i /\ i <= jobs[j].snap

(* No message below the watermark of a library is forgotten: what the mode *)
(* of the library asks for is stored of it, or an unresolved failure holds *)
(* its range for a repair, or the revisit after a change of the mode has   *)
(* yet to read it (or has failed before it did) -- whatever fails, pauses, *)
(* retries, crashes or is repaired in between.                             *)
NoSilentGap ==
  \A l \in Libraries : \A i \in 1 .. library[l].fetched :
    \/ Stored(l, i)
    \/ \E f \in Unresolved(l) : i \in RangeOf(f)
    \/ AwaitsRevisit(l, i, Recoverable \union {"failed"})

(* A repair that has ended, the last job of its library, after one that    *)
(* failed.                                                                 *)
RetriedRepair(l) ==
  \E i \in JobsIn(l, {"failed"}), j \in JobsIn(l, Finished) :
    /\ jobs[i].kind = "repair" /\ jobs[j].kind = "repair" /\ i < j
    /\ \A k \in JobsIn(l, JobStatuses) : k <= j

(* A library that calls itself ready holds what its mode asks for of every *)
(* message up to its watermark, has nothing left to repair and is indexed  *)
(* as far: no job that came, failed or was abandoned in the meantime       *)
(* leaves the status behind. The two exceptions are what a full revisit    *)
(* that failed did not read, which no retry takes up, and the retry of a   *)
(* failed repair, which does not index what another job has fetched in     *)
(* between.                                                                *)
ReadyIsComplete ==
  \A l \in Libraries : library[l].status = "ready" =>
    /\ \A i \in 1 .. library[l].fetched :
         Stored(l, i) \/ AwaitsRevisit(l, i, {"failed"})
    /\ Unresolved(l) = {}
    /\ library[l].indexed = library[l].fetched \/ RetriedRepair(l)

(* docs/web-control-console.md:212: "`completed` / library `ready`: the    *)
(* snapshot and package index are complete".                               *)
ReadyIsIndexed ==
  \A l \in Libraries :
    library[l].status = "ready" => library[l].indexed = library[l].fetched

(* A range that could not be read can always be taken up again: an open    *)
(* failure by a new repair job, one under repair by the job that has it as *)
(* an unfinished target or, when that job failed, by its retry.            *)
NoFailureStranded ==
  \A l \in Libraries : \A f \in Unresolved(l) :
    failures[f].status = "repairing" =>
      \E j \in JobsIn(l, Recoverable \union {"failed"}) : f \in Unfinished(j)

(* A queued, running or waiting scan does not stay so for ever: it ends,   *)
(* or its user pauses or stops it -- through rate limits, downloads that   *)
(* go first, shutdowns and restarts. The hung event loop is excluded here  *)
(* and has a property of its own, IndexYields.                             *)
Pending(j) == j \in JobIds /\ jobs[j].status \in Recoverable \ {"paused_user", "stopped"}
ScansEnd == \A j \in 1 .. MaxJobs : Pending(j) ~> (hung \/ ~Pending(j))

(* docs/web-control-console.md:175: work that only uploads does not hold   *)
(* the activity gate; a scan goes on beside it. A publication that waits   *)
(* for the lease of such a package must therefore yield to the event loop. *)
IndexYields == ~hung
=============================================================================
