---------------------------- MODULE ChannelOutbox ----------------------------
(***************************************************************************)
(* ChannelLibraryService (channel_library_service.py) as the outbox of     *)
(* download batches: two databases without a common transaction, the       *)
(* channel tables (ChannelStore) and the Web task rows (task_state.py),    *)
(* one runner per batch, requests of Web threads, and process restarts.    *)
(*                                                                         *)
(* The service lives on one event loop. What it does between two awaits    *)
(* spans several commits; `loop` names the work in progress, and nothing   *)
(* else runs on the loop until it is "idle" again. Web threads (create,    *)
(* clear, index publications) and crashes come between any two commits.    *)
(***************************************************************************)
EXTENDS ChannelStore, Integers

CONSTANTS
  UnknownSize,   \* packages whose snapshot holds a file of unknown size
  NoPackage,
  Slots,         \* _download_batch_slots
  MaxRestarts,   \* bound: crashes and shutdowns
  MaxRequests    \* bound: cancel, retry, clear and replay requests

ASSUME OutboxAssumption ==
  /\ Outcomes = AttemptTerminal
  /\ UnknownSize \subseteq Packages
  /\ NoPackage \notin Packages
  /\ Slots \in Nat \ {0}
  /\ MaxRestarts \in Nat
  /\ MaxRequests \in Nat

VARIABLES
  task,       \* task[b]: the Web task row of b
  evidence,   \* evidence[b][p]: what the file rows of b's task say of p
  phase,      \* the life of the process, from "down" to "up" to "stopping"
  recheck,    \* tasks reconcile_channel_task_restarts has still to visit
  run,        \* run[b]: the asyncio task of b and its TaskNode
  callback,   \* batches whose ended asyncio task has its callback pending
  retried,    \* _auto_retried_batch_ids
  loop,       \* the work of several commits the event loop is in
  request,    \* request[b]: the next step of the Web thread that created b
  restarts, requests

tasks == <<task, evidence>>
process == <<phase, recheck, run, callback, retried, loop, request>>
bounds == <<restarts, requests>>
vars == <<store, tasks, process, bounds>>

-----------------------------------------------------------------------------
(* Task rows. "zombie" is a queued row that a replayed request created for *)
(* a batch that had already ended.                                         *)
TaskTerminal == {"completed", "completed_with_errors", "cancelled", "failed"}
TaskRetryable == {"completed_with_errors", "failed"}
TaskLive == {"active", "zombie"}

(* File rows: "partial" has rows without a failure but not all downloaded  *)
(* (a verified local file counts as skipped), "mixed" both kinds.          *)
Evidence == {"none", "partial", "done", "mixed", "failed", "upload_failed"}

HasFailure(b) ==
  \E p \in Packages : evidence[b][p] \in {"mixed", "failed", "upload_failed"}

(* update_task: an absent row stays absent, a terminal one refuses.        *)
UpdateTask(b, s) ==
  task' = [task EXCEPT ![b] = IF @ \in TaskLive THEN s ELSE @]

(* reconcile_task: no transition is refused.                               *)
ReconcileTask(b, s) ==
  task' = [task EXCEPT ![b] = IF @ = "absent" THEN @ ELSE s]

(* complete_task.                                                          *)
Completed(b) == IF HasFailure(b) THEN "completed_with_errors" ELSE "completed"

CompleteTask(b) == UpdateTask(b, Completed(b))

(* transition_file: an absent task row is created on the way.              *)
WriteEvidence(b, p, e) ==
  /\ evidence' = [evidence EXCEPT ![b][p] = e]
  /\ task' = [task EXCEPT ![b] = IF @ = "absent" THEN "active" ELSE @]

-----------------------------------------------------------------------------
NoRun == [pc |-> "none", package |-> NoPackage, todo |-> {}, stop |-> FALSE, fault |-> "no"]

Idle == [op |-> "idle", batch |-> NoBatch, status |-> "none"]

Begin(op, b, s) == loop' = [op |-> op, batch |-> b, status |-> s]

Doing(op, b) == loop.op = op /\ loop.batch = b

Ready == phase = "up" /\ loop = Idle

HasNode(b) == run[b].pc \in {"preparing", "admitting", "transfer", "ending"}

Running == {b \in Batches : HasNode(b)}

(* The asyncio task of b ends; its callback is called later.               *)
EndRun(b) ==
  /\ run' = [run EXCEPT ![b].pc = "none", ![b].package = NoPackage, ![b].todo = {},
                        ![b].fault = "no"]
  /\ callback' = callback \union {b}

(* _schedule_download_batch_owned.                                         *)
Scheduled(b) ==
  IF run[b].pc = "none" THEN [run EXCEPT ![b].pc = "waiting"] ELSE run

(* The loop of run_packages: the stop flag is read before a package is     *)
(* prepared and at no other place.                                         *)
Continue(b, left, stop) ==
  IF stop \/ left = {}
    THEN run' = [run EXCEPT ![b].pc = "ending", ![b].package = NoPackage,
                            ![b].todo = left, ![b].stop = stop]
    ELSE \E p \in left :
           run' = [run EXCEPT ![b].pc = "preparing", ![b].package = p,
                              ![b].todo = left, ![b].stop = stop]

Fault(b, cause) ==
  run' = [run EXCEPT ![b].pc = "ending", ![b].fault = cause]

Rest == UNCHANGED <<recheck, retried, request, phase, bounds>>

-----------------------------------------------------------------------------
(* Web threads.                                                            *)

Requested == requests < MaxRequests /\ requests' = requests + 1

Create(b, P) ==
  /\ phase = "up" /\ request[b] = "no"
  /\ CreateBatch(b, P)
  /\ request' = [request EXCEPT ![b] = "ensure"]
  /\ UNCHANGED <<tasks, phase, recheck, run, callback, retried, loop, bounds>>

(* A request with a known key returns the batch and dispatches it again.   *)
Replay(b) ==
  /\ phase = "up" /\ request[b] = "no" /\ batch[b] # "absent"
  /\ Requested
  /\ request' = [request EXCEPT ![b] = "ensure"]
  /\ UNCHANGED <<store, tasks, phase, recheck, run, callback, retried, loop, restarts>>

(* ensure_task: an existing row is left as it is.                          *)
Ensured(b) ==
  [task EXCEPT ![b] = IF @ # "absent" THEN @
                      ELSE IF batch[b] \in Active THEN "active" ELSE "zombie"]

EnsureTask(b) ==
  /\ request[b] = "ensure"
  /\ task' = Ensured(b)
  /\ request' = [request EXCEPT ![b] = "mark"]
  /\ UNCHANGED <<store, evidence, phase, recheck, run, callback, retried, loop, bounds>>

MarkOutbox(b) ==
  /\ request[b] = "mark"
  /\ MarkDispatched(b)
  /\ request' = [request EXCEPT ![b] = "schedule"]
  /\ UNCHANGED <<tasks, phase, recheck, run, callback, retried, loop, bounds>>

(* The command runs on the loop; a service that stops accepts none.        *)
Schedule(b) ==
  /\ request[b] = "schedule"
  /\ \/ Ready /\ run' = Scheduled(b)
     \/ phase = "stopping" /\ UNCHANGED run
  /\ request' = [request EXCEPT ![b] = "no"]
  /\ UNCHANGED <<store, tasks, phase, recheck, callback, retried, loop, bounds>>

(* clear_completed on the task page, for one of the rows it deletes.       *)
ClearTask(b) ==
  /\ phase = "up" /\ task[b] \in TaskTerminal
  /\ Requested
  /\ task' = [task EXCEPT ![b] = "absent"]
  /\ evidence' = [evidence EXCEPT ![b] = [p \in Packages |-> "none"]]
  /\ UNCHANGED <<store, process, restarts>>

Publish(p) ==
  /\ phase = "up"
  /\ PublishIndex(p)
  /\ UNCHANGED <<tasks, process, bounds>>

-----------------------------------------------------------------------------
(* One run of a batch.                                                     *)

(* run_download_batch behind the slots: the stale work of an older run is  *)
(* put back, or the batch is not resumable and the run ends. The loop      *)
(* calls the callback of an ended task before it starts a later task.      *)
StartRun(b) ==
  /\ Ready /\ run[b].pc = "waiting" /\ b \notin callback
  /\ Cardinality(Running) < Slots
  /\ \/ /\ PrepareForRun(b)
        /\ run' = [run EXCEPT ![b] = [NoRun EXCEPT !.pc = "preparing"]]
        /\ Begin("claim", b, "none")
        /\ UNCHANGED callback
     \/ /\ ~Resumable(b)
        /\ EndRun(b)
        /\ UNCHANGED <<store, loop>>
  /\ UNCHANGED tasks /\ Rest

ClaimTask(b) ==
  /\ Doing("claim", b)
  /\ ReconcileTask(b, "active")
  /\ Begin("sizes", b, "none")
  /\ UNCHANGED <<store, evidence, run, callback>> /\ Rest

(* Packages of unknown size fail before anything is fetched.               *)
FailUnknownSize(b) ==
  /\ Doing("sizes", b)
  /\ \E p \in Unfinished(b) \cap UnknownSize :
       /\ FinishPackage(b, p, "failed", FALSE)
       /\ WriteEvidence(b, p, "failed")
  /\ UNCHANGED <<run, callback, loop>> /\ Rest

(* The rest are the run's packages; add_active_task_node publishes the     *)
(* node. Without a package the run is over.                                *)
ActivateNode(b) ==
  /\ Doing("sizes", b)
  /\ Unfinished(b) \cap UnknownSize = {}
  /\ IF Unfinished(b) = {}
       THEN /\ CompleteTask(b)
            /\ EndRun(b)
       ELSE /\ task' = [task EXCEPT ![b] = IF @ = "absent" THEN "active" ELSE @]
            /\ Continue(b, Unfinished(b), FALSE)
            /\ UNCHANGED callback
  /\ loop' = Idle
  /\ UNCHANGED <<store, evidence>> /\ Rest

(* on_package_started after the refetch, when the disk may have room: a    *)
(* terminal task row refuses "queued" and the callback fails.              *)
RequestDisk(b) ==
  /\ Ready /\ run[b].pc = "preparing"
  /\ IF task[b] \in TaskTerminal
       THEN Fault(b, "callback")
       ELSE run' = [run EXCEPT ![b].pc = "admitting"]
  /\ UNCHANGED <<store, tasks, callback, loop>> /\ Rest

(* The reservation is granted.                                             *)
StartPackage(b) ==
  /\ Ready /\ run[b].pc = "admitting"
  /\ \/ /\ PackageStarted(b, run[b].package)
        /\ run' = [run EXCEPT ![b].pc = "transfer"]
     \/ /\ attempt[b][run[b].package] # "queued"
        /\ Fault(b, "callback")
        /\ UNCHANGED store
  /\ UNCHANGED <<tasks, callback, loop>> /\ Rest

(* What build_package_result and on_package_finished make of the file rows.*)
Unstarted(stop) == IF stop THEN "cancelled" ELSE "failed"

Outcome(e, stop) ==
  CASE e = "done" -> {"completed"}
    [] e = "partial" -> {"completed", "completed_with_errors"}
    [] e = "mixed" -> {"completed_with_errors"}
    [] e = "upload_failed" -> {"upload_failed"}
    [] e = "failed" -> {"failed", "not_found"}
    [] OTHER -> {Unstarted(stop)}

(* The same for a package none of whose files this run has looked at: the  *)
(* messages that are gone now count as not found, a file skipped by an     *)
(* older run as not downloaded.                                            *)
OutcomeOfRejected(e, stop) ==
  {"not_found"} \union
  CASE e = "done" -> {"completed", "completed_with_errors"}
    [] e \in {"partial", "mixed"} -> {"completed_with_errors", Unstarted(stop)}
    [] e \in {"upload_failed", "failed"} -> {e}
    [] OTHER -> {Unstarted(stop)}

(* The disk can never hold the package, seen before or during the wait:    *)
(* fail_package_for_disk_capacity, in the order of its commits.            *)
RejectPackage(b) ==
  /\ Ready /\ run[b].pc \in {"preparing", "admitting"}
  /\ FinishPackage(b, run[b].package, "failed", FALSE)
  /\ \E s \in OutcomeOfRejected(evidence[b][run[b].package], run[b].stop) :
       Begin("reject", b, s)
  /\ UNCHANGED <<tasks, run, callback>> /\ Rest

RejectFiles(b) ==
  /\ Doing("reject", b)
  /\ IF task[b] \in TaskTerminal
       THEN /\ Fault(b, "callback")
            /\ loop' = Idle
            /\ UNCHANGED tasks
       ELSE /\ WriteEvidence(b, run[b].package, "failed")
            /\ Begin("rejected", b, loop.status)
            /\ UNCHANGED run
  /\ UNCHANGED <<store, callback>> /\ Rest

FinishRejected(b) ==
  /\ Doing("rejected", b)
  /\ FinishPackage(b, run[b].package, loop.status, FALSE)
  /\ Continue(b, run[b].todo \ {run[b].package}, run[b].stop)
  /\ loop' = Idle
  /\ UNCHANGED <<tasks, callback>> /\ Rest

(* The transfers of the package's files.                                   *)
FileProgress(b, e) ==
  /\ phase = "up" /\ run[b].pc = "transfer"
  /\ e # evidence[b][run[b].package]
  /\ WriteEvidence(b, run[b].package, e)
  /\ UNCHANGED <<store, process, bounds>>

(* Its files have settled, or the stop kept them from starting. A failure  *)
(* is transient but for a channel that is gone.                            *)
FinishTransfer(b) ==
  /\ Ready /\ run[b].pc = "transfer"
  /\ LET p == run[b].package IN
       /\ \E s \in Outcome(evidence[b][p], run[b].stop) :
            \/ FinishPackage(b, p, s, FALSE)
            \/ s \in MayBeTransient /\ FinishPackage(b, p, s, TRUE)
       /\ Continue(b, run[b].todo \ {p}, run[b].stop)
  /\ UNCHANGED <<tasks, callback, loop>> /\ Rest

(* prepare_package or the downloader raises.                               *)
Break(b) ==
  /\ Ready /\ run[b].pc \in {"preparing", "transfer"}
  /\ Fault(b, "download")
  /\ UNCHANGED <<store, tasks, callback, loop>> /\ Rest

(* The finally block of run_packages: remove_active_task_node completes    *)
(* the Web task, or writes a cleared row anew, before the rest of the batch *)
(* is settled. A stopped node counts as cancelled unless all of the files   *)
(* it has seen are settled.                                                 *)
NodeStatus(b) == {Completed(b)} \union IF run[b].stop THEN {"cancelled"} ELSE {}

RemoveNode(b) ==
  \E s \in NodeStatus(b) :
    task' = [task EXCEPT ![b] = IF @ \in TaskTerminal THEN @ ELSE s]

EndPackages(b) ==
  /\ Ready /\ run[b].pc = "ending"
  /\ RemoveNode(b)
  /\ Begin(IF run[b].fault = "no" THEN "leftover" ELSE "abort", b, "none")
  /\ UNCHANGED <<store, evidence, run, callback>> /\ Rest

(* Packages of the run without a result.                                   *)
FinishLeftover(b) ==
  /\ Doing("leftover", b)
  /\ \E p \in run[b].todo :
       /\ FinishPackage(b, p, Unstarted(run[b].stop), ~run[b].stop)
       /\ run' = [run EXCEPT ![b].todo = @ \ {p}]
  /\ UNCHANGED <<tasks, callback, loop>> /\ Rest

EndNormally(b) ==
  /\ Doing("leftover", b) /\ run[b].todo = {}
  /\ IF run[b].stop THEN ReconcileTask(b, "cancelled") ELSE UNCHANGED task
  /\ EndRun(b)
  /\ loop' = Idle
  /\ UNCHANGED <<store, evidence>> /\ Rest

(* A mistake: the attempts and the batch row, but not the package rows.    *)
AbortBatchRow(b) ==
  /\ Doing("abort", b) /\ Unfinished(b) # {}
  /\ attempt' = SetAttempts(b, Unfinished(b), "failed")
  /\ batch' = [batch EXCEPT ![b] = "failed"]
  /\ UNCHANGED <<dispatch, allow, transient, current, last, succeeded>>
  /\ UNCHANGED <<tasks, run, callback, loop>> /\ Rest

(* A mistake: the finished packages of the batch fail too.                 *)
AbortEveryPackage(b) ==
  /\ Doing("abort", b)
  /\ \E p \in Members(b) : FinishPackage(b, p, "failed", run[b].fault = "download")
  /\ UNCHANGED <<tasks, run, callback, loop>> /\ Rest

(* The except branch: every unfinished attempt fails, then the task.       *)
AbortPackage(b) ==
  /\ Doing("abort", b)
  /\ \E p \in Unfinished(b) : FinishPackage(b, p, "failed", run[b].fault = "download")
  /\ UNCHANGED <<tasks, run, callback, loop>> /\ Rest

EndAborted(b) ==
  /\ Doing("abort", b) /\ Unfinished(b) = {}
  /\ UpdateTask(b, "failed")
  /\ EndRun(b)
  /\ loop' = Idle
  /\ UNCHANGED <<store, evidence>> /\ Rest

(* The done callback: _auto_retry_transient_batch, once per process.       *)
MayAutoRetry(b) ==
  /\ b \notin retried
  /\ CanRetry(b)
  /\ Retryable(b) \subseteq transient[b]

(* A mistake: the batch is put back and nobody runs it.                    *)
DoneCallbackUnscheduled(b) ==
  /\ Ready /\ b \in callback
  /\ callback' = callback \ {b}
  /\ IF MayAutoRetry(b)
       THEN RetryBatch(b) /\ retried' = retried \union {b}
       ELSE UNCHANGED <<store, retried>>
  /\ UNCHANGED <<tasks, run, recheck, request, phase, loop, bounds>>

DoneCallback(b) ==
  /\ Ready /\ b \in callback
  /\ callback' = callback \ {b}
  /\ IF MayAutoRetry(b)
       THEN /\ RetryBatch(b)
            /\ retried' = retried \union {b}
            /\ run' = Scheduled(b)
       ELSE UNCHANGED <<store, retried, run>>
  /\ UNCHANGED <<tasks, recheck, request, phase, loop, bounds>>

(* batch_timeout_sec is over: wait_for cancels run_download_batch, whose   *)
(* handlers run before the timeout is seen.                                *)
TimeOut(b) ==
  /\ Ready /\ HasNode(b)
  /\ RemoveNode(b)
  /\ Begin("timeout", b, "none")
  /\ UNCHANGED <<store, evidence, run, callback>> /\ Rest

-----------------------------------------------------------------------------
(* Commands of the user, which run on the loop.                            *)

(* cancel_download_batch: a batch with a node is asked to stop, any other  *)
(* is cancelled on the spot.                                               *)
Cancel(b) ==
  /\ Ready /\ task[b] # "absent"
  /\ Requested
  /\ IF HasNode(b)
       THEN /\ run' = [run EXCEPT ![b].stop = TRUE]
            /\ UpdateTask(b, "cancelled")
            /\ UNCHANGED loop
       ELSE /\ run' = [run EXCEPT ![b].pc = "none"]
            /\ Begin("cancel", b, "none")
            /\ UNCHANGED task
  /\ UNCHANGED <<store, evidence, callback, phase, recheck, retried, request, restarts>>

(* _cancel_unfinished_download_batch, for a command and for a timeout.     *)
CancelPackage(b) ==
  /\ Doing("cancel", b) \/ Doing("timeout", b)
  /\ \E p \in Unfinished(b) : FinishPackage(b, p, "cancelled", FALSE)
  /\ UNCHANGED <<tasks, run, callback, loop>> /\ Rest

EndCancelled(b) ==
  /\ Doing("cancel", b) \/ Doing("timeout", b)
  /\ Unfinished(b) = {}
  /\ UpdateTask(b, "cancelled")
  /\ IF loop.op = "timeout" THEN EndRun(b) ELSE UNCHANGED <<run, callback>>
  /\ loop' = Idle
  /\ UNCHANGED <<store, evidence>> /\ Rest

(* schedule_download_retry, or the keyword monitor's retry of a batch      *)
(* whose task row is gone: the store's retry, then the task's.             *)
RetryDownload(b) ==
  /\ Ready /\ run[b].pc = "none"
  /\ task[b] \in TaskRetryable \union {"absent"}
  /\ Requested
  /\ RetryBatch(b)
  /\ Begin("retry", b, "none")
  /\ UNCHANGED <<tasks, run, callback, phase, recheck, retried, request, restarts>>

RetryTask(b) ==
  /\ Doing("retry", b)
  /\ task' = [Ensured(b) EXCEPT ![b] = IF @ \in TaskRetryable THEN "active" ELSE @]
  /\ run' = Scheduled(b)
  /\ loop' = Idle
  /\ UNCHANGED <<store, evidence, callback>> /\ Rest

-----------------------------------------------------------------------------
(* The process.                                                            *)

Vanish ==
  /\ phase' = "down"
  /\ recheck' = {}
  /\ run' = [b \in Batches |-> NoRun]
  /\ callback' = {}
  /\ retried' = {}
  /\ loop' = Idle
  /\ request' = [b \in Batches |-> "no"]

Crash ==
  /\ phase # "down" /\ restarts < MaxRestarts
  /\ restarts' = restarts + 1
  /\ Vanish
  /\ UNCHANGED <<store, tasks, requests>>

(* stop(): every runner is cancelled and puts its batch back.              *)
Stop ==
  /\ Ready /\ restarts < MaxRestarts
  /\ restarts' = restarts + 1
  /\ phase' = "stopping"
  /\ callback' = {}
  /\ UNCHANGED <<store, tasks, recheck, run, retried, loop, request, requests>>

StopRun(b) ==
  /\ phase = "stopping" /\ loop = Idle /\ run[b].pc # "none"
  /\ IF run[b].pc = "waiting"
       THEN run' = [run EXCEPT ![b] = NoRun] /\ UNCHANGED <<task, loop>>
       ELSE RemoveNode(b) /\ Begin("requeue", b, "none") /\ UNCHANGED run
  /\ UNCHANGED <<store, evidence, callback>> /\ Rest

(* _requeue_interrupted_download_batch.                                    *)
RequeueBatch(b) ==
  /\ Doing("requeue", b)
  /\ \/ /\ PrepareForRun(b)
        /\ Begin("requeued", b, "none")
        /\ UNCHANGED run
     \/ /\ ~Resumable(b)
        /\ run' = [run EXCEPT ![b] = NoRun]
        /\ loop' = Idle
        /\ UNCHANGED store
  /\ UNCHANGED <<tasks, callback>> /\ Rest

RequeueTask(b) ==
  /\ Doing("requeued", b)
  /\ ReconcileTask(b, "active")
  /\ run' = [run EXCEPT ![b] = NoRun]
  /\ loop' = Idle
  /\ UNCHANGED <<store, evidence, callback>> /\ Rest

Exit ==
  /\ phase = "stopping" /\ loop = Idle
  /\ \A b \in Batches : run[b].pc = "none" /\ request[b] = "no"
  /\ Vanish
  /\ UNCHANGED <<store, tasks, bounds>>

Start ==
  /\ phase = "down"
  /\ phase' = "dispatch"
  /\ UNCHANGED <<store, tasks, recheck, run, callback, retried, loop, request, bounds>>

Pending == {b \in Batches : dispatch[b] = "pending"}

(* dispatch_pending_batches: the task row, then the outbox row.            *)
DispatchPending(b) ==
  /\ phase = "dispatch" /\ b \in Pending
  /\ IF task[b] = "absent"
       THEN task' = Ensured(b) /\ UNCHANGED store
       ELSE MarkDispatched(b) /\ UNCHANGED task
  /\ UNCHANGED <<evidence, process, bounds>>

EndDispatch ==
  /\ phase = "dispatch" /\ Pending = {}
  /\ phase' = "tasks"
  /\ recheck' = {b \in Batches : task[b] \in TaskLive}
  /\ UNCHANGED <<store, tasks, run, callback, retried, loop, request, bounds>>

(* reconcile_channel_task_restarts: the batch row decides.                 *)
RestartedTask(b) ==
  CASE batch[b] \in Active -> "active"
    [] batch[b] = "cancelled" -> "cancelled"
    [] batch[b] = "completed" -> Completed(b)
    [] OTHER -> IF HasFailure(b) THEN "completed_with_errors" ELSE "failed"

ReconcileRestart(b) ==
  /\ phase = "tasks" /\ b \in recheck
  /\ ReconcileTask(b, RestartedTask(b))
  /\ recheck' = recheck \ {b}
  /\ UNCHANGED <<store, evidence, phase, run, callback, retried, loop, request, bounds>>

EndRestarts ==
  /\ phase = "tasks" /\ recheck = {}
  /\ phase' = "batches"
  /\ UNCHANGED <<store, tasks, recheck, run, callback, retried, loop, request, bounds>>

ActiveBatches == {b \in Batches : dispatch[b] = "dispatched" /\ batch[b] \in Active}

(* A mistake: a cancelled task is not taken for an ended one.              *)
ContradictedByFailure == {b \in ActiveBatches : task[b] \in {"absent", "failed"}}

(* Active batches whose task has ended or is gone.                         *)
Contradicted == {b \in ActiveBatches : task[b] \notin TaskLive}

(* A mistake: the status of the task is taken for that of its packages.    *)
ProvenByTask(b, p) == task[b]

(* reconcile_download_batches: what the task row and the file rows prove.  *)
Proven(b, p) ==
  CASE task[b] = "cancelled" -> "cancelled"
    [] task[b] \in {"absent", "failed"} -> "failed"
    [] OTHER -> CASE evidence[b][p] = "done" -> "completed"
                  [] evidence[b][p] = "upload_failed" -> "upload_failed"
                  [] evidence[b][p] \in {"mixed", "partial"} -> "completed_with_errors"
                  [] OTHER -> "failed"

ReconcilePackage(b) ==
  /\ phase = "batches" /\ b \in Contradicted
  /\ \E p \in Unfinished(b) :
       LET s == Proven(b, p) IN FinishPackage(b, p, s, s \in MayBeTransient)
  /\ UNCHANGED <<tasks, process, bounds>>

(* A mistake: a batch that crashed in a download is not run again.         *)
GoUpForQueued ==
  /\ phase = "batches" /\ Contradicted = {}
  /\ phase' = "up"
  /\ run' = [b \in Batches |->
               IF b \in ActiveBatches /\ batch[b] = "queued"
                 THEN [NoRun EXCEPT !.pc = "waiting"] ELSE NoRun]
  /\ UNCHANGED <<store, tasks, recheck, callback, retried, loop, request, bounds>>

(* schedule_pending_download_batches; commands are accepted from here on.  *)
GoUp ==
  /\ phase = "batches" /\ Contradicted = {}
  /\ phase' = "up"
  /\ run' = [b \in Batches |->
               IF b \in ActiveBatches THEN [NoRun EXCEPT !.pc = "waiting"] ELSE NoRun]
  /\ UNCHANGED <<store, tasks, recheck, callback, retried, loop, request, bounds>>

-----------------------------------------------------------------------------
Init ==
  /\ StoreInit
  /\ task = [b \in Batches |-> "absent"]
  /\ evidence = [b \in Batches |-> [p \in Packages |-> "none"]]
  /\ phase = "down"
  /\ recheck = {}
  /\ run = [b \in Batches |-> NoRun]
  /\ callback = {}
  /\ retried = {}
  /\ loop = Idle
  /\ request = [b \in Batches |-> "no"]
  /\ restarts = 0
  /\ requests = 0

Web(b) == EnsureTask(b) \/ MarkOutbox(b) \/ Schedule(b)

Run(b) ==
  \/ StartRun(b) \/ ClaimTask(b) \/ FailUnknownSize(b) \/ ActivateNode(b)
  \/ RequestDisk(b) \/ StartPackage(b) \/ FinishTransfer(b)
  \/ RejectFiles(b) \/ FinishRejected(b)
  \/ EndPackages(b) \/ FinishLeftover(b) \/ EndNormally(b)
  \/ AbortPackage(b) \/ EndAborted(b) \/ DoneCallback(b)
  \/ CancelPackage(b) \/ EndCancelled(b) \/ RetryTask(b)
  \/ StopRun(b) \/ RequeueBatch(b) \/ RequeueTask(b)

Recover(b) == DispatchPending(b) \/ ReconcileRestart(b) \/ ReconcilePackage(b)

Process == Start \/ EndDispatch \/ EndRestarts \/ GoUp \/ Exit

(* What may happen and need not.                                           *)
Environment(b) ==
  \/ \E P \in SUBSET Packages : Create(b, P)
  \/ Replay(b) \/ ClearTask(b) \/ Cancel(b) \/ RetryDownload(b)
  \/ RejectPackage(b) \/ Break(b) \/ TimeOut(b)
  \/ \E e \in Evidence : FileProgress(b, e)

Next ==
  \/ \E b \in Batches : Web(b) \/ Run(b) \/ Recover(b) \/ Environment(b)
  \/ \E p \in Packages : Publish(p)
  \/ Process \/ Crash \/ Stop

Spec == Init /\ [][Next]_vars

(* The loop serves every ready task, reservations and transfers come to an *)
(* end, and the supervisor starts the process again.                       *)
Fairness ==
  /\ \A b \in Batches : WF_vars(Web(b)) /\ WF_vars(Run(b)) /\ WF_vars(Recover(b))
  /\ WF_vars(Process)

FairSpec == Spec /\ Fairness

-----------------------------------------------------------------------------
TypeOK ==
  /\ StoreTypeOK
  /\ task \in [Batches -> {"absent"} \union TaskLive \union TaskTerminal]
  /\ evidence \in [Batches -> [Packages -> Evidence]]
  /\ phase \in {"down", "dispatch", "tasks", "batches", "up", "stopping"}
  /\ recheck \subseteq Batches
  /\ run \in [Batches -> [pc : {"none", "waiting", "preparing", "admitting", "transfer", "ending"},
                          package : Packages \union {NoPackage},
                          todo : SUBSET Packages,
                          stop : BOOLEAN,
                          fault : {"no", "callback", "download"}]]
  /\ callback \subseteq Batches
  /\ retried \subseteq Batches
  /\ loop \in [op : {"idle", "claim", "sizes", "reject", "rejected", "leftover", "abort",
                     "cancel", "timeout", "retry", "requeue", "requeued"},
               batch : Batches \union {NoBatch},
               status : {"none"} \union AttemptTerminal]
  /\ request \in [Batches -> {"no", "ensure", "mark", "schedule"}]
  /\ restarts \in 0 .. MaxRestarts
  /\ requests \in 0 .. MaxRequests

(* Every commit of the service is an operation of the channel store, so    *)
(* that what ChannelStore proves of the tables holds here.                 *)
UsesStore == StoreSpec

(* "Already completed package attempts are not regressed": no restart,     *)
(* retry, cancellation or abort touches an attempt that completed.         *)
CompletedStays ==
  [][\A b \in Batches, p \in Packages :
       attempt[b][p] = "completed" => attempt'[b][p] = "completed"]_vars

Quiet(b) ==
  /\ phase = "up" /\ loop = Idle
  /\ run[b].pc = "none" /\ b \notin callback /\ request[b] = "no"

(* The two databases agree whenever nothing is under way for a batch: it   *)
(* has ended in both. A batch that only one of them calls active would     *)
(* never be run again and never be cleared. A row recreated by a replayed  *)
(* request is the exception.                                               *)
DatabasesAgree ==
  \A b \in Batches : Quiet(b) /\ batch[b] # "absent" =>
    /\ batch[b] \notin Active
    /\ dispatch[b] = "dispatched"
    /\ task[b] # "active"

(* Restarts do not undo a cancellation: startup closes the batch instead.  *)
StartupKeepsCancellation ==
  [][\A b \in Batches :
       phase \in {"dispatch", "tasks", "batches"} /\ task[b] = "cancelled" =>
         /\ task'[b] = "cancelled"
         /\ run'[b].pc = "none" \/ batch[b] = "absent"]_vars

(* A committed batch comes to an end, through any number of failed         *)
(* packages, requests and the restarts that happen.                        *)
BatchesEnd == \A b \in Batches : (batch[b] \in Active) ~> (batch[b] \notin Active)
=============================================================================
