---------------------------- MODULE FileLifecycle ----------------------------
(***************************************************************************)
(* The files of one package on their way through the queue, the workers,   *)
(* the download and the upload, and what the Web task store is told about  *)
(* them (download_entry.py, download_queue.py, download_lifecycle.py,      *)
(* task_state.py).                                                         *)
(*                                                                         *)
(* Everything runs on the event loop except the task store, which is       *)
(* called in threads (asyncio.to_thread) and locks each call: a lifecycle  *)
(* first asks whether the task is terminal and then writes, in two calls.  *)
(***************************************************************************)
EXTENDS Naturals, FiniteSets, Sequences

CONSTANTS
  Missing,      \* number of messages that could not be fetched
  Fetched,      \* number of messages to download
  Workers,      \* max_download_task
  CloudUpload,  \* enable_upload_file and after_upload_file_delete
  MaxFaults     \* bound: writes of the task store that raise (database locked)

ASSUME FileAssumption ==
  /\ Missing \in Nat /\ Fetched \in Nat
  /\ Workers \in Nat \ {0}
  /\ CloudUpload \in BOOLEAN
  /\ MaxFaults \in Nat

Last == Missing + Fetched

Messages == 1 .. Last   \* in the order of node.download_status

VARIABLES
  producer,   \* the package task: where it is, the next message to enqueue
  stop,       \* node.is_stop_transmission
  result,     \* node.download_status
  counted,    \* node._download_result_status, which the counters follow
  total,      \* node.total_download_task
  queue,      \* the download queue
  permit,     \* permit[m]: m's intent at the activity gate
  at, goal,   \* the lifecycle of a file: its next step, the row status to write
  keep,       \* lifecycles whose next write includes a status of the task
  handling,   \* lifecycles in an except clause
  snap,       \* snap[m]: the snapshot_node of m's lifecycle
  task, file, \* the task store: the task row and file rows
  local,      \* files on the disk
  cloud,      \* what became of the upload of a file
  faults

nodeVars == <<stop, result, counted, total>>
rows == <<task, file>>
disk == <<local, cloud>>
life == <<at, goal, keep, handling, snap>>
vars == <<producer, nodeVars, queue, permit, life, rows, disk, faults>>

-----------------------------------------------------------------------------
Terminal == {"cancelled", "completed"}   \* "live" otherwise

Results == {"Success", "Skip", "Failed"}

RowStatus == {"none", "queued", "downloading", "downloaded", "skipped", "failed",
              "uploading", "uploaded", "upload_failed"}

DownloadResults == {"downloaded", "skipped", "failed"}

UploadStates == {"uploading", "uploaded", "upload_failed"}

(* _file_status_from_download_status.                                      *)
Mapped(r) ==
  CASE r = "Success" -> "downloaded" [] r = "Failed" -> "failed"
    [] r = "Skip" -> "skipped"       [] OTHER -> "downloading"

Known == {m \in Messages : result[m] # "none"}

Counted == {m \in Messages : counted[m] # "none"}

Queued == {m \in Messages : at[m] = "queued"}

Busy == {m \in Messages : at[m] \notin {"absent", "queued", "over"}}

(* active_file_lifecycles, and the items task_done() has not been called for. *)
Active == {m \in Busy : at[m] # "activating"}

Unfinished == Queued \union Busy

NoSnapshot ==
  [status |-> "none", seen |-> [m \in Messages |-> "none"], next |-> 0,
   value |-> "none", size |-> 0]

Move(m, step, status) ==
  /\ at' = [at EXCEPT ![m] = step]
  /\ goal' = [goal EXCEPT ![m] = status]
  /\ keep' = keep \ {m}
  /\ handling' = handling \ {m}
  /\ snap' = [snap EXCEPT ![m] = NoSnapshot]

-----------------------------------------------------------------------------
(* _status_from_node, as snapshot_node uses it. prescan_batch_in_progress  *)
(* is taken back when the package task ends.                               *)
NodeStatus ==
  IF task \in Terminal THEN task
  ELSE IF producer.at = "abandoned" /\ total > 0 /\ Cardinality(Counted) >= total
    THEN "completed"
    ELSE IF stop THEN "cancelled" ELSE "live"

(* A failure in the node: status and statistics.                           *)
RecordFailureUncounted(m) ==   \* A mistake: not counted.
  /\ result' = [result EXCEPT ![m] = "Failed"]
  /\ UNCHANGED counted

RecordFailure(m) ==
  /\ result' = [result EXCEPT ![m] = "Failed"]
  /\ counted' = [counted EXCEPT ![m] = "Failed"]

(* enqueue_download up to the registration of the intent: the rows are     *)
(* written on the loop. A write that raises makes the message a failure.   *)
EnqueueRow(m) ==
  /\ producer.at = "listing" /\ producer.next = m
  /\ result' = [result EXCEPT ![m] = "Downloading"]
  /\ task' = NodeStatus
  /\ file' = [file EXCEPT ![m] = "queued"]
  /\ producer' = [producer EXCEPT !.at = "registering"]
  /\ UNCHANGED <<stop, counted, total, queue, permit, life, disk, faults>>

After(m) == [at |-> IF m = Last THEN "waiting" ELSE "listing", next |-> m + 1]

EnqueueFails(m) ==
  /\ producer.at = "listing" /\ producer.next = m
  /\ faults < MaxFaults /\ faults' = faults + 1
  /\ RecordFailure(m)
  /\ total' = total + 1
  /\ task' \in {task, NodeStatus}
  /\ producer' = After(m)
  /\ UNCHANGED <<stop, file, queue, permit, life, disk>>

Enqueue(m) ==
  /\ producer.at = "registering" /\ producer.next = m
  /\ permit' = [permit EXCEPT ![m] = "waiting"]
  /\ queue' = Append(queue, m)
  /\ Move(m, "queued", "none")
  /\ total' = total + 1
  /\ producer' = After(m)
  /\ UNCHANGED <<stop, result, counted, rows, disk, faults>>

(* The poll of _package_download_complete, queue.join() and the poll of    *)
(* active_file_lifecycles, in this order; then build_package_result.       *)
EndWaitForResults ==   \* A mistake: a stop does not end the wait.
  /\ producer.at = "waiting"
  /\ \A m \in Messages : result[m] \in Results
  /\ producer' = [producer EXCEPT !.at = "joining"]

EndWait ==
  /\ producer.at = "waiting"
  /\ \/ \A m \in Messages : result[m] \in Results
     \/ stop
  /\ producer' = [producer EXCEPT !.at = "joining"]

JoinAtOnce ==   \* A mistake: queue.join() is left out.
  /\ producer.at = "joining"
  /\ producer' = [producer EXCEPT !.at = "settling"]

Join ==
  /\ producer.at = "joining" /\ Unfinished = {}
  /\ producer' = [producer EXCEPT !.at = "settling"]

Settle ==
  /\ producer.at = "settling" /\ Active = {}
  /\ producer' = [producer EXCEPT !.at = "done"]

(* The batch timeout or a shutdown cancels the package task at an await.   *)
Abandon ==
  /\ producer.at \notin {"done", "abandoned"}
  /\ producer' = [producer EXCEPT !.at = "abandoned"]

Wait ==
  /\ EndWait \/ Join \/ Settle \/ Abandon
  /\ UNCHANGED <<nodeVars, queue, permit, life, rows, disk, faults>>

(* _cancel_download_batch_command.                                         *)
Cancel ==
  /\ ~stop
  /\ producer.at \notin {"done", "abandoned"}
  /\ stop' = TRUE
  /\ task' = IF task = "live" THEN "cancelled" ELSE task
  /\ UNCHANGED <<producer, result, counted, total, queue, permit, life, file, disk, faults>>

-----------------------------------------------------------------------------
(* run_worker.                                                             *)
Drop(m) ==
  /\ Move(m, "over", "none")
  /\ permit' = [permit EXCEPT ![m] = "released"]

Take(m) ==
  /\ queue # <<>> /\ m = Head(queue)
  /\ Cardinality(Busy) < Workers
  /\ queue' = Tail(queue)
  /\ IF stop
       THEN Drop(m)
       ELSE /\ Move(m, "activating", "none")
            /\ UNCHANGED permit
  /\ UNCHANGED <<producer, nodeVars, rows, disk, faults>>

Activate(m) ==
  /\ at[m] = "activating"
  /\ permit' = [permit EXCEPT ![m] = "active"]
  /\ Move(m, "read", "downloading")
  /\ UNCHANGED <<producer, nodeVars, queue, rows, disk, faults>>

(* The end of a lifecycle and the finally clause of the worker.            *)
Finish(m) ==
  /\ Move(m, "over", "none")
  /\ permit' = [permit EXCEPT ![m] = "released"]

(* The call terminal_safe_task_updates: may the status be written?         *)
ReadTask(m) ==
  /\ at[m] = "read"
  /\ at' = [at EXCEPT ![m] = "write"]
  /\ keep' = IF task \in Terminal THEN keep ELSE keep \union {m}
  /\ UNCHANGED <<producer, nodeVars, queue, permit, goal, handling, snap, rows, disk, faults>>

(* The call transition_file, which refuses to reopen a terminal task.      *)
RefusedNever(m) == FALSE   \* A mistake: any status may follow.

Refused(m) == m \in keep /\ task \in Terminal

Commit(m) ==
  /\ file' = [file EXCEPT ![m] = goal[m]]
  /\ task' = IF m \in keep THEN "live" ELSE task

(* remove_uploaded_source.                                                 *)
SourceAfterUpload(m) ==   \* A mistake: deleted whatever the result.
  IF goal[m] \in {"uploaded", "upload_failed"} THEN local \ {m} ELSE local

SourceAfter(m) == IF goal[m] = "uploaded" THEN local \ {m} ELSE local

AfterWrite(status) ==
  CASE status = "downloading" -> "transfer"
    [] status = "uploading" -> "upload"
    [] status \in {"uploaded", "upload_failed"} -> "snapshot"
    [] OTHER -> "release"

WriteRow(m) ==
  /\ at[m] = "write"
  /\ ~Refused(m)
  /\ Commit(m)
  /\ counted' = IF goal[m] \in DownloadResults
                  THEN [counted EXCEPT ![m] = result[m]] ELSE counted
  /\ local' = SourceAfter(m)
  /\ IF goal[m] = "failed" /\ m \in handling
       THEN Finish(m)
       ELSE Move(m, AfterWrite(goal[m]), goal[m]) /\ UNCHANGED permit
  /\ UNCHANGED <<producer, stop, result, total, queue, cloud, faults>>

(* A transition that raises. In the download phase the file is recorded as *)
(* failed, in the upload phase the upload is; a second time the lifecycle  *)
(* just ends.                                                              *)
Handle(m, status) ==
  /\ at' = [at EXCEPT ![m] = "read"]
  /\ goal' = [goal EXCEPT ![m] = status]
  /\ keep' = keep \ {m}
  /\ handling' = handling \union {m}
  /\ UNCHANGED snap

WriteRaises(m) ==
  /\ at[m] = "write"
  /\ \/ Refused(m) /\ UNCHANGED faults
     \/ ~Refused(m) /\ faults < MaxFaults /\ faults' = faults + 1
  /\ \/ m \in handling /\ Finish(m) /\ UNCHANGED <<result, counted>>
     \/ /\ m \notin handling /\ goal[m] \in UploadStates
        /\ Handle(m, "upload_failed") /\ UNCHANGED <<result, counted, permit>>
     \/ /\ m \notin handling /\ goal[m] \notin UploadStates
        /\ Handle(m, "failed") /\ RecordFailure(m) /\ UNCHANGED permit
  /\ UNCHANGED <<producer, stop, total, queue, rows, disk>>

(* download_media: retries, stalls and stops end in one of three results.  *)
Transfer(m) ==
  /\ at[m] = "transfer"
  /\ \E r \in Results :
       /\ result' = [result EXCEPT ![m] = r]
       /\ local' = IF r = "Success" THEN local \union {m} ELSE local
       /\ Move(m, "read", Mapped(r))
  /\ UNCHANGED <<producer, stop, counted, total, queue, permit, rows, cloud, faults>>

(* run_upload_phase: the permit goes back before the cloud upload.         *)
ReleasePermit(m) ==
  /\ at[m] = "release"
  /\ permit' = [permit EXCEPT ![m] = "released"]
  /\ IF CloudUpload /\ result[m] = "Success"
       THEN Move(m, "read", "uploading")
       ELSE Move(m, "snapshot", "none")
  /\ UNCHANGED <<producer, nodeVars, queue, rows, disk, faults>>

Upload(m) ==
  /\ at[m] = "upload"
  /\ \/ /\ cloud' = [cloud EXCEPT ![m] = "stored"]
        /\ Move(m, "read", "uploaded")
     \/ /\ cloud' = [cloud EXCEPT ![m] = "failed"]
        /\ \/ Move(m, "read", "upload_failed")
           \/ Handle(m, "upload_failed")
  /\ UNCHANGED <<producer, nodeVars, queue, permit, rows, local, faults>>

-----------------------------------------------------------------------------
(* snapshot_node(node) in a thread at the end of a lifecycle: the status,  *)
(* create_task, then one row after the other. `seen` is the copy of the    *)
(* file rows create_task returned; a value read from the dictionary of the *)
(* node is written in the next step.                                       *)
SnapshotStatus(m) ==
  /\ at[m] = "snapshot"
  /\ at' = [at EXCEPT ![m] = "create"]
  /\ snap' = [snap EXCEPT ![m].status = NodeStatus]
  /\ UNCHANGED <<producer, nodeVars, queue, permit, goal, keep, handling, rows, disk, faults>>

NextRow(i) == {j \in Known : j > i}

Pick(m, seen, i, size) ==
  \E j \in NextRow(i) :
    /\ \A k \in NextRow(i) : j <= k
    /\ snap' = [snap EXCEPT ![m].seen = seen, ![m].next = j,
                            ![m].value = Mapped(result[j]), ![m].size = size]
    /\ at' = [at EXCEPT ![m] = "rows"]
    /\ UNCHANGED <<goal, keep, handling>>

SnapshotTask(m) ==
  /\ at[m] = "create"
  /\ IF task \in Terminal /\ snap[m].status # task
       THEN Finish(m) /\ UNCHANGED task
       ELSE /\ task' = snap[m].status
            /\ Pick(m, file, 0, Cardinality(Known))
            /\ UNCHANGED permit
  /\ UNCHANGED <<producer, nodeVars, queue, file, disk, faults>>

Protected(m) ==
  /\ snap[m].seen[snap[m].next] \in UploadStates
  /\ snap[m].value = "downloaded"

(* A message enqueued meanwhile ends the iteration with a RuntimeError.    *)
SnapshotRow(m) ==
  /\ at[m] = "rows"
  /\ file' = IF Protected(m) THEN file
              ELSE [file EXCEPT ![snap[m].next] = snap[m].value]
  /\ IF NextRow(snap[m].next) = {} \/ Cardinality(Known) # snap[m].size
       THEN Finish(m)
       ELSE /\ Pick(m, snap[m].seen, snap[m].next, snap[m].size)
            /\ UNCHANGED permit
  /\ UNCHANGED <<producer, nodeVars, queue, task, disk, faults>>

-----------------------------------------------------------------------------
Init ==
  /\ producer = [at |-> IF Fetched = 0 THEN "waiting" ELSE "listing", next |-> Missing + 1]
  /\ stop = FALSE
  /\ result = [m \in Messages |-> IF m <= Missing THEN "Failed" ELSE "none"]
  /\ counted = result
  /\ total = Missing
  /\ queue = <<>>
  /\ permit = [m \in Messages |-> "none"]
  /\ at = [m \in Messages |-> "absent"]
  /\ goal = [m \in Messages |-> "none"]
  /\ keep = {} /\ handling = {}
  /\ snap = [m \in Messages |-> NoSnapshot]
  /\ task = "live"
  /\ file = [m \in Messages |-> "none"]
  /\ local = {}
  /\ cloud = [m \in Messages |-> "none"]
  /\ faults = 0

Work(m) ==
  \/ Take(m) \/ Activate(m) \/ ReadTask(m) \/ WriteRow(m) \/ WriteRaises(m)
  \/ Transfer(m) \/ ReleasePermit(m) \/ Upload(m)
  \/ SnapshotStatus(m) \/ SnapshotTask(m) \/ SnapshotRow(m)

Produce(m) == EnqueueRow(m) \/ EnqueueFails(m) \/ Enqueue(m)

Next ==
  \/ \E m \in Messages : Produce(m) \/ Work(m)
  \/ Wait
  \/ Cancel

Spec == Init /\ [][Next]_vars

(* The loop runs what is ready; transfers and uploads have timeouts, and   *)
(* a scan that holds the gate ends.                                        *)
FairSpec ==
  /\ Spec
  /\ \A m \in Messages : WF_vars(Produce(m)) /\ WF_vars(Work(m))
  /\ WF_vars(Wait /\ producer'.at # "abandoned")

-----------------------------------------------------------------------------
Steps ==
  {"absent", "queued", "activating", "read", "write", "transfer", "release",
   "upload", "snapshot", "create", "rows", "over"}

Snapshots ==
  [status : Terminal \union {"live", "none"}, seen : [Messages -> RowStatus],
   next : 0 .. Last, value : RowStatus, size : 0 .. Last]

TypeOK ==
  /\ producer \in [at : {"listing", "registering", "waiting", "joining", "settling",
                         "done", "abandoned"}, next : 1 .. Last + 1]
  /\ stop \in BOOLEAN
  /\ result \in [Messages -> Results \union {"none", "Downloading"}]
  /\ counted \in [Messages -> Results \union {"none"}]
  /\ total \in 0 .. Last
  /\ queue \in Seq(Messages)
  /\ permit \in [Messages -> {"none", "waiting", "active", "released"}]
  /\ at \in [Messages -> Steps]
  /\ goal \in [Messages -> RowStatus]
  /\ keep \subseteq Messages /\ handling \subseteq Messages
  /\ snap \in [Messages -> Snapshots]
  /\ task \in Terminal \union {"live"}
  /\ file \in [Messages -> RowStatus]
  /\ local \subseteq Messages
  /\ cloud \in [Messages -> {"none", "stored", "failed"}]
  /\ faults \in 0 .. MaxFaults

(* A row that says a file was downloaded or more is backed by the file on  *)
(* the disk or in the cloud, one that says it was uploaded by the cloud,   *)
(* whatever late snapshots and failed writes make of the rows.             *)
RowsAreBacked ==
  \A m \in Messages :
    /\ file[m] \in {"downloaded"} \union UploadStates => m \in local \/ cloud[m] = "stored"
    /\ file[m] = "uploaded" => cloud[m] = "stored"

(* build_package_result is reached only when no file of the package is     *)
(* queued or in work and none holds or awaits a permit, also when a stop   *)
(* ends the wait while a worker has just taken a file.                     *)
ResultAfterWork ==
  producer.at = "done" =>
    /\ Unfinished = {} /\ queue = <<>>
    /\ \A m \in Messages : permit[m] \in {"none", "released"}

(* When the package is done, the counters follow download_status, each     *)
(* message once, and without a stop every message has a result and is      *)
(* counted, whichever write raised on the way.                             *)
CountersTellResults ==
  producer.at = "done" =>
    /\ \A m \in Messages : result[m] \in Results \/ counted[m] # "none" => counted[m] = result[m]
    /\ Cardinality(Counted) <= total
    /\ ~stop => Counted = Messages /\ total = Last

(* A terminal task row is not reopened by a write that asked before the    *)
(* row became terminal (terminal_safe_task_updates), nor by a snapshot.    *)
TerminalTaskStays == [][(task \in Terminal) => (task' = task)]_task

(* The package task ends, also after a stop that leaves files undone, and  *)
(* no intent of a queued file keeps scans from the gate forever, also when *)
(* the package task was cancelled and nobody waits for its files.          *)
PackageEnds ==
  /\ <>(producer.at \in {"done", "abandoned"})
  /\ \A m \in Messages : permit[m] \in {"waiting", "active"} ~> permit[m] = "released"

-----------------------------------------------------------------------------
(* The inductive invariant behind RowsAreBacked, ResultAfterWork and       *)
(* CountersTellResults.                                                    *)

(* A file on the disk or in the cloud; what a lifecycle is about to write. *)
Stored(m) == m \in local \/ cloud[m] = "stored"

Writing(m, S) == at[m] \in {"read", "write"} /\ goal[m] \in S

BeforeUpload(m) ==
  \/ at[m] \in {"absent", "queued", "activating", "transfer", "release", "upload"}
  \/ Writing(m, RowStatus \ {"uploaded", "upload_failed"})

FilesConsistent ==
  \A m \in Messages :
    /\ result[m] = "Success" => Stored(m)
    /\ BeforeUpload(m) => cloud[m] = "none"
    /\ Writing(m, {"downloaded"} \union UploadStates) => Stored(m)
    /\ Writing(m, {"uploaded"}) => cloud[m] = "stored"
    /\ at[m] = "upload" => m \in local
    /\ at[m] = "create" => snap[m].status # "none"
    /\ at[m] = "rows" =>
         /\ snap[m].next \in Messages
         /\ snap[m].value \notin UploadStates
         /\ snap[m].value = "downloaded" => Stored(snap[m].next)

QueueConsistent ==
  /\ \A i \in 1 .. Len(queue) : at[queue[i]] = "queued"
  /\ \A i, j \in 1 .. Len(queue) : queue[i] = queue[j] => i = j
  /\ \A m \in Messages : m >= producer.next => at[m] = "absent"
  /\ \A m \in Messages :
       permit[m] \in {"waiting", "active"} => at[m] \notin {"absent", "over"}

ProducerConsistent ==
  /\ total = producer.next - 1
  /\ producer.at \in {"waiting", "joining", "settling", "done"} => producer.next = Last + 1
  /\ producer.at \in {"joining", "settling", "done"} /\ ~stop =>
       \A m \in Messages : result[m] \in Results
  /\ producer.at \in {"settling", "done"} => Unfinished = {}

CountConsistent ==
  \A m \in Messages :
    /\ counted[m] \in {"none", result[m]}
    /\ result[m] \in Results => counted[m] = result[m] \/ Writing(m, DownloadResults)
    /\ Writing(m, DownloadResults) =>
         result[m] \in Results /\ (m \in handling => counted[m] = result[m])
    /\ at[m] \in {"queued", "activating", "transfer"} \/ Writing(m, {"downloading"})
         => counted[m] = "none"
    /\ m >= producer.next => counted[m] = "none"

IInv ==
  /\ TypeOK
  /\ RowsAreBacked
  /\ FilesConsistent
  /\ QueueConsistent
  /\ ProducerConsistent
  /\ CountConsistent
=============================================================================
