------------------------------ MODULE ScanStore ------------------------------
(***************************************************************************)
(* The scan tables of ChannelLibraryStore (channel_library_store.py): one  *)
(* row per library, its scan jobs with their checkpoints, the message      *)
(* ranges a scan could not read and the targets of repair jobs.            *)
(*                                                                         *)
(* Every action is one transaction. A transaction that raises changes      *)
(* nothing; its guard says when it does not raise.                         *)
(***************************************************************************)
EXTENDS Naturals, Sequences, FiniteSets, FiniteSetsExt

CONSTANTS
  Libraries,
  Modes,          \* CHANNEL_SCAN_MODES
  MaxMessage,     \* bound: the highest message ID of a channel
  MaxJobs         \* bound: scan jobs ever created

ASSUME ScanStoreAssumption ==
  /\ Modes \subseteq {"messages", "comments", "both"}
  /\ MaxMessage \in Nat \ {0}
  /\ MaxJobs \in Nat \ {0}

VARIABLES
  library,    \* library[l]: the row of l, status "absent" while there is none
  jobs,       \* the rows of channel_scan_jobs, in the order of their IDs
  failures,   \* the rows of channel_scan_failures, in the order of their IDs
  held,       \* held[l]: what scans have stored of the messages of l, by content
  revisit     \* revisit[l]: messages a change of the mode has set to be read
              \* again, and that no scan of l has read since

contents == <<held, revisit>>
scans == <<library, jobs, failures, contents>>

-----------------------------------------------------------------------------
Messages == 1 .. MaxMessage
Kinds == {"full", "incremental", "repair"}

(* What a batch stores of its messages: media rows, unless the library     *)
(* only indexes comments, and the posts with their comment packages.       *)
Contents == {"media", "posts"}
Stores(mode) == {c \in Contents : mode = "both" \/ (c = "media" <=> mode = "messages")}

(* Everything the present mode of l asks for is stored of message i, which *)
(* was read since the mode was set.                                        *)
Stored(l, i) ==
  /\ i \notin revisit[l]
  /\ \A c \in Stores(library[l].mode) : <<c, i>> \in held[l]

(* Statuses of a job; "deleted" is a row that went with its library. *)
Recoverable == {"queued", "running", "paused_user", "auto_paused_download",
                "waiting_rate_limit", "stopped"}
Finished == {"completed", "partial"}
JobStatuses == Recoverable \union Finished \union {"failed", "deleted"}

Allowed(s) ==
  CASE s = "queued" -> {"running", "paused_user", "stopped", "failed"}
    [] s = "running" -> (Recoverable \ {"running"}) \union Finished \union {"failed"}
    [] s \in {"auto_paused_download", "waiting_rate_limit"}
         -> {"queued", "paused_user", "stopped", "failed"}
    [] s = "paused_user" -> {"queued", "stopped"}
    [] s = "stopped" -> {"queued"}
    [] OTHER -> {}

JobIds == DOMAIN jobs
FailureIds == DOMAIN failures
JobsIn(l, S) == {j \in JobIds : jobs[j].lib = l /\ jobs[j].status \in S}
Running == {j \in JobIds : jobs[j].status = "running"}
Unresolved(l) == {f \in FailureIds : failures[f].lib = l
                                       /\ failures[f].status \in {"open", "repairing"}}
Open(l) == {f \in Unresolved(l) : failures[f].status = "open"}
RangeOf(f) == failures[f].first .. failures[f].last
HasFinishedFull(l) == \E j \in JobsIn(l, Finished) : jobs[j].kind = "full"

LibraryStatus(s) ==
  CASE s = "paused_user" -> "paused"
    [] s = "stopped" -> "stopped"
    [] s = "completed" -> "ready"
    [] s = "partial" -> "partial"
    [] s = "failed" -> "failed"
    [] OTHER -> "indexing"

-----------------------------------------------------------------------------
(* Jobs are created from the library's checkpoint, not from the one of an  *)
(* earlier job; the unique index on recoverable jobs holds for every way.  *)
NewJob(l, kind, first, snap, targets) ==
  [lib |-> l, kind |-> kind, status |-> "queued", control |-> "none",
   waits |-> FALSE, start |-> first, snap |-> snap,
   next |-> Max({first, library[l].fetched + 1}),
   fetched |-> library[l].fetched, indexed |-> library[l].indexed,
   retries |-> 0, targets |-> targets]

MayCreate(l) ==
  /\ library[l].status # "absent"
  /\ JobsIn(l, Recoverable) = {}
  /\ Len(jobs) < MaxJobs

Insert(l, job) ==
  /\ jobs' = Append(jobs, job)
  /\ library' = [library EXCEPT ![l].status = "indexing"]

(* create_scan_job *)
CreateScanJob(l, kind, first, snap) ==
  /\ MayCreate(l)
  /\ first >= 1 /\ snap >= first - 1
  /\ kind = "incremental" => HasFinishedFull(l)
  /\ Insert(l, NewJob(l, kind, first, snap, <<>>))
  /\ UNCHANGED <<failures, contents>>

(* create_or_get_library_with_full_job for a chat without a library.       *)
CreateLibrary(l, mode, snap) ==
  /\ library[l].status = "absent"
  /\ Len(jobs) < MaxJobs
  /\ LET row == [mode |-> mode, status |-> "indexing", fetched |-> 0, indexed |-> 0]
     IN /\ library' = [library EXCEPT ![l] = row]
        /\ jobs' = Append(jobs,
             [lib |-> l, kind |-> "full", status |-> "queued", control |-> "none",
              waits |-> FALSE, start |-> 1, snap |-> snap, next |-> 1,
              fetched |-> 0, indexed |-> 0, retries |-> 0, targets |-> <<>>])
  /\ held' = [held EXCEPT ![l] = {}]
  /\ revisit' = [revisit EXCEPT ![l] = {}]
  /\ UNCHANGED failures

(* The same for a library whose mode it changes: the new full job starts   *)
(* at message 1, the watermarks of the library stay where they are.        *)
ChangeMode(l, mode, snap) ==
  /\ MayCreate(l)
  /\ library[l].mode # mode
  /\ jobs' = Append(jobs, [NewJob(l, "full", 1, snap, <<>>)
                             EXCEPT !.next = 1, !.fetched = 0, !.indexed = 0])
  /\ library' = [library EXCEPT ![l].mode = mode, ![l].status = "indexing"]
  /\ revisit' = [revisit EXCEPT ![l] = 1 .. library[l].fetched]
  /\ UNCHANGED <<failures, held>>

Targets(S, next) == [f \in S |-> [next |-> next[f], done |-> FALSE]]

(* create_repair_job for the open failures S of a partial library. *)
CreateRepairJob(l, S) ==
  /\ MayCreate(l)
  /\ library[l].status = "partial"
  /\ S # {} /\ S \subseteq Open(l)
  /\ Insert(l, NewJob(l, "repair", Min({failures[f].first : f \in S}),
                      Max({failures[f].through : f \in S}),
                      Targets(S, [f \in S |-> failures[f].first])))
  /\ failures' = [f \in FailureIds |->
       IF f \in S THEN [failures[f] EXCEPT !.status = "repairing"] ELSE failures[f]]
  /\ UNCHANGED contents

Unfinished(j) == {f \in DOMAIN jobs[j].targets :
                    ~jobs[j].targets[f].done /\ failures[f].status # "resolved"}

(* retry_failed_repair_job keeps the cursors of the unfinished targets. *)
RetryRepairJob(j) ==
  LET l == jobs[j].lib IN
  /\ jobs[j].kind = "repair" /\ jobs[j].status = "failed"
  /\ MayCreate(l)
  /\ Unfinished(j) # {}
  /\ Insert(l, NewJob(l, "repair", jobs[j].start, jobs[j].snap,
                      Targets(Unfinished(j), [f \in Unfinished(j) |-> jobs[j].targets[f].next])))
  /\ UNCHANGED <<failures, contents>>

-----------------------------------------------------------------------------
(* transition_job *)
MayMove(j, s) ==
  /\ s \in Allowed(jobs[j].status)
  /\ s = "running" => Running \subseteq {j}
  /\ s \in {"queued", "running"} => ~jobs[j].waits
  /\ s \in Finished =>
       /\ jobs[j].fetched >= jobs[j].snap
       /\ jobs[j].indexed >= jobs[j].snap
       /\ \A f \in DOMAIN jobs[j].targets : jobs[j].targets[f].done
  /\ s = "completed" => Unresolved(jobs[j].lib) = {}

(* A mistake: the control request outlives the status it was made for.     *)
TransitionKeepingControl(j, s) ==
  /\ MayMove(j, s)
  /\ jobs' = [jobs EXCEPT ![j].status = s,
                ![j].waits = IF s = "waiting_rate_limit" THEN TRUE ELSE @]
  /\ library' = [library EXCEPT ![jobs[j].lib].status = LibraryStatus(s)]
  /\ UNCHANGED <<failures, contents>>

Transition(j, s) ==
  /\ MayMove(j, s)
  /\ jobs' = [jobs EXCEPT ![j].status = s,
                ![j].waits = IF s = "waiting_rate_limit" THEN TRUE ELSE @,
                ![j].control = IF s = "running" THEN @ ELSE "none"]
  /\ library' = [library EXCEPT ![jobs[j].lib].status = LibraryStatus(s)]
  /\ UNCHANGED <<failures, contents>>

(* claim_next_job: the oldest queued job, when no job is running. *)
Queued == {j \in JobIds : jobs[j].status = "queued"}
Claim(j) ==
  /\ Running = {} /\ Queued # {} /\ j = Min(Queued)
  /\ jobs' = [jobs EXCEPT ![j].status = "running"]
  /\ library' = [library EXCEPT ![jobs[j].lib].status = "indexing"]
  /\ UNCHANGED <<failures, contents>>

(* request_job_control: a stop is not weakened to a pause. *)
RequestControl(j, action) ==
  /\ jobs[j].status = "running"
  /\ jobs' = [jobs EXCEPT ![j].control = IF @ = "stop" THEN "stop" ELSE action]
  /\ UNCHANGED <<library, failures, contents>>

(* consume_job_control *)
ControlStatus(c) == IF c = "pause" THEN "paused_user" ELSE "stopped"
ConsumeControl(j) ==
  /\ jobs[j].status = "running" /\ jobs[j].control # "none"
  /\ LET s == ControlStatus(jobs[j].control)
     IN /\ jobs' = [jobs EXCEPT ![j].status = s, ![j].control = "none"]
        /\ library' = [library EXCEPT ![jobs[j].lib].status = LibraryStatus(s)]
  /\ UNCHANGED <<failures, contents>>

(* The rate limit of a job has run out. *)
Elapse(j) ==
  /\ jobs[j].waits
  /\ jobs' = [jobs EXCEPT ![j].waits = FALSE]
  /\ UNCHANGED <<library, failures, contents>>

(* recover_interrupted_jobs *)
Interrupted(job) ==
  \/ job.status \in {"running", "auto_paused_download"}
  \/ job.status = "waiting_rate_limit" /\ ~job.waits
Recovered(job) ==
  IF ~Interrupted(job) THEN job
  ELSE [job EXCEPT !.control = "none", !.status =
          IF job.control = "none" THEN "queued" ELSE ControlStatus(job.control)]
RecoverJobs ==
  /\ jobs' = [j \in JobIds |-> Recovered(jobs[j])]
  /\ library' = [l \in Libraries |->
       LET waiting == {jobs'[j].status : j \in JobsIn(l, JobStatuses)}
                        \intersect {"queued", "paused_user", "stopped"}
       IN IF waiting = {} THEN library[l]
          ELSE [library[l] EXCEPT !.status = LibraryStatus(CHOOSE s \in waiting : TRUE)]]
  /\ UNCHANGED <<failures, contents>>

-----------------------------------------------------------------------------
(* record_job_retry *)
RecordRetry(j) ==
  /\ jobs[j].status = "running"
  /\ jobs' = [jobs EXCEPT ![j].retries = @ + 1]
  /\ UNCHANGED <<library, failures, contents>>

(* A mistake: the cursor that passes the range also finishes the target.   *)
CommitFetchedDone(j, last, read, target) ==
  LET l == jobs[j].lib
      fetched == Max({jobs[j].fetched, last})
  IN /\ jobs[j].status = "running"
     /\ jobs[j].start - 1 <= last /\ last <= jobs[j].snap
     /\ jobs' = [jobs EXCEPT ![j].next = Max({@, last + 1}),
                   ![j].fetched = fetched, ![j].retries = 0,
                   ![j].targets = [f \in DOMAIN @ |->
                     IF f = target THEN [next |-> last + 1, done |-> TRUE] ELSE @[f]]]
     /\ library' = [library EXCEPT ![l].fetched = Max({@, fetched})]
     /\ held' = [held EXCEPT ![l] = @ \union (Stores(library[l].mode) \X read)]
     /\ revisit' = [revisit EXCEPT ![l] = @ \ read]
     /\ UNCHANGED failures

(* commit_fetched_batch: the messages `read` (none for a batch that was    *)
(* recorded as failed) up to `last`, with the cursor of a repair target.   *)
(* Of the messages only what the mode asks for is stored.                  *)
CommitFetched(j, last, read, target) ==
  LET l == jobs[j].lib
      fetched == Max({jobs[j].fetched, last})
  IN /\ jobs[j].status = "running"
     /\ jobs[j].start - 1 <= last /\ last <= jobs[j].snap
     /\ jobs' = [jobs EXCEPT ![j].next = Max({@, last + 1}),
                   ![j].fetched = fetched, ![j].retries = 0,
                   ![j].targets = [f \in DOMAIN @ |->
                     IF f = target THEN [next |-> last + 1, done |-> FALSE] ELSE @[f]]]
     /\ library' = [library EXCEPT ![l].fetched = Max({@, fetched})]
     /\ held' = [held EXCEPT ![l] = @ \union (Stores(library[l].mode) \X read)]
     /\ revisit' = [revisit EXCEPT ![l] = @ \ read]
     /\ UNCHANGED failures

(* advance_index_checkpoint, for a library that only indexes comments.     *)
IndexedTo(j, through) == Max({jobs[j].indexed, through})
Advance(j, through) ==
  /\ jobs[j].status = "running" /\ through <= jobs[j].fetched
  /\ jobs' = [jobs EXCEPT ![j].indexed = IndexedTo(j, through)]
  /\ library' = [library EXCEPT ![jobs[j].lib].indexed = Max({@, IndexedTo(j, through)})]
  /\ UNCHANGED <<failures, contents>>

(* publish_indexed_packages as far as the watermarks go: the unresolved    *)
(* failures in `uncertain` reach further, a fetched target is resolved.    *)
MayPublish(j, through) ==
  /\ jobs[j].status = "running"
  /\ through <= jobs[j].fetched /\ through <= jobs[j].snap

Resolvable(j, f) ==
  /\ f \in DOMAIN jobs[j].targets
  /\ jobs[j].targets[f].next > failures[f].last
  /\ ~jobs[j].targets[f].done
  /\ failures[f].status # "resolved"

(* A mistake: a failure whose packages are published counts as repaired.   *)
PublishResolvingTouched(j, through, uncertain, resolved) ==
  LET l == jobs[j].lib
  IN /\ MayPublish(j, through)
     /\ jobs' = [jobs EXCEPT ![j].indexed = IndexedTo(j, through)]
     /\ library' = [library EXCEPT ![l].indexed = Max({@, IndexedTo(j, through)})]
     /\ failures' = [f \in FailureIds |->
          IF f \in resolved \union uncertain
          THEN [failures[f] EXCEPT !.status = "resolved"] ELSE failures[f]]
     /\ UNCHANGED contents

Publish(j, through, uncertain, resolved) ==
  LET l == jobs[j].lib
  IN /\ MayPublish(j, through)
     /\ \A f \in resolved : Resolvable(j, f)
     /\ jobs' = [jobs EXCEPT ![j].indexed = IndexedTo(j, through),
                   ![j].targets = [f \in DOMAIN @ |->
                     IF f \in resolved THEN [@[f] EXCEPT !.done = TRUE] ELSE @[f]]]
     /\ library' = [library EXCEPT ![l].indexed = Max({@, IndexedTo(j, through)})]
     /\ failures' = [f \in FailureIds |->
          IF f \in resolved THEN [failures[f] EXCEPT !.status = "resolved"]
          ELSE IF f \in uncertain
               THEN [failures[f] EXCEPT !.through = Max({@, through})]
               ELSE failures[f]]
     /\ UNCHANGED contents

(* A mistake: the later of two adjacent ranges takes the place of both.    *)
RecordFailureReplacing(j, first, last) ==
  LET near == {f \in FailureIds : /\ failures[f].job = j /\ failures[f].status = "open"
                                  /\ failures[f].first <= last + 1
                                  /\ failures[f].last >= first - 1}
      row == [lib |-> jobs[j].lib, job |-> j, first |-> first, last |-> last,
              through |-> last, status |-> "open"]
  IN /\ failures' = IF near = {} THEN Append(failures, row)
                    ELSE [failures EXCEPT ![Min(near)] = row]
     /\ UNCHANGED <<library, jobs, contents>>

(* record_failed_range: adjacent open ranges of the same job become one.   *)
RecordFailure(j, first, last) ==
  LET near == {f \in FailureIds : /\ failures[f].job = j /\ failures[f].status = "open"
                                  /\ failures[f].first <= last + 1
                                  /\ failures[f].last >= first - 1}
      merged == [failures[Min(near)] EXCEPT
                   !.first = Min({first} \union {failures[f].first : f \in near}),
                   !.last = Max({last} \union {failures[f].last : f \in near}),
                   !.through = Max({last} \union {failures[f].through : f \in near})]
  IN /\ failures' =
          IF near = {}
          THEN Append(failures, [lib |-> jobs[j].lib, job |-> j, first |-> first,
                                 last |-> last, through |-> last, status |-> "open"])
          ELSE [f \in FailureIds |->
                  IF f = Min(near) THEN merged
                  ELSE IF f \in near THEN [failures[f] EXCEPT !.status = "deleted"]
                  ELSE failures[f]]
     /\ UNCHANGED <<library, jobs, contents>>

(* delete_library: the rows of the library go with it. A stopped job does  *)
(* not count as active scan work.                                          *)
NoLibrary == [mode |-> "messages", status |-> "absent", fetched |-> 0, indexed |-> 0]
DeleteLibrary(l) ==
  /\ library[l].status # "absent"
  /\ JobsIn(l, Recoverable \ {"stopped"}) = {}
  /\ library' = [library EXCEPT ![l] = NoLibrary]
  /\ jobs' = [j \in JobIds |->
       IF jobs[j].lib = l THEN [jobs[j] EXCEPT !.status = "deleted"] ELSE jobs[j]]
  /\ failures' = [f \in FailureIds |->
       IF failures[f].lib = l THEN [failures[f] EXCEPT !.status = "deleted"] ELSE failures[f]]
  /\ held' = [held EXCEPT ![l] = {}]
  /\ revisit' = [revisit EXCEPT ![l] = {}]

ScanStoreInit ==
  /\ library = [l \in Libraries |-> NoLibrary]
  /\ jobs = <<>> /\ failures = <<>>
  /\ held = [l \in Libraries |-> {}]
  /\ revisit = [l \in Libraries |-> {}]
=============================================================================
