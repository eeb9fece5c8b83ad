------------------------------- MODULE TaskRuns -------------------------------
(***************************************************************************)
(* The rows of the Web task store and the download coroutines that a link  *)
(* ends in, whether it was confirmed in the Web console or in the bot      *)
(* (task_state.py, download_stat.py, package_download.py,                  *)
(* download_entry.py). What a single file goes through is in               *)
(* FileLifecycle.tla; here a file is queued, worked on, and over.          *)
(***************************************************************************)
EXTENDS Naturals, FiniteSets, FiniteSetsExt

CONSTANTS
  WebIds, BotIds,  \* task ids: "web-<time>-<n>", and the numbers of the bot
  Packages,        \* package ids in the order of their first message
  Media,           \* Media[p]: number of files of package p
  MaxRuns          \* bound: download coroutines

ASSUME RunAssumption ==
  /\ WebIds \intersect BotIds = {} /\ 0 \notin WebIds
  /\ BotIds \subseteq Nat \ {0}
  /\ Packages \subseteq Nat \ {0} /\ Packages # {}
  /\ Media \in [Packages -> Nat \ {0}]
  /\ MaxRuns \in Nat

Tasks == WebIds \union BotIds

Runs == 1 .. MaxRuns

FilesOf(p) == {p} \X (1 .. Media[p])

VARIABLES
  row,     \* row[t]: status in the task store, "none": no row
  node,    \* node[t]: the TaskNode
  active,  \* _active_task_nodes
  run,     \* run[r]: a coroutine that downloads
  work     \* <<r, f>>: file f that run r has put into the queue, and how far it is

runVars == <<row, node, active, run, work>>

-----------------------------------------------------------------------------
(* TERMINAL_TASK_STATUSES: "interrupted" is FAILED with the error          *)
(* restart_interrupted, "completed" is with or without errors.             *)
Terminal == {"completed", "cancelled", "failed", "interrupted"}

Working == {"queued", "downloading"}

(* ALLOWED_TASK_TRANSITIONS; a transition it refuses raises.               *)
Allowed(from, to) ==
  \/ from = to
  \/ from = "scanning" /\ to \in {"waiting", "queued"}
  \/ from = "waiting" /\ to = "queued"
  \/ from \in Working /\ to \in Working \union {"completed"}
  \/ from \notin Terminal /\ to \in Terminal \ {"completed"}

(* update_task: nothing without a row.                                     *)
Updated(t, status) == IF row[t] = "none" THEN "none" ELSE status

CanUpdate(t, status) == row[t] = "none" \/ Allowed(row[t], status)

-----------------------------------------------------------------------------
Counted(n) == Cardinality(n.counted)

AllCounted(n) == n.total > 0 /\ Counted(n) >= n.total

(* _status_from_node.                                                      *)
NodeStatusOfCounters(n) ==   \* Mutant: the batch of packages does not matter.
  IF AllCounted(n) THEN "completed"
  ELSE IF n.stop THEN "cancelled" ELSE IF n.running THEN "downloading" ELSE "queued"

NodeStatus(n) ==
  IF AllCounted(n) /\ ~n.batch THEN "completed"
  ELSE IF n.stop THEN "cancelled" ELSE IF n.running THEN "downloading" ELSE "queued"

(* snapshot_node: the row a snapshot leaves.                               *)
Snapshot(t) == IF row[t] \in Terminal THEN row[t] ELSE NodeStatus(node[t])

(* terminal_safe_task_updates: a file never reopens a row.                 *)
Safe(before, status) == IF before \in Terminal THEN before ELSE status

(* complete_task.                                                          *)
Complete(status) == IF status \in Terminal THEN status ELSE "completed"

(* remove_active_task_node.                                                *)
RemoveActive(t) ==
  /\ row' = IF t \in active THEN [row EXCEPT ![t] = Complete(Snapshot(t))] ELSE row
  /\ active' = active \ {t}

NewNode(running) ==
  [stop |-> FALSE, running |-> running, batch |-> FALSE, total |-> 0,
   counted |-> {}, ended |-> {}, missing |-> {}]

NoRun ==
  [task |-> 0, kind |-> "none", at |-> "free", offered |-> {}, sel |-> {},
   todo |-> {}, pkg |-> 0, next |-> 0]

Alive(r) == run[r].at \notin {"free", "over"}

FreeRun == CHOOSE r \in Runs : run[r].at = "free"

(* A coroutine is handed to the event loop.                                *)
Scheduled(t, kind, offered, sel) ==
  [NoRun EXCEPT !.task = t, !.kind = kind, !.at = "accepted",
                !.offered = offered, !.sel = sel]

WorkOf(r) == {f \in DOMAIN work[r] : work[r][f] # "none"}

-----------------------------------------------------------------------------
(* The coroutine is run for the first time. The Web coroutines first set   *)
(* the row to QUEUED, which raises for a terminal row, and add the node to *)
(* the active ones.                                                        *)
FirstStep(r) ==
  CASE run[r].kind = "prescan" -> "between"
    [] run[r].kind = "comment" -> "fetching"
    [] OTHER -> "listing"

PackagesOf(r) == run[r].offered \intersect run[r].sel

FirstPackage(r) == IF run[r].kind = "prescan" THEN 0 ELSE Min(PackagesOf(r))

BeginRun(r) ==
  LET t == run[r].task
      refused == t \in WebIds /\ ~CanUpdate(t, "queued")
  IN /\ run[r].at = "accepted"
     /\ IF refused
        THEN /\ run' = [run EXCEPT ![r].at = "over"]
             /\ UNCHANGED <<row, node, active>>
        ELSE /\ row' = IF t \in WebIds THEN [row EXCEPT ![t] = Updated(t, "queued")]
                       ELSE row
             /\ active' = active \union (IF t \in WebIds THEN {t} ELSE {})
             /\ node' = IF run[r].kind = "prescan"
                        THEN [node EXCEPT ![t].batch = TRUE] ELSE node
             /\ run' = [run EXCEPT ![r].at = FirstStep(r), ![r].todo = PackagesOf(r),
                                   ![r].pkg = FirstPackage(r), ![r].next = 1]
     /\ UNCHANGED work

(* run_packages, the head of its loop.                                     *)
BeginPackage(r) ==
  /\ run[r].at = "between"
  /\ run[r].todo # {} /\ ~node[run[r].task].stop
  /\ run' = [run EXCEPT ![r].at = "listing", ![r].pkg = Min(run[r].todo),
                        ![r].next = 1, ![r].todo = @ \ {Min(run[r].todo)}]
  /\ UNCHANGED <<row, node, active, work>>

(* ... and its finally, up to the report it waits for.                     *)
EndPackages(r) ==
  /\ run[r].at = "between"
  /\ run[r].todo = {} \/ node[run[r].task].stop
  /\ node' = [node EXCEPT ![run[r].task].batch = FALSE]
  /\ run' = [run EXCEPT ![r].at = "closing"]
  /\ UNCHANGED <<row, active, work>>

CloseRun(r) ==
  /\ run[r].at = "closing"
  /\ RemoveActive(run[r].task)
  /\ run' = [run EXCEPT ![r].at = "over"]
  /\ UNCHANGED <<node, work>>

(* scan_comment_range: the comments, or an exception after both ways of    *)
(* reading them have failed.                                               *)
FetchComments(r) ==
  /\ run[r].at = "fetching"
  /\ \/ run' = [run EXCEPT ![r].at = "listing"] /\ UNCHANGED <<row, active>>
     \/ RemoveActive(run[r].task) /\ run' = [run EXCEPT ![r].at = "over"]
  /\ UNCHANGED <<node, work>>

(* add_download_task. A file that is put into the queue again has no       *)
(* result any more but is still counted.                                   *)
Enqueue(r) ==
  LET t == run[r].task
      f == <<run[r].pkg, run[r].next>>
      last == run[r].next = Media[run[r].pkg]
  IN /\ run[r].at = "listing"
     /\ row' = [row EXCEPT ![t] = Safe(Snapshot(t), "queued")]
     /\ node' = [node EXCEPT ![t].total = @ + 1, ![t].ended = @ \ {f}]
     /\ work' = [work EXCEPT ![r][f] = "queued"]
     /\ run' = [run EXCEPT ![r].next = @ + 1,
                           ![r].at = IF last THEN "waiting" ELSE "listing"]
     /\ UNCHANGED active

(* The loops that wait for the results end with them or with a stop. Those *)
(* for comments ("comments": comments the bot has scanned) only count.     *)
IsComment(r) == run[r].kind \in {"comment", "comments"}

ResultsIn(r) ==
  LET t == run[r].task IN
    IF IsComment(r) THEN Counted(node[t]) >= Media[run[r].pkg]
    ELSE FilesOf(run[r].pkg) \subseteq node[t].ended

EndWait(r) ==
  /\ run[r].at = "waiting"
  /\ ResultsIn(r) \/ node[run[r].task].stop
  /\ IF IsComment(r)
     THEN RemoveActive(run[r].task) /\ run' = [run EXCEPT ![r].at = "over"]
     ELSE UNCHANGED <<row, active>> /\ run' = [run EXCEPT ![r].at = "joining"]
  /\ UNCHANGED <<node, work>>

(* queue.join(), which waits for the files of every task, and the finally  *)
(* of download_prepared_messages; run_packages goes on when the lifecycles *)
(* of the node are over, as they are then.                                 *)
Join(r) ==
  /\ run[r].at = "joining"
  /\ \A q \in Runs : WorkOf(q) = {}
  /\ IF node[run[r].task].batch THEN UNCHANGED <<row, active>>
     ELSE RemoveActive(run[r].task)
  /\ run' = [run EXCEPT ![r].at = IF run[r].kind = "prescan" THEN "between" ELSE "over"]
  /\ UNCHANGED <<node, work>>

-----------------------------------------------------------------------------
(* A worker drops a file of a stopped node, or starts its lifecycle.       *)
TakeFile(r, f) ==
  LET t == run[r].task IN
  /\ work[r][f] = "queued"
  /\ IF node[t].stop
     THEN /\ work' = [work EXCEPT ![r][f] = "none"]
          /\ UNCHANGED row
     ELSE /\ work' = [work EXCEPT ![r][f] = "busy"]
          /\ row' = [row EXCEPT ![t] = Safe(row[t], "downloading")]
  /\ UNCHANGED <<node, active, run>>

(* The result is counted, that of a message that is not there twice, which *)
(* only the bot's report sees; then the node is snapshot, unless that      *)
(* fails.                                                                  *)
EndFile(r, f) ==
  LET t == run[r].task
      Ended(missing) == [node[t] EXCEPT !.counted = @ \union {f}, !.ended = @ \union {f},
                                        !.missing = @ \union missing]
  IN /\ work[r][f] = "busy"
     /\ \E missing \in IF t \in BotIds THEN {{}, {f}} ELSE {{}} :
          /\ node' = [node EXCEPT ![t] = Ended(missing)]
          /\ row' \in {[row EXCEPT ![t] = Safe(row[t], NodeStatus(Ended(missing)))], row}
     /\ work' = [work EXCEPT ![r][f] = "none"]
     /\ UNCHANGED <<active, run>>

RunStep(r) ==
  \/ BeginRun(r) \/ BeginPackage(r) \/ EndPackages(r) \/ CloseRun(r)
  \/ FetchComments(r) \/ Enqueue(r) \/ EndWait(r) \/ Join(r)

FileStep(r) == \E f \in UNION {FilesOf(p) : p \in Packages} : TakeFile(r, f) \/ EndFile(r, f)

RunInit ==
  /\ row = [t \in Tasks |-> "none"]
  /\ node = [t \in Tasks |-> NewNode(FALSE)]
  /\ active = {}
  /\ run = [r \in Runs |-> NoRun]
  /\ work = [r \in Runs |-> [f \in UNION {FilesOf(p) : p \in Packages} |-> "none"]]
=============================================================================
