------------------------------- MODULE BotTasks -------------------------------
(***************************************************************************)
(* The link tasks of the management bot (bot.py): a link is scanned and    *)
(* previewed under a token, buttons confirm, change or cancel it, and a    *)
(* download gets a node that /stop finds in _bot.task_node. Handlers run   *)
(* on the event loop and are cut at their awaits. Not here: /download of   *)
(* a range, forwarded media and listen_forward.                            *)
(***************************************************************************)
EXTENDS TaskRuns

CONSTANTS
  Tokens,  \* tokens of previews
  Taps     \* handlers of a confirmation button that can be awaiting at a time

VARIABLES
  session,   \* pending_prescan_sessions: the next link is to be prescanned
  pending,   \* pending[k]: the preview with token k
  tap,       \* tap[h]: a confirmation that awaits its messages
  taskId,    \* task_id: the counter of gen_task_id
  taskNode   \* task_node

botVars == <<session, pending, tap, taskId, taskNode>>

NoPreview == [kind |-> "none", at |-> "none", sel |-> {}]

NoTap == [token |-> "none", kind |-> "none", sel |-> {}]

(* A link to a package shows the packages that follow it as well.          *)
Offered(kind) == IF kind = "comment" THEN {Min(Packages)} ELSE Packages

-----------------------------------------------------------------------------
StartPrescanMode ==
  /\ session' = TRUE
  /\ UNCHANGED <<runVars, pending, tap, taskId, taskNode>>

(* download_from_link up to the scan of the preview. The session stays on  *)
(* until the prescan has been shown.                                       *)
Link(k, kind) ==
  /\ pending[k].at = "none"
  /\ session => kind = "prescan"
  /\ ~session => kind # "prescan"
  /\ pending' = [pending EXCEPT ![k] = [NoPreview EXCEPT !.kind = kind, !.at = "scanning"]]
  /\ UNCHANGED <<runVars, session, tap, taskId, taskNode>>

Previewed(k) ==
  /\ pending[k].at = "scanning"
  /\ pending' = [pending EXCEPT ![k].at = "shown"]
  /\ session' = (session /\ pending[k].kind # "prescan")
  /\ UNCHANGED <<runVars, tap, taskId, taskNode>>

PreviewFails(k) ==
  /\ pending[k].at = "scanning"
  /\ pending' = [pending EXCEPT ![k].at = "gone"]
  /\ UNCHANGED <<runVars, session, tap, taskId, taskNode>>

(* The buttons of a prescan: toggle, select_page, clear.                   *)
Toggle(k) ==
  /\ pending[k].at = "shown" /\ pending[k].kind = "prescan"
  /\ \E sel \in {Packages, {}} \union {pending[k].sel \union {p} : p \in Packages}
                \union {pending[k].sel \ {p} : p \in Packages} :
       pending' = [pending EXCEPT ![k].sel = sel]
  /\ UNCHANGED <<runVars, session, tap, taskId, taskNode>>

TapCancel(k) ==
  /\ pending[k].at = "shown"
  /\ pending' = [pending EXCEPT ![k].at = "gone"]
  /\ UNCHANGED <<runVars, session, tap, taskId, taskNode>>

-----------------------------------------------------------------------------
(* A confirmation: what it downloads is fixed, then two messages are sent. *)
(* A package link downloads its package, or its package and the next n as  *)
(* a batch.                                                                *)
Selections(k) ==
  IF pending[k].kind = "prescan" THEN {pending[k].sel} \ {{}}
  ELSE {{p \in Offered(pending[k].kind) : p <= last} : last \in Offered(pending[k].kind)}

KindOf(k, sel) ==
  IF pending[k].kind = "package" /\ Cardinality(sel) > 1 THEN "prescan" ELSE pending[k].kind

Tap(h, k) ==
  /\ tap[h] = NoTap /\ pending[k].at = "shown"
  /\ \E sel \in Selections(k) :
       tap' = [tap EXCEPT ![h] = [token |-> k, kind |-> KindOf(k, sel), sel |-> sel]]
  /\ UNCHANGED <<runVars, session, pending, taskId, taskNode>>

TapFails(h) ==
  /\ tap[h] # NoTap
  /\ tap' = [tap EXCEPT ![h] = NoTap]
  /\ UNCHANGED <<runVars, session, pending, taskId, taskNode>>

(* gen_task_id: the next number without a row.                             *)
Unused == {t \in BotIds : t > taskId /\ row[t] = "none"}

IsNextId(t) == t \in Unused /\ \A u \in Unused : t <= u

(* The rest of the handler, without an await: the node, the coroutine, the *)
(* tables, the first snapshot. The token may be gone by now.               *)
BotStart(h, t) ==
  /\ tap[h] # NoTap /\ IsNextId(t)
  /\ \E r \in Runs : run[r].at = "free"
  /\ taskId' = t
  /\ node' = [node EXCEPT ![t] = NewNode(TRUE)]
  /\ run' = [run EXCEPT ![FreeRun] = Scheduled(t, IF tap[h].kind = "comment" THEN "comments"
                                                  ELSE tap[h].kind, Packages, tap[h].sel)]
  /\ taskNode' = taskNode \union {t}
  /\ active' = active \union {t}
  /\ row' = [row EXCEPT ![t] = "downloading"]
  /\ pending' = [pending EXCEPT ![tap[h].token].at = "gone"]
  /\ tap' = [tap EXCEPT ![h] = NoTap]
  /\ UNCHANGED <<work, session>>

-----------------------------------------------------------------------------
(* stop_task: one node or all, those that /stop has listed.                *)
StopTasks(ts) ==
  /\ node' = [t \in Tasks |-> IF t \in ts THEN [node[t] EXCEPT !.stop = TRUE] ELSE node[t]]
  /\ UNCHANGED <<row, active, run, work, session, pending, tap, taskId, taskNode>>

StopTask == \E t \in taskNode : StopTasks({t})

StopAll == taskNode # {} /\ StopTasks(taskNode)

IsFinishOfCounters(t) ==   \* Mutant: a batch between two packages is finished.
  node[t].stop \/ (node[t].running /\ AllCounted(node[t]))

IsFinish(t) ==
  \/ node[t].stop
  \/ node[t].running /\ ~node[t].batch /\ AllCounted(node[t])

(* update_reply_message, every three seconds: nodes that are finished are  *)
(* forgotten.                                                              *)
Sweep ==
  LET finished == {t \in taskNode : node[t].running /\ IsFinish(t)} IN
  /\ finished # {}
  /\ taskNode' = taskNode \ finished
  /\ UNCHANGED <<runVars, session, pending, tap, taskId>>

(* report_bot_status, called all along a download: a node whose files are  *)
(* all counted is no longer active. A missing message counts as skipped    *)
(* and as not found.                                                       *)
Report(t) ==
  /\ t \in active \intersect BotIds
  /\ node[t].total > 0 /\ Counted(node[t]) + Cardinality(node[t].missing) = node[t].total
  /\ ~node[t].batch
  /\ RemoveActive(t)
  /\ UNCHANGED <<node, run, work, botVars>>

-----------------------------------------------------------------------------
BotStep ==
  \/ \E k \in Tokens : Previewed(k) \/ PreviewFails(k)
  \/ \E h \in Taps : TapFails(h) \/ \E t \in BotIds : BotStart(h, t)
  \/ Sweep
  \/ \E t \in BotIds : Report(t)

BotRequest ==
  \/ StartPrescanMode
  \/ \E k \in Tokens, kind \in {"package", "comment", "prescan"} : Link(k, kind)
  \/ \E k \in Tokens : Toggle(k) \/ TapCancel(k) \/ \E h \in Taps : Tap(h, k)
  \/ StopTask \/ StopAll

BotInit ==
  /\ session = FALSE
  /\ pending = [k \in Tokens |-> NoPreview]
  /\ tap = [h \in Taps |-> NoTap]
  /\ taskId = 0
  /\ taskNode = {}
=============================================================================
