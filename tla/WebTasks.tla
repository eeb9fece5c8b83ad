------------------------------- MODULE WebTasks -------------------------------
(***************************************************************************)
(* The link tasks of the Web console (web.py): a link is submitted,        *)
(* scanned on the event loop, previewed, and confirmed or cancelled from   *)
(* the threads of Flask. A request is one or several steps, cut where the  *)
(* code leaves a lock; coroutines handed to the loop are steps of their    *)
(* own. What a confirmed task downloads is in TaskRuns.tla.                *)
(***************************************************************************)
EXTENDS TaskRuns

CONSTANTS
  LinkPackage,  \* the package that a link to one package leads to
  Callers,      \* threads that serve requests
  MaxBatches,   \* bound: batches of messages a prescan reads
  MaxRequests   \* bound: requests of users, to the bot too, and ends of the loop

ASSUME WebAssumption ==
  LinkPackage \in Packages /\ Callers # {} /\ {MaxBatches, MaxRequests} \subseteq Nat

VARIABLES
  up,        \* the event loop runs
  scan,      \* scan[t]: the coroutine that scans the link of t
  scanNode,  \* _scanning_web_task_nodes
  preview,   \* _pending_web_task_previews
  prescan,   \* prescan[t]: the entry of _pending_web_prescans
  slot,      \* _active_web_prescan_task_id: a set of at most one task
  call,      \* call[c]: the request that thread c serves
  requests   \* counted for the bound

webVars == <<up, scan, scanNode, preview, prescan, slot, call, requests>>

Kinds == {"package", "comment", "prescan"}

NoScan == [kind |-> "none", at |-> "none", batch |-> 0]

NoPrescan == [on |-> FALSE, packages |-> {}, selected |-> {}, confirmed |-> FALSE]

NoCall == [op |-> "none", task |-> 0, got |-> "nothing", offered |-> {}, sel |-> {}]

(* What n batches of a prescan found.                                      *)
Found(n) == {p \in Packages : Cardinality({q \in Packages : q <= p}) <= n}

(* A request of a user, or an end of the loop.                             *)
Request == requests < MaxRequests /\ requests' = requests + 1

Idle(c) == call[c].op = "none"

(* Threads are alike: a request gets the first idle one.                   *)
FreeCaller == CHOOSE c \in Callers : Idle(c) \/ \A d \in Callers : ~Idle(d)

SetRow(t, status) == row' = [row EXCEPT ![t] = Updated(t, status)]

SlotFree(t) == slot \subseteq {t}

-----------------------------------------------------------------------------
(* _submit_web_task, _submit_web_prescan. A prescan takes the slot to find *)
(* out that it is free, gives it back and hands over its coroutine. With   *)
(* the loop not running nothing is handed over.                            *)
FreshTask == CHOOSE t \in WebIds : scan[t].at = "none"

Accept(t, kind) ==
  scan' = IF up THEN [scan EXCEPT ![t] = [NoScan EXCEPT !.kind = kind, !.at = "accepted"]]
          ELSE [scan EXCEPT ![t].at = "over"]

Submit(kind) ==
  LET t == FreshTask IN
  /\ Request
  /\ \E u \in WebIds : scan[u].at = "none"
  /\ Accept(t, kind)
  /\ UNCHANGED <<runVars, up, scanNode, preview, prescan, slot, call>>

SubmitPrescan(c) ==
  LET t == FreshTask IN
  /\ Idle(c) /\ Request
  /\ \E u \in WebIds : scan[u].at = "none"
  /\ IF SlotFree(t)
     THEN /\ slot' = {t}
          /\ call' = [call EXCEPT ![c] = [NoCall EXCEPT !.op = "submit", !.task = t]]
          /\ scan' = [scan EXCEPT ![t].at = "probing"]
     ELSE /\ scan' = [scan EXCEPT ![t].at = "over"]
          /\ UNCHANGED <<slot, call>>
  /\ UNCHANGED <<runVars, up, scanNode, preview, prescan>>

HandPrescan(c) ==
  LET t == call[c].task IN
  /\ call[c].op = "submit"
  /\ slot' = slot \ {t}
  /\ Accept(t, "prescan")
  /\ call' = [call EXCEPT ![c] = NoCall]
  /\ UNCHANGED <<runVars, up, scanNode, preview, prescan, requests>>

-----------------------------------------------------------------------------
(* The scan coroutines. A prescan that finds the slot taken has no row yet *)
(* that could say so.                                                      *)
ScanStartUnasked(t) ==   \* Mutant: the submission has looked at the slot.
  /\ scan[t].at = "accepted"
  /\ scan' = [scan EXCEPT ![t].at = "resolving"]
  /\ slot' = IF scan[t].kind = "prescan" THEN {t} ELSE slot
  /\ UNCHANGED <<runVars, up, scanNode, preview, prescan, call, requests>>

ScanStart(t) ==
  /\ scan[t].at = "accepted"
  /\ IF scan[t].kind = "prescan" /\ ~SlotFree(t)
     THEN scan' = [scan EXCEPT ![t].at = "over"] /\ UNCHANGED slot
     ELSE /\ scan' = [scan EXCEPT ![t].at = "resolving"]
          /\ slot' = IF scan[t].kind = "prescan" THEN {t} ELSE slot
  /\ UNCHANGED <<runVars, up, scanNode, preview, prescan, call, requests>>

(* The finally of the coroutines.                                          *)
ScanOverHeld(t) ==   \* Mutant: the slot is not given back.
  /\ scan' = [scan EXCEPT ![t].at = "over", ![t].batch = 0]
  /\ scanNode' = scanNode \ {t}
  /\ UNCHANGED slot

ScanOver(t) ==
  /\ scan' = [scan EXCEPT ![t].at = "over", ![t].batch = 0]
  /\ scanNode' = scanNode \ {t}
  /\ slot' = slot \ {t}

CreateWebTask(t, status) ==
  /\ node' = [node EXCEPT ![t] = NewNode(TRUE)]
  /\ row' = [row EXCEPT ![t] = status]

(* get_chat, and _create_web_task. A comment link waits at once.           *)
Resolved(t) ==
  /\ scan[t].at = "resolving"
  /\ CreateWebTask(t, IF scan[t].kind = "comment" THEN "waiting" ELSE "scanning")
  /\ IF scan[t].kind = "comment"
     THEN preview' = preview \union {t} /\ ScanOver(t)
     ELSE /\ scan' = [scan EXCEPT ![t].at = "scanning"]
          /\ scanNode' = scanNode \union {t}
          /\ UNCHANGED <<preview, slot>>
  /\ UNCHANGED <<active, run, work, up, prescan, call, requests>>

Unresolved(t) ==
  /\ scan[t].at = "resolving"
  /\ SetRow(t, "failed")
  /\ ScanOver(t)
  /\ UNCHANGED <<node, active, run, work, up, preview, prescan, call, requests>>

(* One batch of scan_prescan_packages, with its progress; an exception of  *)
(* the progress is swallowed there.                                        *)
Progress(t) ==
  row' = IF CanUpdate(t, "scanning") THEN [row EXCEPT ![t] = Updated(t, "scanning")] ELSE row

ScanBatch(t) ==
  /\ scan[t].at = "scanning" /\ scan[t].kind = "prescan"
  /\ scan[t].batch < MaxBatches /\ ~node[t].stop
  /\ scan' = [scan EXCEPT ![t].batch = @ + 1]
  /\ Progress(t)
  /\ UNCHANGED <<node, active, run, work, up, scanNode, preview, prescan, slot, call,
                 requests>>

ScanStopped(t) ==
  /\ scan[t].at = "scanning" /\ node[t].stop
  /\ SetRow(t, "cancelled")
  /\ ScanOver(t)
  /\ UNCHANGED <<node, active, run, work, up, preview, prescan, call, requests>>

(* An exception, or no package at all.                                     *)
ScanFails(t) ==
  /\ scan[t].at = "scanning" /\ ~node[t].stop
  /\ SetRow(t, "failed")
  /\ ScanOver(t)
  /\ UNCHANGED <<node, active, run, work, up, preview, prescan, call, requests>>

ScanDone(t) ==
  /\ scan[t].at = "scanning" /\ ~node[t].stop
  /\ IF scan[t].kind = "prescan"
     THEN /\ scan[t].batch > 0
          /\ prescan' = [prescan EXCEPT ![t] =
               [NoPrescan EXCEPT !.on = TRUE, !.packages = Found(scan[t].batch)]]
          /\ UNCHANGED preview
     ELSE /\ preview' = preview \union {t}
          /\ UNCHANGED prescan
  /\ SetRow(t, "waiting")
  /\ ScanOver(t)
  /\ UNCHANGED <<node, active, run, work, up, call, requests>>

ScanStep(t) ==
  \/ ScanStart(t) \/ Resolved(t) \/ Unresolved(t) \/ ScanBatch(t)
  \/ ScanStopped(t) \/ ScanFails(t) \/ ScanDone(t)

-----------------------------------------------------------------------------
(* confirm_task: entries without a row are dropped; then, under the lock,  *)
(* a preview is taken away and of a prescan a copy is made.                *)
Pruned(entries) == [u \in WebIds |-> IF row[u] = "none" THEN NoPrescan ELSE entries[u]]

Confirm(c, t) ==
  LET entry == Pruned(prescan)[t]
      got == IF entry.on THEN "prescan" ELSE IF t \in preview THEN scan[t].kind ELSE "nothing"
  IN /\ Idle(c) /\ Request
     /\ scan[t].kind # "none"
     /\ prescan' = Pruned(prescan)
     /\ preview' = preview \ {t}
     /\ call' = [call EXCEPT ![c] =
          [op |-> "confirm", task |-> t, got |-> got,
           offered |-> IF entry.on THEN entry.packages ELSE {LinkPackage},
           sel |-> IF entry.on THEN entry.selected ELSE {LinkPackage}]]
     /\ UNCHANGED <<runVars, up, scan, scanNode, slot>>

(* Without a preview: a row that still waits belongs to a lost process.    *)
ConfirmReads(c) ==
  /\ call[c].op = "confirm" /\ call[c].got = "nothing"
  /\ call' = [call EXCEPT ![c] =
       IF row[@.task] \in {"waiting", "interrupted"} THEN [@ EXCEPT !.op = "interrupt"]
       ELSE NoCall]
  /\ UNCHANGED <<runVars, up, scan, scanNode, preview, prescan, slot, requests>>

ConfirmInterrupts(c) ==
  LET t == call[c].task IN
  /\ call[c].op = "interrupt"
  /\ row' = IF CanUpdate(t, "interrupted")
            THEN [row EXCEPT ![t] = Updated(t, "interrupted")] ELSE row
  /\ call' = [call EXCEPT ![c] = NoCall]
  /\ UNCHANGED <<node, active, run, work, up, scan, scanNode, preview, prescan, slot,
                 requests>>

ConfirmNothing(c) ==   \* select at least one package
  /\ call[c].op = "confirm" /\ call[c].got = "prescan" /\ call[c].sel = {}
  /\ call' = [call EXCEPT ![c] = NoCall]
  /\ UNCHANGED <<runVars, up, scan, scanNode, preview, prescan, slot, requests>>

Confirmed(t, yes) ==
  [prescan EXCEPT ![t].confirmed = IF prescan[t].on THEN yes ELSE @]

ConfirmStarts(c) ==
  LET t == call[c].task IN
  /\ call[c].op = "confirm" /\ call[c].got # "nothing" /\ call[c].sel # {}
  /\ up /\ \E r \in Runs : run[r].at = "free"
  /\ run' = [run EXCEPT ![FreeRun] =
               Scheduled(t, call[c].got, call[c].offered, call[c].sel)]
  /\ prescan' = IF call[c].got = "prescan" THEN Confirmed(t, TRUE) ELSE prescan
  /\ call' = [call EXCEPT ![c] = NoCall]
  /\ UNCHANGED <<row, node, active, work, up, scan, scanNode, preview, slot, requests>>

ConfirmRefused(c) ==   \* the loop does not run: everything as before
  LET t == call[c].task IN
  /\ call[c].op = "confirm" /\ call[c].got # "nothing" /\ call[c].sel # {}
  /\ ~up
  /\ IF call[c].got = "prescan"
     THEN prescan' = Confirmed(t, FALSE) /\ UNCHANGED preview
     ELSE preview' = preview \union {t} /\ UNCHANGED prescan
  /\ call' = [call EXCEPT ![c] = NoCall]
  /\ UNCHANGED <<runVars, up, scan, scanNode, slot, requests>>

-----------------------------------------------------------------------------
(* _cancel_task_payload. Active nodes are looked up by the text of the     *)
(* path, so those of the bot are not found.                                *)
HasNode(t) ==
  t \in WebIds /\ (t \in preview \/ prescan[t].on \/ t \in scanNode \/ t \in active)

Cancel(c, t) ==
  /\ Idle(c) /\ Request
  /\ ~HasNode(t) \/ up
  /\ call' = [call EXCEPT ![c] =
       [NoCall EXCEPT !.op = IF HasNode(t) THEN "stop" ELSE "remove", !.task = t]]
  /\ UNCHANGED <<runVars, up, scan, scanNode, preview, prescan, slot>>

(* Without a node: a row at work is left alone, any other is removed.      *)
CancelRemoves(c) ==
  LET t == call[c].task IN
  /\ call[c].op = "remove"
  /\ row' = IF row[t] \in {"downloading", "scanning"} THEN row
            ELSE [row EXCEPT ![t] = "none"]
  /\ call' = [call EXCEPT ![c] = NoCall]
  /\ UNCHANGED <<node, active, run, work, up, scan, scanNode, preview, prescan, slot,
                 requests>>

(* _cancel_web_task_owned, on the loop, however long that takes.           *)
CancelOwned(c) ==
  LET t == call[c].task IN
  /\ call[c].op = "stop" /\ up
  /\ node' = [node EXCEPT ![t].stop = TRUE]
  /\ preview' = preview \ {t}
  /\ prescan' = [prescan EXCEPT ![t] = NoPrescan]
  /\ scanNode' = scanNode \ {t}
  /\ row' = [row EXCEPT ![t] =
       IF @ \in {"downloading", "scanning"} THEN "cancelled" ELSE "none"]
  /\ call' = [call EXCEPT ![c] = NoCall]
  /\ UNCHANGED <<active, run, work, up, scan, slot, requests>>

-----------------------------------------------------------------------------
(* clear_task, clear_completed_tasks.                                      *)
Clear(t) ==
  /\ Request
  /\ row[t] \in Terminal
  /\ row' = [row EXCEPT ![t] = "none"]
  /\ prescan' = [u \in WebIds |-> IF u = t THEN NoPrescan ELSE prescan[u]]
  /\ UNCHANGED <<node, active, run, work, up, scan, scanNode, preview, slot, call>>

ClearCompleted ==
  /\ Request
  /\ row' = [t \in Tasks |-> IF row[t] \in Terminal THEN "none" ELSE row[t]]
  /\ prescan' = [u \in WebIds |->
                   IF row[u] \in Terminal \union {"none"} THEN NoPrescan ELSE prescan[u]]
  /\ UNCHANGED <<node, active, run, work, up, scan, scanNode, preview, slot, call>>

(* The candidate packages of a prescan: one selected or not, all or none,  *)
(* and the selected ones deleted.                                          *)
Select(t, p) ==
  /\ Request
  /\ prescan[t].on
  /\ prescan' \in {[prescan EXCEPT ![t].selected = @ \union {p}],
                   [prescan EXCEPT ![t].selected = @ \ {p}]}
  /\ UNCHANGED <<runVars, up, scan, scanNode, preview, slot, call>>

SelectAll(t) ==
  /\ Request
  /\ prescan[t].on
  /\ prescan' \in {[prescan EXCEPT ![t].selected = chosen] : chosen \in {prescan[t].packages, {}}}
  /\ UNCHANGED <<runVars, up, scan, scanNode, preview, slot, call>>

DeleteConfirmed(t) ==   \* Mutant: after a confirmation as well.
  /\ Request
  /\ prescan[t].on
  /\ prescan' = [prescan EXCEPT ![t].packages = @ \ prescan[t].selected, ![t].selected = {}]
  /\ UNCHANGED <<runVars, up, scan, scanNode, preview, slot, call>>

DeleteSelected(t) ==
  /\ Request
  /\ prescan[t].on /\ ~prescan[t].confirmed
  /\ prescan' = [prescan EXCEPT ![t].packages = @ \ prescan[t].selected, ![t].selected = {}]
  /\ UNCHANGED <<runVars, up, scan, scanNode, preview, slot, call>>

-----------------------------------------------------------------------------
CallStep(c) ==
  \/ HandPrescan(c)
  \/ ConfirmReads(c) \/ ConfirmInterrupts(c) \/ ConfirmNothing(c)
  \/ ConfirmStarts(c) \/ ConfirmRefused(c)
  \/ CancelRemoves(c) \/ CancelOwned(c)

WebRequest ==
  \/ \E kind \in Kinds \ {"prescan"} : Submit(kind)
  \/ SubmitPrescan(FreeCaller)
  \/ \E t \in WebIds : Confirm(FreeCaller, t)
  \/ \E t \in Tasks : Cancel(FreeCaller, t)
  \/ \E t \in Tasks : Clear(t)
  \/ ClearCompleted
  \/ \E t \in WebIds : SelectAll(t) \/ DeleteSelected(t) \/ \E p \in Packages : Select(t, p)

WebInit ==
  /\ up = TRUE
  /\ scan = [t \in WebIds |-> NoScan]
  /\ scanNode = {} /\ preview = {} /\ slot = {}
  /\ prescan = [t \in WebIds |-> NoPrescan]
  /\ call = [c \in Callers |-> NoCall]
  /\ requests = 0
=============================================================================
