------------------------------ MODULE LinkTasks ------------------------------
(***************************************************************************)
(* The Web console and the management bot over one task store: both start  *)
(* downloads of links, and the process may stop its loop and start again.  *)
(***************************************************************************)
EXTENDS WebTasks, BotTasks

vars == <<runVars, webVars, botVars>>

-----------------------------------------------------------------------------
(* The owner loop ends first; the threads of Flask go on for a while.      *)
LoopStops ==
  /\ up /\ Request
  /\ up' = FALSE
  /\ UNCHANGED <<runVars, scan, scanNode, preview, prescan, slot, call, botVars>>

(* Memory is lost; _recover_interrupted_storage closes every open row.     *)
Restart ==
  /\ ~up
  /\ up' = TRUE
  /\ row' = [t \in Tasks |-> IF row[t] \in Terminal \union {"none"} THEN row[t]
                             ELSE "interrupted"]
  /\ node' = [t \in Tasks |-> NewNode(FALSE)] /\ active' = {}
  /\ run' = [r \in Runs |-> IF run[r].at = "free" THEN NoRun
                            ELSE [run[r] EXCEPT !.at = "over", !.todo = {}]]
  /\ work' = [r \in Runs |-> [f \in DOMAIN work[r] |-> "none"]]
  /\ scan' = [t \in WebIds |-> IF scan[t].at = "none" THEN NoScan
                               ELSE [scan[t] EXCEPT !.at = "over"]]
  /\ scanNode' = {} /\ preview' = {} /\ slot' = {}
  /\ prescan' = [t \in WebIds |-> NoPrescan]
  /\ call' = [c \in Callers |-> NoCall]
  /\ session' = FALSE
  /\ pending' = [k \in Tokens |-> IF pending[k].at = "none" THEN NoPreview
                                  ELSE [pending[k] EXCEPT !.at = "gone"]]
  /\ tap' = [h \in Taps |-> NoTap]
  /\ taskId' = 0 /\ taskNode' = {}
  /\ UNCHANGED requests

-----------------------------------------------------------------------------
Init == RunInit /\ WebInit /\ BotInit

RunNext == (\E r \in Runs : RunStep(r) \/ FileStep(r)) /\ UNCHANGED <<webVars, botVars>>

LoopStep ==
  /\ up
  /\ \/ RunNext
     \/ (\E t \in WebIds : ScanStep(t)) /\ UNCHANGED botVars
     \/ BotStep /\ UNCHANGED webVars

ThreadStep == (\E c \in Callers : CallStep(c)) /\ UNCHANGED botVars

UserStep ==
  \/ WebRequest /\ UNCHANGED botVars
  \/ /\ up /\ BotRequest /\ Request
     /\ UNCHANGED <<up, scan, scanNode, preview, prescan, slot, call>>

Next == LoopStep \/ ThreadStep \/ UserStep \/ LoopStops \/ Restart

Spec == Init /\ [][Next]_vars

(* While it runs, the event loop goes on with something that can go on:    *)
(* transfers end, one way or the other, and so do their batches; threads   *)
(* go on with their requests. Users owe nothing, and nobody has to start a *)
(* stopped process again.                                                  *)
FairSpec == Spec /\ WF_vars(LoopStep) /\ WF_vars(ThreadStep)

-----------------------------------------------------------------------------
TypeOK ==
  /\ row \in [Tasks -> {"none", "scanning", "waiting"} \union Working \union Terminal]
  /\ active \subseteq Tasks /\ taskNode \subseteq BotIds
  /\ preview \subseteq WebIds /\ scanNode \subseteq WebIds
  /\ Cardinality(slot) <= 1 /\ slot \subseteq WebIds
  /\ \A t \in Tasks : node[t].counted \subseteq UNION {FilesOf(p) : p \in Packages}
  /\ \A r \in Runs : run[r].at # "free" => run[r].task \in Tasks /\ run[r].todo \subseteq Packages
  /\ taskId \in BotIds \union {0}

RunsOf(t) == {r \in Runs : run[r].task = t}

OnlyRun(r) == run[r].at # "free" /\ RunsOf(run[r].task) = {r}

(* No row is left behind by the requests that race with its coroutines: a  *)
(* task that is scanning has its coroutine, with the slot if it is a       *)
(* prescan; one that waits for its user can be confirmed, unless a         *)
(* confirmation has just taken it; one at work, of a single run, has it.   *)
(* Not so a bot task that is no batch: a message that is not there counts  *)
(* twice, so its row may be completed and cleared before its last file,    *)
(* which opens a row again.                                                *)
OneRun(t) ==
  /\ Cardinality(RunsOf(t)) = 1
  /\ t \in BotIds => \A r \in RunsOf(t) : run[r].kind = "prescan"

Confirmable(t) ==
  \/ t \in preview \/ prescan[t].on
  \/ \E r \in RunsOf(t) : run[r].at = "accepted"
  \/ \E c \in Callers : call[c].op = "confirm" /\ call[c].task = t /\ call[c].got # "nothing"

RowsAreOwned ==
  /\ \A t \in WebIds : row[t] = "scanning" =>
       /\ scan[t].at = "scanning" /\ t \in scanNode
       /\ scan[t].kind = "prescan" => slot = {t}
  /\ \A t \in WebIds : row[t] = "waiting" => Confirmable(t) /\ ~node[t].stop
  /\ \A t \in Tasks : OneRun(t) /\ row[t] \in Working => \E r \in RunsOf(t) : Alive(r)

(* A batch of packages is completed when no file of it is under way and    *)
(* no package is left, unless it was stopped: between two packages all its *)
(* files are counted and it is not over.                                   *)
CompletedIsOver ==
  \A r \in Runs :
    run[r].kind = "prescan" /\ OnlyRun(r) /\ row[run[r].task] = "completed" =>
      /\ run[r].at \in {"closing", "over"} /\ WorkOf(r) = {}
      /\ run[r].todo = {} \/ node[run[r].task].stop

(* /stop reaches every batch of the bot from its first to its last         *)
(* package: the sweep between two packages does not forget its node.       *)
BotRunsAreStoppable ==
  \A r \in Runs :
    LET t == run[r].task IN
    run[r].kind = "prescan" /\ t \in BotIds /\ Alive(r) /\ run[r].at # "closing"
      => t \in taskNode \/ node[t].stop

(* What a confirmed prescan downloads and its list shows, the list goes on *)
(* showing as long as there is one: nothing is deleted from it.            *)
Shown(r) ==
  IF prescan[run[r].task].on THEN PackagesOf(r) \intersect prescan[run[r].task].packages ELSE {}

DownloadedStaysListed ==
  [][up => \A r \in Runs :
       run[r].kind = "prescan" /\ run[r].task \in WebIds /\ prescan'[run[r].task].on
         => Shown(r) \subseteq Shown(r)']_vars

(* Every scan and every download of a link ends, whatever users do in the  *)
(* meantime, and the slot of the prescans comes back, unless the loop      *)
(* ends first. Two downloads of one task, which a second confirmation      *)
(* starts, and the bot tasks above are left out.                           *)
AtWork(t) == row[t] = "scanning" \/ (row[t] \in Working /\ OneRun(t))

LinksEnd == <>[](up => slot = {} /\ \A t \in Tasks : ~AtWork(t))
=============================================================================
