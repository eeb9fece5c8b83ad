-------------------------- MODULE LinkTasks_proofs --------------------------
(***************************************************************************)
(* Invariants of link tasks, for any numbers of tasks, packages, files,    *)
(* threads, handlers and coroutines: the bot can stop each of its batches  *)
(* until the batch closes, no row of a batch is completed before the batch *)
(* is over or was stopped, no open row is left without whatever ends it,   *)
(* and the list of a prescan goes on showing what is downloaded from it.   *)
(*                                                                         *)
(* The first two rest on who may touch a node. A batch sets and resets the *)
(* flag prescan_batch_in_progress of its node itself, a node of the bot    *)
(* belongs to one run that goes on, and a node of the Web console is new   *)
(* only before its scan is over, when nothing can be confirmed. So         *)
(* whatever looks at a node between two packages of its batch finds the    *)
(* flag set.                                                               *)
(*                                                                         *)
(* The third follows a row from its scan through what is offered of it,    *)
(* the confirmation that takes that and the run that it starts: each has   *)
(* the row until the next one has it, and the last of them closes it.      *)
(* Comments are counted, not looked at, so for a run of comments the       *)
(* invariant also says that it has counted nothing that it has not queued, *)
(* and nothing twice.                                                      *)
(***************************************************************************)
EXTENDS LinkTasks, FiniteSetTheorems, TLAPS

-----------------------------------------------------------------------------
AllFiles == UNION {FilesOf(p) : p \in Packages}

RowStatus == {"none", "scanning", "waiting"} \union Working \union Terminal

Nodes ==
  [stop : BOOLEAN, running : BOOLEAN, batch : BOOLEAN, total : Nat,
   counted : SUBSET AllFiles, ended : SUBSET AllFiles, missing : SUBSET AllFiles]

RunFields == {"task", "kind", "at", "offered", "sel", "todo", "pkg", "next"}

(* At these steps a batch has begun and is not over.                       *)
InBatch == {"between", "listing", "waiting", "joining"}

Steps == InBatch \union {"free", "accepted", "fetching", "closing", "over"}

RunTypes ==
  /\ row \in [Tasks -> RowStatus]
  /\ node \in [Tasks -> Nodes]
  /\ active \subseteq Tasks
  /\ DOMAIN run = Runs
  /\ \A r \in Runs : DOMAIN run[r] = RunFields /\ run[r].at \in Steps
  /\ work \in [Runs -> [AllFiles -> {"none", "queued", "busy"}]]
  /\ taskId \in BotIds \union {0} /\ taskNode \subseteq BotIds

Scans ==
  [kind : {"none"} \union Kinds, batch : Nat,
   at : {"none", "probing", "accepted", "resolving", "scanning", "over"}]

Entries ==
  [on : BOOLEAN, packages : SUBSET Packages, selected : SUBSET Packages, confirmed : BOOLEAN]

Calls ==
  [op : {"none", "submit", "confirm", "interrupt", "stop", "remove"},
   task : Tasks \union {0}, got : {"none", "nothing"} \union Kinds, offered : SUBSET Packages,
   sel : SUBSET Packages]

WebTypes ==
  /\ scan \in [WebIds -> Scans] /\ preview \subseteq WebIds
  /\ prescan \in [WebIds -> Entries] /\ call \in [Callers -> Calls]

(* What a run is before it begins, and whose it is.                        *)
RunsConsistent == \A r \in Runs :
  /\ run[r].at = "free" <=> run[r].task = 0
  /\ run[r].task \in Tasks \union {0}
  /\ run[r].kind = "prescan" => run[r].at # "fetching"
  /\ run[r].at \in {"free", "accepted"} => run[r].todo = {} /\ WorkOf(r) = {}

(* The process gives a number to one task of the bot only.                 *)
BotNumbers ==
  /\ \A r \in Runs : Alive(r) /\ run[r].task \in BotIds => run[r].task <= taskId
  /\ \A r, q \in Runs :
       Alive(r) /\ Alive(q) /\ run[r].task = run[q].task /\ run[r].task \in BotIds => r = q

(* Nothing but the batch itself begins or ends it on its node.             *)
BotBatches == \A r \in Runs :
  LET t == run[r].task IN
  run[r].kind = "prescan" /\ t \in BotIds =>
    /\ run[r].at = "accepted" => node[t].total = 0
    /\ run[r].at \in InBatch => node[t].batch

(* A download of the Web comes after the scan of its link.                 *)
Offers(t) ==
  \/ t \in preview \/ prescan[t].on
  \/ \E c \in Callers : call[c].op = "confirm" /\ call[c].task = t /\ call[c].got # "nothing"
  \/ \E r \in Runs : run[r].task = t

ScannedFirst ==
  /\ \A t \in WebIds : Offers(t) => scan[t].at = "over"
  /\ \A c \in Callers :
       /\ call[c].op \in {"confirm", "stop", "submit"} => call[c].task \in WebIds
       /\ call[c].op = "submit" => scan[call[c].task].at = "probing"
       /\ \A d \in Callers :
            call[c].op = "submit" /\ call[d].op = "submit" /\ call[c].task = call[d].task
              => c = d

Begun(t) == \E r \in RunsOf(t) : run[r].at \notin {"free", "accepted"}

(* What a node counts and a row that is completed come from a run.         *)
CountsBegun ==
  \A t \in Tasks : row[t] = "completed" \/ node[t].total > 0 => Begun(t)

BatchConsistent == \A r \in Runs :
  LET t == run[r].task IN
  run[r].kind = "prescan" /\ OnlyRun(r) =>
    /\ run[r].at \in InBatch => node[t].batch /\ row[t] # "completed"
    /\ run[r].at \in {"between", "closing", "over"} => WorkOf(r) = {}
    /\ run[r].at \in {"closing", "over"} => run[r].todo = {} \/ node[t].stop

RunInv ==
  /\ RunsConsistent /\ BotNumbers /\ BotBatches /\ BotRunsAreStoppable /\ CountsBegun
  /\ BatchConsistent

WebInv == WebTypes /\ ScannedFirst

IInv == RunTypes /\ RunInv /\ WebInv

-----------------------------------------------------------------------------
(* Ids of tasks are not 0, which is no task.                               *)
LEMMA TaskIds == 0 \notin Tasks /\ WebIds \intersect BotIds = {} /\ WebIds \subseteq Tasks /\ BotIds \subseteq Tasks
BY RunAssumption DEF Tasks

(* Steps that leave the runs alone, begin no work and at most stop nodes.  *)
(* A row they complete is that of a node which counts and is no batch.     *)
LEMMA Quiet ==
  ASSUME RunTypes, RunInv, UNCHANGED <<run, taskId, taskNode>>,
         \A r \in Runs : WorkOf(r)' \subseteq WorkOf(r),
         \A t \in Tasks : row'[t] = "completed" =>
           row[t] = "completed" \/ (node[t].total > 0 /\ ~node[t].batch),
         \A t \in Tasks : /\ node'[t].batch = node[t].batch /\ node'[t].total = node[t].total
                          /\ node[t].stop => node'[t].stop
  PROVE  RunInv'
<1>1. /\ \A r \in Runs : Alive(r)' = Alive(r) /\ OnlyRun(r)' = OnlyRun(r)
      /\ \A t \in Tasks : Begun(t)' = Begun(t)
  BY DEF Alive, OnlyRun, RunsOf, Begun
<1>2. RunsConsistent' /\ BotNumbers'
  BY <1>1 DEF RunInv, RunsConsistent, BotNumbers
<1>3. BotBatches' /\ BotRunsAreStoppable'
  BY <1>1, TaskIds DEF RunInv, BotBatches, BotRunsAreStoppable
<1>4. CountsBegun'
  BY <1>1 DEF RunInv, CountsBegun
<1>5. BatchConsistent'
  <2> SUFFICES ASSUME NEW r \in Runs, run[r].kind = "prescan", OnlyRun(r)
               PROVE  LET t == run[r].task IN
                 /\ run[r].at \in InBatch => node'[t].batch /\ row'[t] # "completed"
                 /\ run[r].at \in {"between", "closing", "over"} => WorkOf(r)' = {}
                 /\ run[r].at \in {"closing", "over"} => run[r].todo = {} \/ node'[t].stop
    BY <1>1 DEF BatchConsistent
  <2>1. run[r].task \in Tasks
    BY DEF RunInv, RunsConsistent, OnlyRun
  <2> QED
    BY <2>1 DEF RunInv, BatchConsistent
<1> QED
  BY <1>2, <1>3, <1>4, <1>5 DEF RunInv

(* A run that goes on stays a run of its task, and no other changes.       *)
Moves(r) ==
  /\ \A q \in Runs : run'[q].task = run[q].task /\ run'[q].kind = run[q].kind
                     /\ (q # r => run'[q] = run[q])
  /\ Alive(r) /\ run'[r].at \notin {"free", "accepted"}

LEMMA RunMoves ==
  ASSUME RunTypes, RunInv, NEW r \in Runs, Moves(r)
  PROVE  /\ \A q \in Runs : OnlyRun(q)' = OnlyRun(q)
         /\ \A t \in Tasks : Begun(t) => Begun(t)'
         /\ run[r].task \in Tasks /\ Begun(run[r].task)'
         /\ \A q \in Runs : OnlyRun(q) /\ run[q].task = run[r].task => q = r
<1>1. \A t : RunsOf(t)' = RunsOf(t)
  BY DEF Moves, RunsOf
<1>2. \A q \in Runs : OnlyRun(q)' = OnlyRun(q)
  BY <1>1 DEF OnlyRun, Moves, Alive
<1>3. run[r].task \in Tasks
  BY DEF RunInv, RunsConsistent, Moves, Alive
<1>4. Begun(run[r].task)'
  BY <1>1 DEF Begun, Moves, RunsOf
<1>5. \A t \in Tasks : Begun(t) => Begun(t)'
  <2> SUFFICES ASSUME NEW t \in Tasks, NEW q \in RunsOf(t), run[q].at \notin {"free", "accepted"}
               PROVE  run'[q].at \notin {"free", "accepted"}
    BY <1>1 DEF Begun
  <2> QED
    BY DEF Moves, RunsOf
<1>6. \A q \in Runs : OnlyRun(q) /\ run[q].task = run[r].task => q = r
  BY DEF OnlyRun, RunsOf
<1> QED
  BY <1>2, <1>3, <1>4, <1>5, <1>6

(* The functions that give statuses of a row give one, and none of them    *)
(* completes a row that is not, while a batch is on its node.              *)
LEMMA Statuses ==
  ASSUME NEW t \in Tasks, NEW n \in Nodes
  PROVE  /\ NodeStatus(n) \in RowStatus
         /\ NodeStatus(n) = "completed" => n.total > 0 /\ ~n.batch
         /\ RunTypes => Snapshot(t) \in RowStatus
BY DEF NodeStatus, Snapshot, RunTypes, RowStatus, Terminal, Working, AllCounted

(* Changes of a node.                                                      *)
LEMMA NodeTypes ==
  ASSUME NEW n \in Nodes
  PROVE  /\ \A b \in BOOLEAN : [n EXCEPT !.batch = b] \in Nodes
         /\ [n EXCEPT !.stop = TRUE] \in Nodes
         /\ \A f : [n EXCEPT !.total = @ + 1, !.ended = @ \ {f}] \in Nodes
         /\ \A b \in BOOLEAN : NewNode(b) \in Nodes
<1> USE DEF Nodes
<1>1. ASSUME NEW b \in BOOLEAN PROVE [n EXCEPT !.batch = b] \in Nodes
  OBVIOUS
<1>2. [n EXCEPT !.stop = TRUE] \in Nodes
  OBVIOUS
<1>3. ASSUME NEW f PROVE [n EXCEPT !.total = @ + 1, !.ended = @ \ {f}] \in Nodes
  <2>1. n.total + 1 \in Nat /\ n.ended \ {f} \in SUBSET AllFiles
    <3>1. n.total \in Nat /\ n.ended \in SUBSET AllFiles
      OBVIOUS
    <3> QED
      BY <3>1
  <2> DEFINE total == n.total + 1
             ended == n.ended \ {f}
  <2> HIDE DEF total, ended
  <2>2. [n EXCEPT !.total = total, !.ended = ended] \in Nodes
    BY <2>1 DEF total, ended
  <2> QED
    BY <2>2 DEF total, ended
<1>4. ASSUME NEW b \in BOOLEAN PROVE NewNode(b) \in Nodes
  BY DEF NewNode
<1> QED
  BY <1>1, <1>2, <1>3, <1>4

LEMMA Kept ==
  ASSUME NEW s \in RowStatus, NEW u \in RowStatus
  PROVE  Safe(s, u) \in RowStatus /\ Complete(s) \in RowStatus
         /\ (Safe(s, u) = "completed" => s = "completed" \/ u = "completed")
BY DEF Safe, Complete, RowStatus, Terminal

LEMMA Removed ==
  ASSUME RunTypes, NEW t \in Tasks, RemoveActive(t)
  PROVE  /\ row' \in [Tasks -> RowStatus] /\ active' \subseteq Tasks
         /\ \A u \in Tasks \ {t} : row'[u] = row[u]
<1>1. Complete(Snapshot(t)) \in RowStatus
  BY Statuses, Kept DEF RunTypes
<1> QED
  BY <1>1 DEF RemoveActive, RunTypes

(* What is known of the node and the row of a batch.                       *)
LEMMA BatchOf ==
  ASSUME RunInv, NEW r \in Runs, run[r].kind = "prescan", run[r].at \in InBatch
  PROVE  /\ OnlyRun(r) \/ run[r].task \in BotIds => node[run[r].task].batch
         /\ OnlyRun(r) => row[run[r].task] # "completed"
         /\ OnlyRun(r) /\ run[r].at = "between" => WorkOf(r) = {}
BY DEF RunInv, BotBatches, BatchConsistent, InBatch

(* A run goes on and writes at most the row and the node of its task. A    *)
(* batch stays one, on its node, and completes no row until it closes.     *)
LEMMA Goes ==
  ASSUME RunTypes, RunInv, NEW r \in Runs, Moves(r), taskId' = taskId,
         taskNode' = taskNode,
         \A t \in Tasks \ {run[r].task} : node'[t] = node[t] /\ row'[t] = row[t],
         node'[run[r].task].stop = node[run[r].task].stop,
         \A q \in Runs \ {r} : WorkOf(q)' = WorkOf(q),
         run[r].kind = "prescan" =>
           /\ run'[r].at # "fetching"
           /\ run'[r].at \in InBatch /\ (OnlyRun(r) \/ run[r].task \in BotIds) =>
                node'[run[r].task].batch
           /\ run[r].task \in BotIds /\ run[r].at = "closing" => run'[r].at = "over",
         run[r].kind = "prescan" /\ OnlyRun(r) =>
           /\ run'[r].at \in InBatch => row'[run[r].task] # "completed"
           /\ run'[r].at \in {"between", "closing", "over"} => WorkOf(r)' = {}
           /\ run'[r].at \in {"closing", "over"} =>
                run'[r].todo = {} \/ node[run[r].task].stop
  PROVE  RunInv'
<1> DEFINE t == run[r].task
<1>1. /\ \A q \in Runs : OnlyRun(q)' = OnlyRun(q)
      /\ \A u \in Tasks : Begun(u) => Begun(u)'
      /\ t \in Tasks /\ Begun(t)'
      /\ \A q \in Runs : OnlyRun(q) /\ run[q].task = t => q = r
  BY RunMoves
<1>2. \A q \in Runs : Alive(q)' => Alive(q)
  BY DEF Alive, Moves
<1>3. RunsConsistent'
  <2> SUFFICES ASSUME NEW q \in Runs
               PROVE  /\ run'[q].at = "free" <=> run'[q].task = 0
                      /\ run'[q].task \in Tasks \union {0}
                      /\ run'[q].kind = "prescan" => run'[q].at # "fetching"
                      /\ run'[q].at \in {"free", "accepted"} => run'[q].todo = {} /\ WorkOf(q)' = {}
    BY DEF RunsConsistent
  <2>1. CASE q = r
    BY <2>1, <1>1, TaskIds DEF Moves
  <2>2. CASE q # r
    BY <2>2 DEF RunInv, RunsConsistent, Moves
  <2> QED
    BY <2>1, <2>2
<1>4. BotNumbers'
  BY <1>2 DEF RunInv, BotNumbers, Moves
<1>5. \A q \in Runs : run[q].task \in BotIds /\ run[q].task = t /\ q # r => ~Alive(q)
  BY DEF RunInv, BotNumbers, Moves
<1>6. BotBatches'
  <2> SUFFICES ASSUME NEW q \in Runs, run[q].kind = "prescan", run[q].task \in BotIds
               PROVE  /\ run'[q].at = "accepted" => node'[run[q].task].total = 0
                      /\ run'[q].at \in InBatch => node'[run[q].task].batch
    BY DEF BotBatches, Moves
  <2>1. CASE q = r
    BY <2>1 DEF Moves
  <2>2. CASE q # r /\ run[q].task # t
    BY <2>2, TaskIds DEF RunInv, BotBatches, Moves
  <2>3. CASE q # r /\ run[q].task = t
    BY <2>3, <1>5 DEF Alive, Moves, InBatch
  <2> QED
    BY <2>1, <2>2, <2>3
<1>7. BotRunsAreStoppable'
  <2> SUFFICES ASSUME NEW q \in Runs, run[q].kind = "prescan", run[q].task \in BotIds, Alive(q)', run'[q].at # "closing"
               PROVE  run[q].task \in taskNode \/ node'[run[q].task].stop
    BY DEF BotRunsAreStoppable, Moves
  <2>1. run[q].at # "closing"
    BY DEF Moves, Alive
  <2>2. run[q].task \in taskNode \/ node[run[q].task].stop
    BY <2>1, <1>2 DEF RunInv, BotRunsAreStoppable
  <2> QED
    BY <2>2, TaskIds
<1>8. CountsBegun'
  <2> SUFFICES ASSUME NEW u \in Tasks, row'[u] = "completed" \/ node'[u].total > 0
               PROVE  Begun(u)'
    BY DEF CountsBegun
  <2>1. CASE u = t
    BY <2>1, <1>1 DEF Moves
  <2>2. CASE u # t
    <3>1. node'[u] = node[u] /\ row'[u] = row[u]
      BY <2>2
    <3> QED
      BY <3>1, <1>1 DEF RunInv, CountsBegun
  <2> QED
    BY <2>1, <2>2
<1>9. BatchConsistent'
  <2> SUFFICES ASSUME NEW q \in Runs, run[q].kind = "prescan", OnlyRun(q)
               PROVE  LET u == run[q].task IN
                 /\ run'[q].at \in InBatch => node'[u].batch /\ row'[u] # "completed"
                 /\ run'[q].at \in {"between", "closing", "over"} => WorkOf(q)' = {}
                 /\ run'[q].at \in {"closing", "over"} => run'[q].todo = {} \/ node'[u].stop
    BY <1>1 DEF BatchConsistent, Moves
  <2>1. CASE q = r
    BY <2>1 DEF RunInv, BatchConsistent
  <2>2. CASE q # r
    <3>1. run[q].task # t /\ run[q].task \in Tasks
      BY <2>2, <1>1 DEF OnlyRun, RunInv, RunsConsistent
    <3> QED
      BY <2>2, <3>1 DEF RunInv, BatchConsistent, Moves
  <2> QED
    BY <2>1, <2>2
<1> QED
  BY <1>3, <1>4, <1>6, <1>7, <1>8, <1>9 DEF RunInv

-----------------------------------------------------------------------------
(* The steps of a run.                                                     *)
RunFrame == taskId' = taskId /\ taskNode' = taskNode

LEMMA BeginRunKeeps ==
  ASSUME RunTypes, RunInv, NEW r \in Runs, BeginRun(r), RunFrame
  PROVE  RunTypes' /\ RunInv'
<1> DEFINE t == run[r].task
<1>1. /\ t \in Tasks /\ run[r].todo = {} /\ WorkOf(r) = {} /\ Alive(r) /\ run[r].at = "accepted"
      /\ DOMAIN run[r] = RunFields /\ \A q \in Runs : WorkOf(q)' = WorkOf(q)
  BY DEF BeginRun, RunInv, RunsConsistent, Alive, RunTypes, WorkOf
<1>2. CASE t \in WebIds /\ ~CanUpdate(t, "queued")
  <2>1. run' = [run EXCEPT ![r].at = "over"] /\ UNCHANGED <<row, node, active, work>>
    BY <1>2, <1>1 DEF BeginRun
  <2>2. Moves(r) /\ run'[r].todo = {} /\ run'[r].at = "over"
    BY <2>1, <1>1 DEF Moves, RunTypes, RunFields
  <2>3. RunTypes'
    BY <2>1, <1>1 DEF RunTypes, RunFrame, Steps, RunFields
  <2>4. RunInv'
    BY <2>1, <2>2, <1>1, Goes DEF RunFrame, InBatch
  <2> QED
    BY <2>3, <2>4
<1>3. CASE ~(t \in WebIds /\ ~CanUpdate(t, "queued"))
  <2> DEFINE todo == PackagesOf(r)
             pkg == FirstPackage(r)
             first == FirstStep(r)
  <2>1. /\ row' = IF t \in WebIds THEN [row EXCEPT ![t] = Updated(t, "queued")] ELSE row
        /\ active' = active \union (IF t \in WebIds THEN {t} ELSE {})
        /\ node' = IF run[r].kind = "prescan" THEN [node EXCEPT ![t].batch = TRUE] ELSE node
        /\ run' = [run EXCEPT ![r].at = first, ![r].todo = todo, ![r].pkg = pkg, ![r].next = 1]
        /\ work' = work
    BY <1>3, <1>1 DEF BeginRun
  <2>2. /\ first \in Steps \ {"free", "accepted", "closing", "over"}
        /\ run[r].kind = "prescan" => first = "between"
    BY DEF FirstStep, Steps, InBatch
  <2>3. Moves(r) /\ run'[r].at = first /\ DOMAIN run'[r] = RunFields
    BY <2>1, <2>2, <1>1 DEF Moves, RunTypes, RunFields
  <2>4. Updated(t, "queued") \in RowStatus \ {"completed"}
    BY DEF Updated, RowStatus, Working
  <2>5. RunTypes'
    <3>1. row' \in [Tasks -> RowStatus]
      BY <2>1, <2>4, <1>1 DEF RunTypes
    <3>2. node' \in [Tasks -> Nodes]
      <4>1. [node[t] EXCEPT !.batch = TRUE] \in Nodes
        BY <1>1, NodeTypes DEF RunTypes
      <4> QED
        BY <4>1, <2>1, <1>1 DEF RunTypes
    <3>3. active' \subseteq Tasks
      BY <2>1, <1>1 DEF RunTypes
    <3> QED
      BY <3>1, <3>2, <3>3, <2>1, <2>2, <2>3 DEF RunTypes, RunFrame, Moves
  <2>6. RunInv'
    <3>1. /\ \A u \in Tasks \ {t} : node'[u] = node[u] /\ row'[u] = row[u]
          /\ node'[t].stop = node[t].stop
          /\ run[r].kind = "prescan" => node'[t].batch
          /\ t \in BotIds => row' = row
          /\ t \in WebIds => row'[t] # "completed"
      BY <2>1, <2>4, <1>1, TaskIds DEF RunTypes, Nodes
    <3>2. OnlyRun(r) => ~Begun(t) /\ row[t] # "completed"
      BY <1>1 DEF OnlyRun, Begun, RunInv, CountsBegun
    <3>3. OnlyRun(r) => row'[t] # "completed"
      BY <3>1, <3>2, <1>1 DEF Tasks
    <3>4. first \notin {"closing", "over"} /\ (first = "between" => WorkOf(r)' = {})
      BY <2>2, <1>1
    <3> QED
      BY <3>1, <3>3, <3>4, <2>2, <2>3, <1>1, Goes DEF RunFrame
  <2> QED
    BY <2>5, <2>6
<1> QED
  BY <1>2, <1>3

LEMMA BeginPackageKeeps ==
  ASSUME RunTypes, RunInv, NEW r \in Runs, BeginPackage(r), RunFrame
  PROVE  RunTypes' /\ RunInv'
<1> DEFINE first == Min(run[r].todo)
<1>1. run' = [run EXCEPT ![r].at = "listing", ![r].pkg = first, ![r].next = 1,
                         ![r].todo = @ \ {first}]
      /\ UNCHANGED <<row, node, active, work>> /\ run[r].at = "between"
  BY DEF BeginPackage
<1>2. Moves(r) /\ run'[r].at = "listing" /\ DOMAIN run' = Runs /\ DOMAIN run'[r] = RunFields
  BY <1>1 DEF Moves, RunTypes, RunFields, Alive
<1>3. RunTypes'
  BY <1>1, <1>2 DEF RunTypes, RunFrame, Moves, Steps, InBatch
<1>4. \A q \in Runs : WorkOf(q)' = WorkOf(q)
  BY <1>1 DEF WorkOf
<1>5. run[r].task \in Tasks /\ run[r].at \in InBatch
  BY <1>1, <1>2, RunMoves DEF InBatch
<1>6. RunInv'
  BY <1>1, <1>2, <1>4, <1>5, BatchOf, Goes DEF RunFrame
<1> QED
  BY <1>3, <1>6

LEMMA EndPackagesKeeps ==
  ASSUME RunTypes, RunInv, NEW r \in Runs, EndPackages(r), RunFrame
  PROVE  RunTypes' /\ RunInv'
<1> DEFINE t == run[r].task
<1>1. /\ run' = [run EXCEPT ![r].at = "closing"] /\ node' = [node EXCEPT ![t].batch = FALSE]
      /\ UNCHANGED <<row, active, work>> /\ run[r].at = "between"
      /\ run[r].todo = {} \/ node[t].stop
  BY DEF EndPackages
<1>2. Moves(r) /\ run'[r].at = "closing" /\ run'[r].todo = run[r].todo
      /\ DOMAIN run' = Runs /\ DOMAIN run'[r] = RunFields
  BY <1>1 DEF Moves, RunTypes, RunFields, Alive
<1>3. t \in Tasks /\ run[r].at \in InBatch
  BY <1>1, <1>2, RunMoves DEF InBatch
<1>4. RunTypes'
  <2>1. [node[t] EXCEPT !.batch = FALSE] \in Nodes
    BY <1>3, NodeTypes DEF RunTypes
  <2>2. node' \in [Tasks -> Nodes]
    BY <1>1, <2>1, <1>3 DEF RunTypes
  <2> QED
    BY <1>1, <1>2, <2>2 DEF RunTypes, RunFrame, Moves, Steps
<1>5. \A q \in Runs : WorkOf(q)' = WorkOf(q)
  BY <1>1 DEF WorkOf
<1>6. node'[t].stop = node[t].stop /\ \A u \in Tasks \ {t} : node'[u] = node[u] /\ row'[u] = row[u]
  BY <1>1, <1>3 DEF RunTypes, Nodes
<1>7. RunInv'
  BY <1>1, <1>2, <1>3, <1>5, <1>6, BatchOf, Goes DEF RunFrame, InBatch
<1> QED
  BY <1>4, <1>7

LEMMA CloseRunKeeps ==
  ASSUME RunTypes, RunInv, NEW r \in Runs, CloseRun(r), RunFrame
  PROVE  RunTypes' /\ RunInv'
<1> DEFINE t == run[r].task
<1>1. /\ run' = [run EXCEPT ![r].at = "over"] /\ RemoveActive(t)
      /\ UNCHANGED <<node, work>> /\ run[r].at = "closing"
  BY DEF CloseRun
<1>2. Moves(r) /\ run'[r].at = "over" /\ run'[r].todo = run[r].todo
      /\ DOMAIN run' = Runs /\ DOMAIN run'[r] = RunFields
  BY <1>1 DEF Moves, RunTypes, RunFields, Alive
<1>3. t \in Tasks
  BY <1>2, RunMoves
<1>4. row' \in [Tasks -> RowStatus] /\ active' \subseteq Tasks
      /\ \A u \in Tasks \ {t} : row'[u] = row[u]
  BY <1>1, <1>3, Removed
<1>5. RunTypes'
  BY <1>1, <1>2, <1>4 DEF RunTypes, RunFrame, Moves, Steps
<1>6. \A q \in Runs : WorkOf(q)' = WorkOf(q)
  BY <1>1 DEF WorkOf
<1>7. run[r].kind = "prescan" /\ OnlyRun(r) =>
        WorkOf(r) = {} /\ (run[r].todo = {} \/ node[t].stop)
  BY <1>1 DEF RunInv, BatchConsistent
<1>8. RunInv'
  BY <1>1, <1>2, <1>3, <1>4, <1>6, <1>7, Goes DEF RunFrame, InBatch
<1> QED
  BY <1>5, <1>8

LEMMA FetchCommentsKeeps ==
  ASSUME RunTypes, RunInv, NEW r \in Runs, FetchComments(r), RunFrame
  PROVE  RunTypes' /\ RunInv'
<1> DEFINE t == run[r].task
<1>1. run[r].at = "fetching" /\ UNCHANGED <<node, work>> /\ run[r].kind # "prescan"
  BY DEF FetchComments, RunInv, RunsConsistent
<1>2. PICK to \in {"listing", "over"} : run' = [run EXCEPT ![r].at = to]
  BY DEF FetchComments
<1>3. Moves(r) /\ run'[r].at \in {"listing", "over"} /\ DOMAIN run' = Runs
      /\ DOMAIN run'[r] = RunFields
  BY <1>1, <1>2 DEF Moves, RunTypes, RunFields, Alive
<1>4. t \in Tasks
  BY <1>3, RunMoves
<1>5. row' \in [Tasks -> RowStatus] /\ active' \subseteq Tasks
      /\ \A u \in Tasks \ {t} : row'[u] = row[u]
  <2>1. CASE UNCHANGED <<row, active>>
    BY <2>1 DEF RunTypes
  <2>2. CASE RemoveActive(t)
    BY <2>2, <1>4, Removed
  <2> QED
    BY <2>1, <2>2 DEF FetchComments
<1>6. RunTypes'
  BY <1>1, <1>3, <1>5 DEF RunTypes, RunFrame, Moves, Steps, InBatch
<1>7. \A q \in Runs : WorkOf(q)' = WorkOf(q)
  BY <1>1 DEF WorkOf
<1>8. RunInv'
  BY <1>1, <1>3, <1>4, <1>5, <1>7, Goes DEF RunFrame
<1> QED
  BY <1>6, <1>8

LEMMA EnqueueKeeps ==
  ASSUME RunTypes, RunInv, NEW r \in Runs, Enqueue(r), RunFrame
  PROVE  RunTypes' /\ RunInv'
<1> DEFINE t == run[r].task
           f == <<run[r].pkg, run[r].next>>
           to == IF run[r].next = Media[run[r].pkg] THEN "waiting" ELSE "listing"
           status == Safe(Snapshot(t), "queued")
<1>1. /\ run[r].at = "listing" /\ row' = [row EXCEPT ![t] = status]
      /\ node' = [node EXCEPT ![t].total = @ + 1, ![t].ended = @ \ {f}]
      /\ work' = [work EXCEPT ![r][f] = "queued"]
      /\ run' = [run EXCEPT ![r].next = @ + 1, ![r].at = to]
      /\ UNCHANGED active
  BY DEF Enqueue
<1>2. Moves(r) /\ run'[r].at = to /\ DOMAIN run' = Runs /\ DOMAIN run'[r] = RunFields
  BY <1>1 DEF Moves, RunTypes, RunFields, Alive
<1>3. t \in Tasks /\ run[r].at \in InBatch
  BY <1>1, <1>2, RunMoves DEF InBatch
<1>4. status \in RowStatus /\ node[t] \in Nodes
      /\ (status = "completed" => row[t] = "completed" \/ ~node[t].batch)
  <2>1. node[t] \in Nodes /\ row[t] \in RowStatus
    BY <1>3 DEF RunTypes
  <2>2. NodeStatus(node[t]) \in RowStatus
        /\ (NodeStatus(node[t]) = "completed" => ~node[t].batch)
    BY <2>1, <1>3, Statuses
  <2>3. Snapshot(t) \in RowStatus
        /\ (Snapshot(t) = "completed" => row[t] = "completed" \/ ~node[t].batch)
    BY <2>1, <2>2 DEF Snapshot
  <2>4. "queued" \in RowStatus
    BY DEF RowStatus, Working
  <2> QED
    BY <2>1, <2>3, <2>4, Kept
<1>5. RunTypes'
  <2>1. node' \in [Tasks -> Nodes]
    BY <1>1, <1>3, <1>4, NodeTypes DEF RunTypes
  <2>2. work' \in [Runs -> [AllFiles -> {"none", "queued", "busy"}]]
    BY <1>1 DEF RunTypes
  <2>3. row' \in [Tasks -> RowStatus]
    BY <1>1, <1>4 DEF RunTypes
  <2> QED
    BY <1>1, <1>2, <2>1, <2>2, <2>3 DEF RunTypes, RunFrame, Moves, Steps, InBatch
<1>6. \A q \in Runs \ {r} : WorkOf(q)' = WorkOf(q)
  BY <1>1 DEF WorkOf, RunTypes
<1>7. /\ node'[t].stop = node[t].stop /\ node'[t].batch = node[t].batch
      /\ \A u \in Tasks \ {t} : node'[u] = node[u] /\ row'[u] = row[u]
      /\ row'[t] = status
  BY <1>1, <1>3, <1>4 DEF RunTypes, Nodes
<1>8. to \in {"waiting", "listing"}
  OBVIOUS
<1>9. run[r].kind = "prescan" =>
        /\ OnlyRun(r) \/ t \in BotIds => node'[t].batch
        /\ OnlyRun(r) => row'[t] # "completed"
  BY <1>3, <1>4, <1>7, BatchOf
<1>10. RunInv'
  <2> HIDE DEF to
  <2> QED
    BY <1>1, <1>2, <1>6, <1>7, <1>8, <1>9, Goes DEF RunFrame
<1> QED
  BY <1>5, <1>10

LEMMA EndWaitKeeps ==
  ASSUME RunTypes, RunInv, NEW r \in Runs, EndWait(r), RunFrame
  PROVE  RunTypes' /\ RunInv'
<1> DEFINE t == run[r].task
<1>1. run[r].at = "waiting" /\ UNCHANGED <<node, work>>
  BY DEF EndWait
<1>2. PICK to \in {"joining", "over"} : run' = [run EXCEPT ![r].at = to]
  BY DEF EndWait
<1>3. \/ run'[r].at = "over" /\ RemoveActive(t) /\ run[r].kind # "prescan"
      \/ run'[r].at = "joining" /\ UNCHANGED <<row, active>>
  <2>1. run'[r].at = to /\ (IsComment(r) => run[r].kind # "prescan")
    BY <1>2 DEF RunTypes, RunFields, IsComment
  <2>2. CASE IsComment(r)
    <3>1. RemoveActive(t) /\ run' = [run EXCEPT ![r].at = "over"]
      BY <2>2 DEF EndWait
    <3>2. run'[r].at = "over"
      BY <3>1 DEF RunTypes, RunFields
    <3> QED
      BY <2>1, <2>2, <3>1, <3>2
  <2>3. CASE ~IsComment(r)
    <3>1. UNCHANGED <<row, active>> /\ run' = [run EXCEPT ![r].at = "joining"]
      BY <2>3 DEF EndWait
    <3> QED
      BY <3>1 DEF RunTypes, RunFields
  <2> QED
    BY <2>2, <2>3
<1>4. Moves(r) /\ DOMAIN run' = Runs /\ DOMAIN run'[r] = RunFields
  BY <1>1, <1>2 DEF Moves, RunTypes, RunFields, Alive
<1>5. t \in Tasks /\ run[r].at \in InBatch
  BY <1>1, <1>4, RunMoves DEF InBatch
<1>6. row' \in [Tasks -> RowStatus] /\ active' \subseteq Tasks
      /\ \A u \in Tasks \ {t} : row'[u] = row[u]
  BY <1>3, <1>5, Removed DEF RunTypes
<1>7. RunTypes'
  BY <1>1, <1>3, <1>4, <1>6 DEF RunTypes, RunFrame, Moves, Steps, InBatch
<1>8. \A q \in Runs : WorkOf(q)' = WorkOf(q)
  BY <1>1 DEF WorkOf
<1>9. RunInv'
  BY <1>1, <1>3, <1>4, <1>5, <1>6, <1>8, BatchOf, Goes DEF RunFrame
<1> QED
  BY <1>7, <1>9

LEMMA JoinKeeps ==
  ASSUME RunTypes, RunInv, NEW r \in Runs, Join(r), RunFrame
  PROVE  RunTypes' /\ RunInv'
<1> DEFINE t == run[r].task
           to == IF run[r].kind = "prescan" THEN "between" ELSE "over"
<1>1. /\ run[r].at = "joining" /\ UNCHANGED <<node, work>> /\ WorkOf(r) = {}
      /\ run' = [run EXCEPT ![r].at = to]
      /\ IF node[t].batch THEN UNCHANGED <<row, active>> ELSE RemoveActive(t)
  BY DEF Join
<1>2. Moves(r) /\ DOMAIN run' = Runs /\ DOMAIN run'[r] = RunFields /\ run'[r].at = to
  BY <1>1 DEF Moves, RunTypes, RunFields, Alive
<1>3. t \in Tasks /\ run[r].at \in InBatch
  BY <1>1, <1>2, RunMoves DEF InBatch
<1>4. row' \in [Tasks -> RowStatus] /\ active' \subseteq Tasks
      /\ \A u \in Tasks \ {t} : row'[u] = row[u]
  BY <1>1, <1>3, Removed DEF RunTypes
<1>5. RunTypes'
  BY <1>1, <1>2, <1>4 DEF RunTypes, RunFrame, Moves, Steps, InBatch
<1>6. \A q \in Runs : WorkOf(q)' = WorkOf(q)
  BY <1>1 DEF WorkOf
<1>7. RunInv'
  BY <1>1, <1>2, <1>3, <1>4, <1>6, BatchOf, Goes DEF RunFrame
<1> QED
  BY <1>5, <1>7

(* The files.                                                              *)
LEMMA TakeFileKeeps ==
  ASSUME RunTypes, RunInv, NEW r \in Runs, NEW f \in AllFiles, TakeFile(r, f), RunFrame
  PROVE  RunTypes' /\ RunInv'
<1> DEFINE t == run[r].task
<1>1. work[r][f] = "queued" /\ UNCHANGED <<node, active, run>>
  BY DEF TakeFile
<1>2. PICK to \in {"none", "busy"} : work' = [work EXCEPT ![r][f] = to]
  BY DEF TakeFile
<1>3. work' \in [Runs -> [AllFiles -> {"none", "queued", "busy"}]]
      /\ \A q \in Runs : WorkOf(q)' \subseteq WorkOf(q)
  BY <1>1, <1>2 DEF RunTypes, WorkOf
<1>4. row' \in [Tasks -> RowStatus]
      /\ \A u \in Tasks : row'[u] = "completed" => row[u] = "completed"
  <2>1. CASE row' = row
    BY <2>1 DEF RunTypes
  <2>2. CASE row' = [row EXCEPT ![t] = Safe(row[t], "downloading")]
    BY <2>2, Kept DEF RunTypes, RowStatus, Working, Safe
  <2> QED
    BY <2>1, <2>2 DEF TakeFile
<1>5. RunTypes'
  BY <1>1, <1>3, <1>4 DEF RunTypes, RunFrame
<1>6. RunInv'
  BY <1>1, <1>3, <1>4, Quiet DEF RunFrame
<1> QED
  BY <1>5, <1>6

LEMMA EndFileKeeps ==
  ASSUME RunTypes, RunInv, NEW r \in Runs, NEW f \in AllFiles, EndFile(r, f), RunFrame
  PROVE  RunTypes' /\ RunInv'
<1> DEFINE t == run[r].task
           Ended(missing) == [node[t] EXCEPT !.counted = @ \union {f}, !.ended = @ \union {f},
                                             !.missing = @ \union missing]
<1>1. /\ work[r][f] = "busy" /\ UNCHANGED <<active, run>>
      /\ work' = [work EXCEPT ![r][f] = "none"]
  BY DEF EndFile
<1>2. PICK missing \in {{}, {f}} :
        /\ node' = [node EXCEPT ![t] = Ended(missing)]
        /\ row' \in {[row EXCEPT ![t] = Safe(row[t], NodeStatus(Ended(missing)))], row}
  BY DEF EndFile
<1>3. work' \in [Runs -> [AllFiles -> {"none", "queued", "busy"}]]
      /\ (\A q \in Runs : WorkOf(q)' \subseteq WorkOf(q)) /\ WorkOf(r) # {}
  BY <1>1 DEF RunTypes, WorkOf
<1>4. t \in Tasks
  BY <1>3 DEF RunInv, RunsConsistent
<1>5. Ended(missing) \in Nodes /\ Ended(missing).batch = node[t].batch
      /\ Ended(missing).total = node[t].total /\ Ended(missing).stop = node[t].stop
  <2> DEFINE counted == node[t].counted \union {f}
             ended == node[t].ended \union {f}
             absent == node[t].missing \union missing
  <2>1. node[t] \in Nodes
    BY <1>4 DEF RunTypes
  <2>2. {counted, ended, absent} \subseteq SUBSET AllFiles
    BY <2>1 DEF Nodes
  <2> HIDE DEF counted, ended, absent
  <2>3. LET n == [node[t] EXCEPT !.counted = counted, !.ended = ended, !.missing = absent]
        IN n \in Nodes /\ n.batch = node[t].batch /\ n.total = node[t].total
           /\ n.stop = node[t].stop
    BY <2>1, <2>2 DEF Nodes
  <2> QED
    BY <2>3 DEF counted, ended, absent
<1> DEFINE n == Ended(missing)
<1> HIDE DEF Ended
<1>6. node' \in [Tasks -> Nodes] /\ node'[t] = n /\ \A u \in Tasks \ {t} : node'[u] = node[u]
  BY <1>2, <1>4, <1>5 DEF RunTypes
<1>7. row' \in [Tasks -> RowStatus]
      /\ \A u \in Tasks : row'[u] = "completed" =>
           row[u] = "completed" \/ (node[u].total > 0 /\ ~node[u].batch)
  <2>1. NodeStatus(n) \in RowStatus /\ row[t] \in RowStatus
        /\ (NodeStatus(n) = "completed" => n.total > 0 /\ ~n.batch)
    BY <1>4, <1>5, Statuses DEF RunTypes
  <2>2. Safe(row[t], NodeStatus(n)) \in RowStatus
        /\ (Safe(row[t], NodeStatus(n)) = "completed" =>
              row[t] = "completed" \/ (node[t].total > 0 /\ ~node[t].batch))
    BY <2>1, <1>5, Kept
  <2>3. CASE row' = row
    BY <2>3 DEF RunTypes
  <2>4. CASE row' = [row EXCEPT ![t] = Safe(row[t], NodeStatus(n))]
    BY <2>4, <2>2, <1>4 DEF RunTypes
  <2> QED
    BY <2>3, <2>4, <1>2
<1>8. RunTypes'
  BY <1>1, <1>3, <1>6, <1>7 DEF RunTypes, RunFrame
<1>9. RunInv'
  BY <1>1, <1>3, <1>4, <1>5, <1>6, <1>7, Quiet DEF RunFrame
<1> QED
  BY <1>8, <1>9

-----------------------------------------------------------------------------
(* A coroutine is handed to the loop for a task of the Web, or for a new   *)
(* one of the bot.                                                         *)
LEMMA FreeRunIsFree ==
  ASSUME \E r \in Runs : run[r].at = "free"
  PROVE  FreeRun \in Runs /\ run[FreeRun].at = "free"
BY DEF FreeRun

LEMMA NewRun ==
  ASSUME RunTypes, RunInv, NEW r \in Runs, run[r].at = "free", NEW t \in Tasks,
         NEW kind, NEW offered, NEW sel,
         run' = [run EXCEPT ![r] = Scheduled(t, kind, offered, sel)], work' = work,
         \A u \in Tasks \ {t} : node'[u] = node[u] /\ row'[u] = row[u],
         t \in WebIds => UNCHANGED <<row, node, taskId, taskNode>>,
         t \in BotIds => /\ t > taskId /\ taskId' = t /\ taskNode' = taskNode \union {t}
                         /\ node'[t] = NewNode(TRUE) /\ row'[t] # "completed"
  PROVE  /\ DOMAIN run' = Runs
         /\ \A q \in Runs : DOMAIN run'[q] = RunFields /\ run'[q].at \in Steps
         /\ RunInv'
<1>1. /\ run'[r].task = t /\ run'[r].at = "accepted" /\ run'[r].todo = {}
      /\ DOMAIN run'[r] = RunFields
      /\ \A q \in Runs \ {r} : run'[q] = run[q]
      /\ DOMAIN run' = Runs
  BY DEF RunTypes, Scheduled, NoRun, RunFields
<1>2. DOMAIN run' = Runs /\ \A q \in Runs : DOMAIN run'[q] = RunFields /\ run'[q].at \in Steps
  BY <1>1 DEF RunTypes, Steps
<1>3. \A q \in Runs : WorkOf(q)' = WorkOf(q)
  BY DEF WorkOf
<1>4. run[r].task = 0 /\ run[r].todo = {} /\ WorkOf(r) = {} /\ t # 0
  BY TaskIds DEF RunInv, RunsConsistent
<1>5. RunsConsistent'
  <2> SUFFICES ASSUME NEW q \in Runs
               PROVE  /\ run'[q].at = "free" <=> run'[q].task = 0
                      /\ run'[q].task \in Tasks \union {0}
                      /\ run'[q].kind = "prescan" => run'[q].at # "fetching"
                      /\ run'[q].at \in {"free", "accepted"} => run'[q].todo = {} /\ WorkOf(q)' = {}
    BY DEF RunsConsistent
  <2>1. CASE q = r
    BY <2>1, <1>1, <1>3, <1>4
  <2>2. CASE q # r
    BY <2>2, <1>1, <1>3 DEF RunInv, RunsConsistent
  <2> QED
    BY <2>1, <2>2
<1>6. /\ \A q \in Runs \ {r} : Alive(q)' = Alive(q)
      /\ \A q \in Runs : OnlyRun(q)' => q = r \/ (OnlyRun(q) /\ run[q].task # t)
      /\ \A u \in Tasks : Begun(u) => Begun(u)'
  <2>1. \A q \in Runs \ {r} : Alive(q)' = Alive(q)
    BY <1>1 DEF Alive
  <2>2. ASSUME NEW q \in Runs \ {r}, OnlyRun(q)'
        PROVE  OnlyRun(q) /\ run[q].task # t
    <3>1. run'[q].task # t
      BY <2>2, <1>1 DEF OnlyRun, RunsOf
    <3>2. run[q].at # "free" /\ run[q].task # 0
      BY <2>2, <1>1 DEF OnlyRun, RunInv, RunsConsistent
    <3>3. RunsOf(run[q].task) = {q}
      BY <2>2, <3>2, <1>1, <1>4 DEF OnlyRun, RunsOf
    <3> QED
      BY <3>1, <3>2, <3>3, <1>1 DEF OnlyRun
  <2>3. ASSUME NEW u \in Tasks, Begun(u)
        PROVE  Begun(u)'
    BY <2>3, <1>1 DEF Begun, RunsOf
  <2> QED
    BY <2>1, <2>2, <2>3
<1>7. t \in BotIds => \A q \in Runs \ {r} : Alive(q) => run[q].task # t
  <2> SUFFICES ASSUME t \in BotIds, NEW q \in Runs \ {r}, Alive(q), run[q].task = t
               PROVE  FALSE
    OBVIOUS
  <2>1. t <= taskId /\ t > taskId /\ t \in Nat /\ taskId \in Nat
    BY RunAssumption DEF RunInv, BotNumbers, RunTypes
  <2> QED
    BY <2>1
<1>8. BotNumbers'
  <2>1. ASSUME NEW q \in Runs, Alive(q)', run'[q].task \in BotIds
        PROVE  run'[q].task <= taskId'
    <3>1. CASE q = r
      <4>1. t \in BotIds /\ t \in Nat /\ taskId' = t /\ run'[q].task = t
        BY <3>1, <2>1, <1>1, RunAssumption
      <4> QED
        BY <4>1
    <3>2. CASE q # r /\ t \in WebIds
      BY <3>2, <2>1, <1>1, <1>6 DEF RunInv, BotNumbers
    <3>3. CASE q # r /\ t \in BotIds
      <4>1. run[q].task <= taskId /\ t > taskId /\ taskId' = t /\ run'[q].task = run[q].task
        BY <3>3, <2>1, <1>1, <1>6 DEF RunInv, BotNumbers
      <4>2. run[q].task \in Nat /\ t \in Nat /\ taskId \in Nat
        BY <3>3, <2>1, <1>1, RunAssumption DEF RunTypes
      <4> QED
        BY <4>1, <4>2
    <3> QED
      BY <3>1, <3>2, <3>3 DEF Tasks
  <2>2. ASSUME NEW p \in Runs, NEW q \in Runs, Alive(p)', Alive(q)',
               run'[p].task = run'[q].task, run'[p].task \in BotIds
        PROVE  p = q
    <3>1. CASE p # r /\ q # r
      BY <3>1, <2>2, <1>1, <1>6 DEF RunInv, BotNumbers
    <3>2. CASE p = r /\ q # r
      BY <3>2, <2>2, <1>1, <1>6, <1>7
    <3>3. CASE p # r /\ q = r
      BY <3>3, <2>2, <1>1, <1>6, <1>7
    <3> QED
      BY <3>1, <3>2, <3>3
  <2> QED
    BY <2>1, <2>2 DEF BotNumbers
<1>9. BotBatches'
  <2> SUFFICES ASSUME NEW q \in Runs, run'[q].kind = "prescan", run'[q].task \in BotIds
               PROVE  /\ run'[q].at = "accepted" => node'[run'[q].task].total = 0
                      /\ run'[q].at \in InBatch => node'[run'[q].task].batch
    BY DEF BotBatches
  <2>1. CASE q = r
    BY <2>1, <1>1 DEF InBatch, NewNode
  <2>2. CASE q # r /\ run[q].task # t
    BY <2>2, <1>1, TaskIds DEF RunInv, BotBatches
  <2>3. CASE q # r /\ run[q].task = t
    BY <2>3, <1>1, <1>7 DEF Alive, InBatch
  <2> QED
    BY <2>1, <2>2, <2>3
<1>10. BotRunsAreStoppable'
  <2> SUFFICES ASSUME NEW q \in Runs, run'[q].kind = "prescan", run'[q].task \in BotIds,
                      Alive(q)', run'[q].at # "closing"
               PROVE  run'[q].task \in taskNode' \/ node'[run'[q].task].stop
    BY DEF BotRunsAreStoppable
  <2>1. CASE q = r
    BY <2>1, <1>1
  <2>2. CASE q # r
    <3>1. run[q].task \in taskNode \/ node[run[q].task].stop
      BY <2>2, <1>1, <1>6 DEF RunInv, BotRunsAreStoppable
    <3>2. taskNode \subseteq taskNode'
      BY DEF Tasks
    <3>3. run[q].task # t \/ t \in WebIds
      BY <2>2, <1>6, <1>7 DEF Tasks
    <3>4. node'[run[q].task] = node[run[q].task]
      BY <2>2, <1>1, <3>3, TaskIds
    <3> QED
      BY <2>2, <1>1, <3>1, <3>2, <3>4
  <2> QED
    BY <2>1, <2>2
<1>11. CountsBegun'
  <2> SUFFICES ASSUME NEW u \in Tasks, row'[u] = "completed" \/ node'[u].total > 0
               PROVE  Begun(u)'
    BY DEF CountsBegun
  <2>1. CASE u = t /\ t \in BotIds
    BY <2>1 DEF NewNode
  <2>2. CASE u # t \/ t \notin BotIds
    BY <2>2, <1>6 DEF RunInv, CountsBegun, Tasks
  <2> QED
    BY <2>1, <2>2
<1>12. BatchConsistent'
  <2> SUFFICES ASSUME NEW q \in Runs, run'[q].kind = "prescan", OnlyRun(q)'
               PROVE  LET u == run'[q].task IN
                 /\ run'[q].at \in InBatch => node'[u].batch /\ row'[u] # "completed"
                 /\ run'[q].at \in {"between", "closing", "over"} => WorkOf(q)' = {}
                 /\ run'[q].at \in {"closing", "over"} => run'[q].todo = {} \/ node'[u].stop
    BY DEF BatchConsistent
  <2>1. CASE q = r
    BY <2>1, <1>1 DEF InBatch
  <2>2. CASE q # r
    <3>1. OnlyRun(q) /\ run[q].task # t /\ run'[q] = run[q] /\ run[q].task \in Tasks
      BY <2>2, <1>1, <1>6 DEF OnlyRun, RunInv, RunsConsistent
    <3>2. node'[run[q].task] = node[run[q].task] /\ row'[run[q].task] = row[run[q].task]
      BY <3>1
    <3> QED
      BY <3>1, <3>2, <1>3 DEF RunInv, BatchConsistent
  <2> QED
    BY <2>1, <2>2
<1> QED
  BY <1>2, <1>5, <1>8, <1>9, <1>10, <1>11, <1>12 DEF RunInv

-----------------------------------------------------------------------------
(* The tables of the Web console.                                          *)
LEMMA WebTables ==
  /\ NoScan \in Scans /\ NoPrescan \in Entries /\ NoCall \in Calls
  /\ NoScan.at = "none" /\ ~NoPrescan.on /\ NoCall.op = "none"
<1>1. NoScan \in Scans /\ NoScan.at = "none"
  BY DEF NoScan, Scans, Kinds
<1>2. NoPrescan \in Entries /\ ~NoPrescan.on
  BY DEF NoPrescan, Entries
<1>3. NoCall \in Calls /\ NoCall.op = "none"
  BY DEF NoCall, Calls
<1> QED
  BY <1>1, <1>2, <1>3

LEMMA WebStill ==
  ASSUME WebInv, UNCHANGED <<scan, preview, prescan, call>>,
         \A t \in WebIds : (\E r \in Runs : run'[r].task = t) => \E r \in Runs : run[r].task = t
  PROVE  WebInv'
BY DEF WebInv, WebTypes, ScannedFirst, Offers

(* Steps of requests that offer nothing new.                               *)
LEMMA NoNewOffers ==
  ASSUME WebInv, UNCHANGED scan, preview' \subseteq WebIds,
         prescan' \in [WebIds -> Entries], call' \in [Callers -> Calls],
         \A t \in WebIds : Offers(t)' => Offers(t),
         \A c \in Callers : call'[c] = call[c] \/
           /\ call'[c].op # "submit"
           /\ call'[c].op \in {"confirm", "stop"} => call'[c].task \in WebIds
  PROVE  WebInv'
BY DEF WebInv, WebTypes, ScannedFirst

LEMMA FewerOffers ==
  ASSUME WebInv, UNCHANGED <<scan, run>>, preview' \subseteq preview,
         prescan' \in [WebIds -> Entries], call' \in [Callers -> Calls],
         \A t \in WebIds : prescan'[t].on => prescan[t].on,
         \A c \in Callers : call'[c] = call[c] \/ call'[c].op \notin {"confirm", "stop", "submit"}
  PROVE  WebInv'
<1>1. \A t \in WebIds : Offers(t)' => Offers(t)
  BY DEF Offers
<1> QED
  BY <1>1, NoNewOffers DEF WebInv, WebTypes

(* Steps of the scan of t, which may offer t when it is over.              *)
LEMMA ScanGoes ==
  ASSUME WebInv, NEW t \in WebIds, scan[t].at \notin {"over", "probing"}, NEW s \in Scans,
         scan' = [scan EXCEPT ![t] = s], UNCHANGED <<call, run>>,
         preview' = preview \/ (preview' = preview \union {t} /\ s.at = "over"),
         prescan' = prescan \/ (s.at = "over" /\ \E e \in Entries :
                                  prescan' = [prescan EXCEPT ![t] = e])
  PROVE  WebInv'
<1>1. WebTypes'
  BY DEF WebInv, WebTypes
<1>2. ~Offers(t)
  BY DEF WebInv, ScannedFirst
<1>3. \A u \in WebIds \ {t} : scan'[u] = scan[u] /\ (Offers(u)' => Offers(u))
  BY DEF WebInv, WebTypes, Offers
<1>4. Offers(t)' => scan'[t].at = "over"
  BY <1>2 DEF WebInv, WebTypes, Offers
<1>5. ScannedFirst'
  BY <1>3, <1>4 DEF WebInv, ScannedFirst
<1> QED
  BY <1>1, <1>5 DEF WebInv

-----------------------------------------------------------------------------
(* The scans.                                                              *)
LEMMA FreshTaskIsFresh ==
  ASSUME \E u \in WebIds : scan[u].at = "none"
  PROVE  FreshTask \in WebIds /\ scan[FreshTask].at = "none"
BY DEF FreshTask

(* A status other than completed for an existing row.                      *)
LEMMA SetRowKeeps ==
  ASSUME RunTypes, NEW t \in Tasks, NEW status \in RowStatus \ {"completed"},
         row' = row \/ row' = [row EXCEPT ![t] = status] \/ SetRow(t, status)
  PROVE  /\ row' \in [Tasks -> RowStatus]
         /\ \A u \in Tasks : row'[u] = "completed" => row[u] = "completed"
BY DEF RunTypes, SetRow, Updated, RowStatus

(* ... while nodes and runs stay as they are.                              *)
LEMMA OnlyRow ==
  ASSUME RunTypes, RunInv, NEW t \in Tasks, NEW status \in RowStatus \ {"completed"},
         row' = row \/ row' = [row EXCEPT ![t] = status] \/ SetRow(t, status),
         UNCHANGED <<node, active, run, work, taskId, taskNode>>
  PROVE  RunTypes' /\ RunInv'
<1>1. /\ row' \in [Tasks -> RowStatus]
      /\ \A u \in Tasks : row'[u] = "completed" => row[u] = "completed"
  BY SetRowKeeps
<1>2. RunTypes'
  BY <1>1 DEF RunTypes
<1>3. \A r \in Runs : WorkOf(r)' = WorkOf(r)
  BY DEF WorkOf
<1>4. RunInv'
  BY <1>1, <1>3, Quiet
<1> QED
  BY <1>2, <1>4

LEMMA RunStill ==
  ASSUME RunTypes, RunInv, UNCHANGED <<runVars, taskId, taskNode>>
  PROVE  RunTypes' /\ RunInv'
<1>1. \A r \in Runs : WorkOf(r)' = WorkOf(r)
  BY DEF WorkOf, runVars
<1>2. RunTypes'
  BY DEF RunTypes, runVars
<1>3. RunInv'
  BY <1>1, Quiet DEF runVars
<1> QED
  BY <1>2, <1>3

(* A new node for a task of the Web that no run is of.                     *)
LEMMA NewWebNode ==
  ASSUME RunTypes, RunInv, NEW t \in WebIds, \A r \in Runs : run[r].task # t,
         NEW status \in RowStatus \ {"completed"}, CreateWebTask(t, status),
         UNCHANGED <<active, run, work, taskId, taskNode>>
  PROVE  RunTypes' /\ RunInv'
<1>1. NewNode(TRUE) \in Nodes /\ t \in Tasks
  BY NodeTypes, TaskIds DEF Nodes, NewNode
<1>2. RunTypes'
  BY <1>1 DEF RunTypes, CreateWebTask
<1>3. /\ \A u \in Tasks \ {t} : node'[u] = node[u] /\ row'[u] = row[u]
      /\ row'[t] = status /\ node'[t] = NewNode(TRUE)
  BY <1>1 DEF CreateWebTask, RunTypes
<1>4. /\ \A r \in Runs : Alive(r)' = Alive(r) /\ OnlyRun(r)' = OnlyRun(r) /\ WorkOf(r)' = WorkOf(r)
      /\ \A u \in Tasks : Begun(u)' = Begun(u)
  BY DEF Alive, OnlyRun, RunsOf, Begun, WorkOf
<1>5. RunsConsistent' /\ BotNumbers'
  BY <1>4 DEF RunInv, RunsConsistent, BotNumbers
<1>6. \A r \in Runs : run[r].task \in Tasks => node'[run[r].task] = node[run[r].task]
                                               /\ row'[run[r].task] = row[run[r].task]
  BY <1>3
<1>7. BotBatches' /\ BotRunsAreStoppable'
  BY <1>4, <1>6, TaskIds DEF RunInv, BotBatches, BotRunsAreStoppable
<1>8. CountsBegun'
  <2> SUFFICES ASSUME NEW u \in Tasks, row'[u] = "completed" \/ node'[u].total > 0
               PROVE  Begun(u)
    BY <1>4 DEF CountsBegun
  <2>1. u # t
    BY <1>3 DEF NewNode
  <2> QED
    BY <2>1, <1>3 DEF RunInv, CountsBegun
<1>9. BatchConsistent'
  <2> SUFFICES ASSUME NEW r \in Runs, run[r].kind = "prescan", OnlyRun(r)
               PROVE  LET u == run[r].task IN
                 /\ run[r].at \in InBatch => node'[u].batch /\ row'[u] # "completed"
                 /\ run[r].at \in {"between", "closing", "over"} => WorkOf(r) = {}
                 /\ run[r].at \in {"closing", "over"} => run[r].todo = {} \/ node'[u].stop
    BY <1>4 DEF BatchConsistent
  <2>1. run[r].task \in Tasks
    BY DEF RunInv, RunsConsistent, OnlyRun
  <2> QED
    BY <2>1, <1>6 DEF RunInv, BatchConsistent
<1> QED
  BY <1>2, <1>5, <1>7, <1>8, <1>9 DEF RunInv

Open == {"none", "scanning", "waiting", "queued", "downloading", "cancelled", "failed",
         "interrupted"}

LEMMA OpenRows == Open \subseteq RowStatus \ {"completed"}
BY DEF Open, RowStatus, Working, Terminal

LEMMA ScanOverGoes ==
  ASSUME WebInv, NEW t \in WebIds, ScanOver(t)
  PROVE  \E s \in Scans : s.at = "over" /\ scan' = [scan EXCEPT ![t] = s]
<1> DEFINE s == [scan[t] EXCEPT !.at = "over", !.batch = 0]
<1>1. s \in Scans /\ s.at = "over"
  BY DEF WebInv, WebTypes, Scans
<1>2. scan' = [scan EXCEPT ![t] = s]
  BY DEF ScanOver
<1> QED
  BY <1>1, <1>2

LEMMA ScanStepKeeps ==
  ASSUME IInv, NEW t \in WebIds, ScanStep(t), taskId' = taskId, taskNode' = taskNode
  PROVE  IInv'
<1> USE DEF IInv
<1>0. t \in Tasks /\ scan[t] \in Scans
  BY TaskIds DEF WebInv, WebTypes
<1>1. CASE ScanStart(t)
  <2>1. PICK to \in {"over", "resolving"} : scan' = [scan EXCEPT ![t].at = to]
    BY <1>1 DEF ScanStart
  <2>2. [scan[t] EXCEPT !.at = to] \in Scans
    BY <1>0 DEF Scans
  <2>3. scan' = [scan EXCEPT ![t] = [scan[t] EXCEPT !.at = to]]
    BY <2>1
  <2>4. WebInv'
    BY <1>1, <2>2, <2>3, ScanGoes DEF ScanStart, runVars
  <2>5. RunTypes' /\ RunInv'
    BY <1>1, RunStill DEF ScanStart
  <2> QED
    BY <2>4, <2>5
<1>2. CASE Resolved(t)
  <2> DEFINE status == IF scan[t].kind = "comment" THEN "waiting" ELSE "scanning"
  <2>1. status \in RowStatus \ {"completed"}
    BY OpenRows DEF Open
  <2>2. \A r \in Runs : run[r].task # t
    BY <1>2 DEF WebInv, ScannedFirst, Offers, Resolved
  <2>3. CreateWebTask(t, status) /\ UNCHANGED <<active, run, work, call, prescan>>
        /\ scan[t].at = "resolving"
    BY <1>2 DEF Resolved
  <2>4. RunTypes' /\ RunInv'
    <3> HIDE DEF status
    <3> QED
      BY <2>1, <2>2, <2>3, NewWebNode
  <2>5. WebInv'
    <3>1. CASE scan[t].kind = "comment"
      <4>1. ScanOver(t) /\ preview' = preview \union {t}
        BY <1>2, <3>1 DEF Resolved
      <4>2. PICK s \in Scans : s.at = "over" /\ scan' = [scan EXCEPT ![t] = s]
        BY <4>1, ScanOverGoes
      <4> QED
        BY <2>3, <4>1, <4>2, ScanGoes
    <3>2. CASE scan[t].kind # "comment"
      <4> DEFINE s == [scan[t] EXCEPT !.at = "scanning"]
      <4>1. s \in Scans
        BY <1>0 DEF Scans
      <4>2. scan' = [scan EXCEPT ![t] = s] /\ preview' = preview
        BY <1>2, <3>2 DEF Resolved
      <4> HIDE DEF s
      <4> QED
        BY <2>3, <4>1, <4>2, ScanGoes
    <3> QED
      BY <3>1, <3>2
  <2> QED
    BY <2>4, <2>5
<1>3. CASE Unresolved(t) \/ ScanStopped(t) \/ ScanFails(t)
  <2>1. PICK s \in Scans : s.at = "over" /\ scan' = [scan EXCEPT ![t] = s]
    BY <1>3, ScanOverGoes DEF Unresolved, ScanStopped, ScanFails
  <2>2. UNCHANGED <<node, active, run, work, preview, prescan, call>>
        /\ scan[t].at \in {"resolving", "scanning"}
    BY <1>3 DEF Unresolved, ScanStopped, ScanFails
  <2>3. PICK status \in Open : SetRow(t, status)
    BY <1>3 DEF Unresolved, ScanStopped, ScanFails, Open
  <2>4. WebInv'
    BY <2>1, <2>2, ScanGoes
  <2>5. RunTypes' /\ RunInv'
    BY <1>0, <2>2, <2>3, OpenRows, OnlyRow
  <2> QED
    BY <2>4, <2>5
<1>4. CASE ScanBatch(t)
  <2> DEFINE s == [scan[t] EXCEPT !.batch = @ + 1]
  <2>1. s \in Scans /\ s.at = scan[t].at
    <3>1. scan[t].batch + 1 \in Nat
      BY <1>0 DEF Scans
    <3> DEFINE next == scan[t].batch + 1
    <3> HIDE DEF next
    <3>2. [scan[t] EXCEPT !.batch = next] \in Scans
      BY <1>0, <3>1 DEF Scans, next
    <3> QED
      BY <1>0, <3>2 DEF next, Scans
  <2>2. scan' = [scan EXCEPT ![t] = s] /\ UNCHANGED <<node, active, run, work, preview, prescan, call>>
        /\ scan[t].at = "scanning"
    BY <1>4 DEF ScanBatch
  <2>3. "scanning" \in RowStatus \ {"completed"}
    BY OpenRows DEF Open
  <2>4. row' = row \/ SetRow(t, "scanning")
    BY <1>4 DEF ScanBatch, Progress, SetRow
  <2> HIDE DEF s
  <2>5. WebInv'
    BY <2>1, <2>2, ScanGoes
  <2>6. RunTypes' /\ RunInv'
    BY <1>0, <2>2, <2>3, <2>4, OnlyRow
  <2> QED
    BY <2>5, <2>6
<1>5. CASE ScanDone(t)
  <2>1. PICK s \in Scans : s.at = "over" /\ scan' = [scan EXCEPT ![t] = s]
    BY <1>5, ScanOverGoes DEF ScanDone
  <2>2. UNCHANGED <<node, active, run, work, call>> /\ scan[t].at = "scanning"
        /\ SetRow(t, "waiting")
    BY <1>5 DEF ScanDone
  <2>3. preview' = preview \/ preview' = preview \union {t}
    BY <1>5 DEF ScanDone
  <2>4. prescan' = prescan \/ \E e \in Entries : prescan' = [prescan EXCEPT ![t] = e]
    <3> DEFINE packages == Found(scan[t].batch)
               e == [NoPrescan EXCEPT !.on = TRUE, !.packages = packages]
    <3>1. packages \subseteq Packages
      BY DEF Found
    <3> HIDE DEF packages
    <3>2. e \in Entries
      BY <3>1 DEF NoPrescan, Entries
    <3>3. prescan' = prescan \/ prescan' = [prescan EXCEPT ![t] = e]
      BY <1>5 DEF ScanDone, packages
    <3> QED
      BY <3>2, <3>3
  <2>5. WebInv'
    BY <2>1, <2>2, <2>3, <2>4, ScanGoes
  <2>6. RunTypes' /\ RunInv'
    <3>1. "waiting" \in RowStatus \ {"completed"}
      BY OpenRows DEF Open
    <3> QED
      BY <1>0, <2>2, <3>1, OnlyRow
  <2> QED
    BY <2>5, <2>6
<1> QED
  BY <1>1, <1>2, <1>3, <1>4, <1>5 DEF ScanStep

-----------------------------------------------------------------------------
(* The requests.                                                           *)

LEMMA SubmitKeeps ==
  ASSUME IInv, NEW kind \in Kinds, Submit(kind), RunFrame
  PROVE  IInv'
<1> DEFINE t == FreshTask
           s == IF up THEN [NoScan EXCEPT !.kind = kind, !.at = "accepted"]
                ELSE [scan[t] EXCEPT !.at = "over"]
<1>1. t \in WebIds /\ scan[t].at = "none" /\ scan[t] \in Scans
  BY FreshTaskIsFresh DEF Submit, IInv, WebInv, WebTypes
<1>2. s \in Scans
  BY <1>1 DEF Scans, NoScan
<1>3. scan' = [scan EXCEPT ![t] = s] /\ UNCHANGED <<runVars, preview, prescan, call>>
  BY DEF Submit, Accept
<1> HIDE DEF s, t
<1>4. WebInv'
  BY <1>1, <1>2, <1>3, ScanGoes DEF IInv, runVars
<1>5. RunTypes' /\ RunInv'
  BY <1>3, RunStill DEF IInv, RunFrame
<1> QED
  BY <1>4, <1>5 DEF IInv

LEMMA FreeCallerType == Callers # {} => FreeCaller \in Callers
<1> SUFFICES ASSUME Callers # {} PROVE FreeCaller \in Callers
  OBVIOUS
<1>1. \E c \in Callers : Idle(c) \/ \A d \in Callers : ~Idle(d)
  OBVIOUS
<1> QED
  BY <1>1 DEF FreeCaller

LEMMA SubmitPrescanKeeps ==
  ASSUME IInv, NEW c \in Callers, SubmitPrescan(c), RunFrame
  PROVE  IInv'
<1> DEFINE t == FreshTask
<1>1. t \in WebIds /\ scan[t].at = "none" /\ scan[t] \in Scans
  BY FreshTaskIsFresh DEF SubmitPrescan, IInv, WebInv, WebTypes
<1>2. UNCHANGED <<runVars, preview, prescan>>
  BY DEF SubmitPrescan
<1>3. RunTypes' /\ RunInv'
  BY <1>2, RunStill DEF IInv, RunFrame
<1>4. CASE SlotFree(t)
  <2>1. /\ call' = [call EXCEPT ![c] = [NoCall EXCEPT !.op = "submit", !.task = t]]
        /\ scan' = [scan EXCEPT ![t].at = "probing"]
    BY <1>4 DEF SubmitPrescan
  <2>2. [scan[t] EXCEPT !.at = "probing"] \in Scans
    BY <1>1 DEF Scans
  <2>3. [NoCall EXCEPT !.op = "submit", !.task = t] \in Calls
    BY <1>1, TaskIds DEF NoCall, Calls
  <2>4. WebTypes'
    BY <1>2, <2>1, <2>2, <2>3 DEF IInv, WebInv, WebTypes
  <2>5. /\ \A u \in WebIds \ {t} : scan'[u] = scan[u]
        /\ scan'[t].at = "probing"
        /\ \A d \in Callers \ {c} : call'[d] = call[d]
        /\ call'[c].op = "submit" /\ call'[c].task = t
    BY <1>1, <2>1 DEF IInv, WebInv, WebTypes, Scans, NoCall
  <2>6. \A u \in WebIds : Offers(u)' => Offers(u)
    BY <1>2, <2>5 DEF Offers, runVars
  <2>7. ~Offers(t) /\ \A d \in Callers : call[d].op = "submit" => call[d].task # t
    BY <1>1 DEF IInv, WebInv, ScannedFirst
  <2>8. ScannedFirst'
    BY <2>5, <2>6, <2>7, <1>1 DEF IInv, WebInv, ScannedFirst
  <2> QED
    BY <1>3, <2>4, <2>8 DEF IInv, WebInv
<1>5. CASE ~SlotFree(t)
  <2> DEFINE s == [scan[t] EXCEPT !.at = "over"]
  <2>1. s \in Scans
    BY <1>1 DEF Scans
  <2>2. scan' = [scan EXCEPT ![t] = s] /\ UNCHANGED call
    BY <1>5 DEF SubmitPrescan
  <2> HIDE DEF s, t
  <2> QED
    BY <1>1, <1>2, <1>3, <2>1, <2>2, ScanGoes DEF IInv, runVars
<1> QED
  BY <1>4, <1>5

LEMMA HandPrescanKeeps ==
  ASSUME IInv, NEW c \in Callers, HandPrescan(c), RunFrame
  PROVE  IInv'
<1> DEFINE t == call[c].task
           s == IF up THEN [NoScan EXCEPT !.kind = "prescan", !.at = "accepted"]
                ELSE [scan[t] EXCEPT !.at = "over"]
<1>1. /\ call[c].op = "submit" /\ t \in WebIds /\ scan[t].at = "probing" /\ scan[t] \in Scans
      /\ UNCHANGED <<runVars, preview, prescan>>
      /\ call' = [call EXCEPT ![c] = NoCall]
      /\ scan' = [scan EXCEPT ![t] = s]
  BY DEF HandPrescan, Accept, IInv, WebInv, WebTypes, ScannedFirst
<1>2. RunTypes' /\ RunInv'
  BY <1>1, RunStill DEF IInv, RunFrame
<1>3. s \in Scans
  BY <1>1 DEF Scans, NoScan, Kinds
<1> HIDE DEF s
<1>4. WebTypes'
  BY <1>1, <1>3, WebTables DEF IInv, WebInv, WebTypes
<1>5. /\ \A u \in WebIds \ {t} : scan'[u] = scan[u]
      /\ \A d \in Callers \ {c} : call'[d] = call[d]
      /\ call'[c].op = "none"
  BY <1>1, WebTables DEF IInv, WebInv, WebTypes
<1>6. \A u \in WebIds : Offers(u)' => Offers(u)
  BY <1>1, <1>5 DEF Offers, runVars
<1>7. ~Offers(t) /\ \A d \in Callers \ {c} : call[d].op = "submit" => call[d].task # t
  BY <1>1 DEF IInv, WebInv, ScannedFirst
<1>8. ScannedFirst'
  <2>1. \A u \in WebIds : Offers(u)' => scan'[u].at = "over"
    BY <1>5, <1>6, <1>7 DEF IInv, WebInv, ScannedFirst
  <2>2. \A d \in Callers : /\ call'[d].op \in {"confirm", "stop", "submit"} => call'[d].task \in WebIds
                           /\ call'[d].op = "submit" => scan'[call'[d].task].at = "probing"
    BY <1>5, <1>7 DEF IInv, WebInv, ScannedFirst
  <2>3. \A d, e \in Callers : call'[d].op = "submit" /\ call'[e].op = "submit"
                              /\ call'[d].task = call'[e].task => d = e
    BY <1>5 DEF IInv, WebInv, ScannedFirst
  <2> QED
    BY <2>1, <2>2, <2>3 DEF ScannedFirst
<1> QED
  BY <1>2, <1>4, <1>8 DEF IInv, WebInv

LEMMA ConfirmKeeps ==
  ASSUME IInv, NEW c \in Callers, NEW t \in WebIds, Confirm(c, t), RunFrame
  PROVE  IInv'
<1> DEFINE entry == Pruned(prescan)[t]
           got == IF entry.on THEN "prescan"
                  ELSE IF t \in preview THEN scan[t].kind ELSE "nothing"
           offered == IF entry.on THEN entry.packages ELSE {LinkPackage}
           sel == IF entry.on THEN entry.selected ELSE {LinkPackage}
           new == [op |-> "confirm", task |-> t, got |-> got, offered |-> offered, sel |-> sel]
<1>1. /\ prescan' = Pruned(prescan) /\ preview' = preview \ {t}
      /\ call' = [call EXCEPT ![c] = new]
      /\ UNCHANGED <<runVars, scan>>
  BY DEF Confirm
<1>2. RunTypes' /\ RunInv'
  BY <1>1, RunStill DEF IInv, RunFrame
<1>3. /\ Pruned(prescan) \in [WebIds -> Entries]
      /\ \A u \in WebIds : Pruned(prescan)[u].on => prescan[u].on
  BY WebTables DEF Pruned, IInv, WebInv, WebTypes
<1>4. entry \in Entries /\ (entry.on => prescan[t].on)
  BY <1>3
<1>5. got \in {"none", "nothing"} \union Kinds /\ (got # "nothing" => Offers(t))
  BY <1>4 DEF IInv, WebInv, WebTypes, Scans, Kinds, Offers
<1>6. offered \subseteq Packages /\ sel \subseteq Packages
  BY <1>4, WebAssumption DEF Entries
<1>7. new \in Calls
  <2> HIDE DEF got, offered, sel
  <2> QED
    BY <1>5, <1>6, TaskIds DEF Calls
<1>8. new.op = "confirm" /\ new.task = t /\ new.got = got
  OBVIOUS
<1> HIDE DEF new, got
<1>9. /\ \A d \in Callers \ {c} : call'[d] = call[d]
      /\ call'[c] = new /\ call' \in [Callers -> Calls]
  BY <1>1, <1>7 DEF IInv, WebInv, WebTypes
<1>10. \A u \in WebIds : Offers(u)' => Offers(u)
  <2> SUFFICES ASSUME NEW u \in WebIds, Offers(u)' PROVE Offers(u)
    OBVIOUS
  <2>1. CASE u \in preview' \/ prescan'[u].on \/ \E r \in Runs : run'[r].task = u
    BY <2>1, <1>1, <1>3 DEF Offers, runVars
  <2>2. CASE \E d \in Callers : call'[d].op = "confirm" /\ call'[d].task = u /\ call'[d].got # "nothing"
    BY <2>2, <1>5, <1>8, <1>9 DEF Offers
  <2> QED
    BY <2>1, <2>2 DEF Offers
<1>11. WebInv'
  BY <1>1, <1>3, <1>8, <1>9, <1>10, NoNewOffers DEF IInv, WebInv, WebTypes
<1> QED
  BY <1>2, <1>11 DEF IInv

(* A thread goes on with its request, or ends it.                          *)
LEMMA CallEnds ==
  ASSUME IInv, NEW c \in Callers, call' = [call EXCEPT ![c] = NoCall]
  PROVE  /\ call' \in [Callers -> Calls]
         /\ \A d \in Callers : call'[d] = call[d] \/ call'[d].op = "none"
BY WebTables DEF IInv, WebInv, WebTypes

LEMMA ConfirmEndsKeeps ==
  ASSUME IInv, NEW c \in Callers, ConfirmReads(c) \/ ConfirmNothing(c), RunFrame
  PROVE  IInv'
<1>1. UNCHANGED <<runVars, scan, preview, prescan>>
  BY DEF ConfirmReads, ConfirmNothing
<1>2. PICK new \in {NoCall, [call[c] EXCEPT !.op = "interrupt"]} : call' = [call EXCEPT ![c] = new]
  BY DEF ConfirmReads, ConfirmNothing
<1>3. new \in Calls /\ new.op \notin {"confirm", "stop", "submit"}
  <2>1. call[c] \in Calls
    BY DEF IInv, WebInv, WebTypes
  <2> QED
    BY <2>1, <1>2, WebTables DEF Calls
<1>4. call' \in [Callers -> Calls]
      /\ \A d \in Callers : call'[d] = call[d] \/ call'[d].op \notin {"confirm", "stop", "submit"}
  BY <1>2, <1>3 DEF IInv, WebInv, WebTypes
<1>5. WebInv'
  BY <1>1, <1>4, FewerOffers DEF IInv, WebInv, WebTypes, runVars
<1>6. RunTypes' /\ RunInv'
  BY <1>1, RunStill DEF IInv, RunFrame
<1> QED
  BY <1>5, <1>6 DEF IInv

LEMMA ConfirmInterruptsKeeps ==
  ASSUME IInv, NEW c \in Callers, ConfirmInterrupts(c), RunFrame
  PROVE  IInv'
<1> DEFINE t == call[c].task
<1>1. UNCHANGED <<node, active, run, work, scan, preview, prescan>>
      /\ call' = [call EXCEPT ![c] = NoCall] /\ call[c].op = "interrupt"
  BY DEF ConfirmInterrupts
<1>2. row' = row \/ SetRow(t, "interrupted")
  BY DEF ConfirmInterrupts, SetRow
<1>3. WebInv'
  BY <1>1, CallEnds, FewerOffers DEF IInv, WebInv, WebTypes
<1>4. RunTypes' /\ RunInv'
  <2>1. CASE t \in Tasks
    <3>1. "interrupted" \in RowStatus \ {"completed"}
      BY OpenRows DEF Open
    <3> QED
      BY <2>1, <3>1, <1>1, <1>2, OnlyRow DEF IInv, RunFrame
  <2>2. CASE t \notin Tasks
    <3>1. row' = row \/ row' = [row EXCEPT ![t] = Updated(t, "interrupted")]
      BY <1>2 DEF SetRow
    <3>2. row' = row
      BY <3>1, <2>2 DEF IInv, RunTypes
    <3> QED
      BY <3>2, <1>1, RunStill DEF IInv, RunFrame, runVars
  <2> QED
    BY <2>1, <2>2
<1> QED
  BY <1>3, <1>4 DEF IInv

LEMMA ConfirmedKeeps ==
  ASSUME IInv, NEW t \in WebIds, NEW yes \in BOOLEAN
  PROVE  /\ Confirmed(t, yes) \in [WebIds -> Entries]
         /\ \A u \in WebIds : Confirmed(t, yes)[u].on = prescan[u].on
<1>1. prescan \in [WebIds -> Entries]
  BY DEF IInv, WebInv, WebTypes
<1> DEFINE b == IF prescan[t].on THEN yes ELSE prescan[t].confirmed
           e == [prescan[t] EXCEPT !.confirmed = b]
<1>2. b \in BOOLEAN
  BY <1>1 DEF Entries
<1> HIDE DEF b
<1>3. e \in Entries /\ e.on = prescan[t].on
  BY <1>1, <1>2 DEF Entries
<1>4. Confirmed(t, yes) = [prescan EXCEPT ![t] = e]
  BY DEF Confirmed, b
<1> QED
  BY <1>1, <1>3, <1>4

LEMMA ConfirmStartsKeeps ==
  ASSUME IInv, NEW c \in Callers, ConfirmStarts(c), RunFrame
  PROVE  IInv'
<1> DEFINE t == call[c].task
<1>1. /\ call[c].op = "confirm" /\ call[c].got # "nothing"
      /\ \E r \in Runs : run[r].at = "free"
      /\ run' = [run EXCEPT ![FreeRun] =
                   Scheduled(t, call[c].got, call[c].offered, call[c].sel)]
      /\ prescan' = IF call[c].got = "prescan" THEN Confirmed(t, TRUE) ELSE prescan
      /\ call' = [call EXCEPT ![c] = NoCall]
      /\ UNCHANGED <<row, node, active, work, scan, preview>>
  BY DEF ConfirmStarts
<1>2. t \in WebIds /\ t \in Tasks /\ t \notin BotIds /\ Offers(t)
  BY <1>1, TaskIds DEF IInv, WebInv, ScannedFirst, Offers
<1>3. FreeRun \in Runs /\ run[FreeRun].at = "free"
  BY <1>1, FreeRunIsFree
<1>4. /\ DOMAIN run' = Runs
      /\ \A q \in Runs : DOMAIN run'[q] = RunFields /\ run'[q].at \in Steps
      /\ RunInv'
  BY <1>1, <1>2, <1>3, NewRun DEF IInv, RunFrame
<1>5. RunTypes'
  BY <1>1, <1>4 DEF IInv, RunTypes, RunFrame
<1>6. /\ prescan' \in [WebIds -> Entries] /\ preview' \subseteq WebIds
      /\ \A u \in WebIds : prescan'[u].on = prescan[u].on
  BY <1>1, <1>2, ConfirmedKeeps DEF IInv, WebInv, WebTypes
<1>7. call' \in [Callers -> Calls]
      /\ \A d \in Callers : call'[d] = call[d] \/ call'[d].op = "none"
  BY <1>1, CallEnds
<1>8. \A r \in Runs : run'[r].task = run[r].task \/ run'[r].task = t
  BY <1>1, <1>3 DEF IInv, RunTypes, Scheduled, NoRun
<1>9. \A u \in WebIds : Offers(u)' => Offers(u)
  <2> SUFFICES ASSUME NEW u \in WebIds, Offers(u)', u # t PROVE Offers(u)
    BY <1>2
  <2> QED
    BY <1>1, <1>6, <1>7, <1>8 DEF Offers
<1>10. WebInv'
  BY <1>1, <1>6, <1>7, <1>9, NoNewOffers DEF IInv
<1> QED
  BY <1>4, <1>5, <1>10 DEF IInv

LEMMA ConfirmRefusedKeeps ==
  ASSUME IInv, NEW c \in Callers, ConfirmRefused(c), RunFrame
  PROVE  IInv'
<1> DEFINE t == call[c].task
<1>1. /\ call[c].op = "confirm" /\ call[c].got # "nothing"
      /\ prescan' = Confirmed(t, FALSE) \/ prescan' = prescan
      /\ preview' = preview \/ preview' = preview \union {t}
      /\ call' = [call EXCEPT ![c] = NoCall]
      /\ UNCHANGED <<runVars, scan>>
  BY DEF ConfirmRefused
<1>2. t \in WebIds /\ Offers(t)
  BY <1>1 DEF IInv, WebInv, ScannedFirst, Offers
<1>3. /\ prescan' \in [WebIds -> Entries] /\ preview' \subseteq WebIds
      /\ \A u \in WebIds : prescan'[u].on = prescan[u].on
  <2>1. preview' \subseteq WebIds
    BY <1>1, <1>2 DEF IInv, WebInv, WebTypes
  <2>2. FALSE \in BOOLEAN
    OBVIOUS
  <2>3. CASE prescan' = Confirmed(t, FALSE)
    BY <1>2, <2>1, <2>2, <2>3, ConfirmedKeeps
  <2>4. CASE prescan' = prescan
    BY <2>1, <2>4 DEF IInv, WebInv, WebTypes
  <2> QED
    BY <1>1, <2>3, <2>4
<1>4. call' \in [Callers -> Calls]
      /\ \A d \in Callers : call'[d] = call[d] \/ call'[d].op = "none"
  BY <1>1, CallEnds
<1>5. \A u \in WebIds : Offers(u)' => Offers(u)
  <2> SUFFICES ASSUME NEW u \in WebIds, Offers(u)', u # t PROVE Offers(u)
    BY <1>2
  <2> QED
    BY <1>1, <1>3, <1>4 DEF Offers, runVars
<1>6. WebInv'
  BY <1>1, <1>3, <1>4, <1>5, NoNewOffers DEF IInv
<1>7. RunTypes' /\ RunInv'
  BY <1>1, RunStill DEF IInv, RunFrame
<1> QED
  BY <1>6, <1>7 DEF IInv

LEMMA CancelKeeps ==
  ASSUME IInv, NEW c \in Callers, NEW t \in Tasks, Cancel(c, t), RunFrame
  PROVE  IInv'
<1> DEFINE new == [NoCall EXCEPT !.op = IF HasNode(t) THEN "stop" ELSE "remove", !.task = t]
<1>1. UNCHANGED <<runVars, scan, preview, prescan>> /\ call' = [call EXCEPT ![c] = new]
  BY DEF Cancel
<1>2. new \in Calls /\ new.op \in {"stop", "remove"} /\ (new.op = "stop" => new.task \in WebIds)
  BY DEF NoCall, Calls, HasNode
<1> HIDE DEF new
<1>3. call' \in [Callers -> Calls]
      /\ \A d \in Callers : call'[d] = call[d] \/
           (call'[d].op \in {"stop", "remove"} /\ (call'[d].op = "stop" => call'[d].task \in WebIds))
  BY <1>1, <1>2 DEF IInv, WebInv, WebTypes
<1>4. \A u \in WebIds : Offers(u)' => Offers(u)
  BY <1>1, <1>3 DEF Offers, runVars
<1>5. WebInv'
  BY <1>1, <1>3, <1>4, NoNewOffers DEF IInv, WebInv, WebTypes
<1>6. RunTypes' /\ RunInv'
  BY <1>1, RunStill DEF IInv, RunFrame
<1> QED
  BY <1>5, <1>6 DEF IInv

LEMMA CancelRemovesKeeps ==
  ASSUME IInv, NEW c \in Callers, CancelRemoves(c), RunFrame
  PROVE  IInv'
<1> DEFINE t == call[c].task
<1>1. /\ UNCHANGED <<node, active, run, work, scan, preview, prescan>>
      /\ call' = [call EXCEPT ![c] = NoCall]
      /\ row' = row \/ row' = [row EXCEPT ![t] = "none"]
  BY DEF CancelRemoves
<1>2. WebInv'
  BY <1>1, CallEnds, FewerOffers DEF IInv, WebInv, WebTypes
<1>3. RunTypes' /\ RunInv'
  <2>1. CASE t \in Tasks
    <3>1. "none" \in RowStatus \ {"completed"}
      BY OpenRows DEF Open
    <3> QED
      BY <2>1, <3>1, <1>1, OnlyRow DEF IInv, RunFrame
  <2>2. CASE t \notin Tasks
    <3>1. row' = row
      BY <1>1, <2>2 DEF IInv, RunTypes
    <3> QED
      BY <3>1, <1>1, RunStill DEF IInv, RunFrame, runVars
  <2> QED
    BY <2>1, <2>2
<1> QED
  BY <1>2, <1>3 DEF IInv

LEMMA CancelOwnedKeeps ==
  ASSUME IInv, NEW c \in Callers, CancelOwned(c), RunFrame
  PROVE  IInv'
<1> DEFINE t == call[c].task
           status == IF row[t] \in {"downloading", "scanning"} THEN "cancelled" ELSE "none"
<1>1. /\ node' = [node EXCEPT ![t].stop = TRUE] /\ call[c].op = "stop"
      /\ preview' = preview \ {t} /\ prescan' = [prescan EXCEPT ![t] = NoPrescan]
      /\ call' = [call EXCEPT ![c] = NoCall]
      /\ row' = [row EXCEPT ![t] = status]
      /\ UNCHANGED <<active, run, work, scan>>
  BY DEF CancelOwned
<1>2. t \in WebIds /\ t \in Tasks
  BY <1>1, TaskIds DEF IInv, WebInv, ScannedFirst
<1>3. WebInv'
  BY <1>1, <1>2, CallEnds, FewerOffers, WebTables DEF IInv, WebInv, WebTypes
<1>4. status \in RowStatus \ {"completed"}
  BY OpenRows DEF Open
<1> HIDE DEF status
<1>5. /\ row' \in [Tasks -> RowStatus]
      /\ \A u \in Tasks : row'[u] = "completed" => row[u] = "completed"
  BY <1>1, <1>2, <1>4 DEF IInv, RunTypes
<1>6. [node[t] EXCEPT !.stop = TRUE] \in Nodes
  BY <1>2, NodeTypes DEF IInv, RunTypes
<1>7. /\ node' \in [Tasks -> Nodes]
      /\ \A u \in Tasks : /\ node'[u].batch = node[u].batch /\ node'[u].total = node[u].total
                          /\ node[u].stop => node'[u].stop
  BY <1>1, <1>2, <1>6 DEF IInv, RunTypes, Nodes
<1>8. RunTypes'
  BY <1>1, <1>5, <1>7 DEF IInv, RunTypes, RunFrame
<1>9. \A r \in Runs : WorkOf(r)' = WorkOf(r)
  BY <1>1 DEF WorkOf
<1>10. RunInv'
  BY <1>1, <1>5, <1>7, <1>9, Quiet DEF IInv, RunFrame
<1> QED
  BY <1>3, <1>8, <1>10 DEF IInv

LEMMA CallStepKeeps ==
  ASSUME IInv, NEW c \in Callers, CallStep(c), RunFrame
  PROVE  IInv'
BY HandPrescanKeeps, ConfirmEndsKeeps, ConfirmInterruptsKeeps, ConfirmStartsKeeps,
   ConfirmRefusedKeeps, CancelRemovesKeeps, CancelOwnedKeeps DEF CallStep

(* Clearing rows and selecting packages.                                   *)
LEMMA RowsCleared ==
  ASSUME RunTypes, RunInv, UNCHANGED <<node, active, run, work, taskId, taskNode>>,
         row' \in [Tasks -> RowStatus],
         \A u \in Tasks : row'[u] = row[u] \/ row'[u] = "none"
  PROVE  RunTypes' /\ RunInv'
<1>1. RunTypes'
  BY DEF RunTypes
<1>2. \A r \in Runs : WorkOf(r)' = WorkOf(r)
  BY DEF WorkOf
<1>3. RunInv'
  BY <1>2, Quiet
<1> QED
  BY <1>1, <1>3

LEMMA ClearKeeps ==
  ASSUME IInv, (\E t \in Tasks : Clear(t)) \/ ClearCompleted, RunFrame
  PROVE  IInv'
<1>1. UNCHANGED <<node, active, run, work, scan, preview, call>>
  BY DEF Clear, ClearCompleted
<1>2. /\ row' \in [Tasks -> RowStatus]
      /\ \A u \in Tasks : row'[u] = row[u] \/ row'[u] = "none"
  <2>1. "none" \in RowStatus
    BY OpenRows DEF Open
  <2>2. CASE ClearCompleted
    BY <2>1, <2>2 DEF ClearCompleted, IInv, RunTypes
  <2>3. ASSUME NEW t \in Tasks, Clear(t)
        PROVE  <1>2!1 /\ <1>2!2
    BY <2>1, <2>3 DEF Clear, IInv, RunTypes
  <2> QED
    BY <2>2, <2>3
<1>3. /\ prescan' \in [WebIds -> Entries]
      /\ \A u \in WebIds : prescan'[u].on => prescan[u].on
  <2>1. CASE ClearCompleted
    BY <2>1, WebTables DEF ClearCompleted, IInv, WebInv, WebTypes
  <2>2. ASSUME NEW t \in Tasks, Clear(t)
        PROVE  <1>3!1 /\ <1>3!2
    BY <2>2, WebTables DEF Clear, IInv, WebInv, WebTypes
  <2> QED
    BY <2>1, <2>2
<1>4. WebInv'
  BY <1>1, <1>3, FewerOffers DEF IInv, WebInv, WebTypes
<1>5. RunTypes' /\ RunInv'
  BY <1>1, <1>2, RowsCleared DEF IInv, RunFrame
<1> QED
  BY <1>4, <1>5 DEF IInv

LEMMA SelectKeeps ==
  ASSUME IInv, NEW t \in WebIds, RunFrame,
         SelectAll(t) \/ DeleteSelected(t) \/ \E p \in Packages : Select(t, p)
  PROVE  IInv'
<1> DEFINE e == prescan[t]
<1>1. UNCHANGED <<runVars, scan, preview, call>>
  BY DEF SelectAll, DeleteSelected, Select
<1>2. e \in Entries /\ prescan \in [WebIds -> Entries]
  BY DEF IInv, WebInv, WebTypes
<1>3. \E packages, selected \in SUBSET Packages :
        prescan' = [prescan EXCEPT ![t] = [e EXCEPT !.packages = packages, !.selected = selected]]
  <2>1. e.packages \subseteq Packages /\ e.selected \subseteq Packages
    BY <1>2 DEF Entries
  <2>2. ASSUME NEW selected \in SUBSET Packages,
               prescan' = [prescan EXCEPT ![t].selected = selected]
        PROVE  <1>3
    <3>1. [e EXCEPT !.selected = selected] = [e EXCEPT !.packages = e.packages, !.selected = selected]
      BY <1>2 DEF Entries
    <3> QED
      BY <2>1, <2>2, <3>1
  <2>3. CASE DeleteSelected(t)
    <3>1. prescan' = [prescan EXCEPT ![t] = [e EXCEPT !.packages = e.packages \ e.selected,
                                                      !.selected = {}]]
      BY <2>3 DEF DeleteSelected
    <3> QED
      BY <2>1, <3>1
  <2>4. CASE SelectAll(t)
    BY <2>1, <2>2, <2>4 DEF SelectAll
  <2>5. ASSUME NEW p \in Packages, Select(t, p)
        PROVE  <1>3
    <3>1. \/ prescan' = [prescan EXCEPT ![t].selected = e.selected \union {p}]
          \/ prescan' = [prescan EXCEPT ![t].selected = e.selected \ {p}]
      BY <2>5 DEF Select
    <3>2. e.selected \union {p} \in SUBSET Packages /\ e.selected \ {p} \in SUBSET Packages
      BY <2>1
    <3> QED
      BY <2>2, <3>1, <3>2
  <2> QED
    BY <2>3, <2>4, <2>5
<1>4. PICK packages, selected \in SUBSET Packages :
        prescan' = [prescan EXCEPT ![t] = [e EXCEPT !.packages = packages, !.selected = selected]]
  BY <1>3
<1>5. LET new == [e EXCEPT !.packages = packages, !.selected = selected]
      IN new \in Entries /\ new.on = e.on
  BY <1>2 DEF Entries
<1>6. /\ prescan' \in [WebIds -> Entries]
      /\ \A u \in WebIds : prescan'[u].on = prescan[u].on
  BY <1>2, <1>4, <1>5
<1>7. WebInv'
  BY <1>1, <1>6, FewerOffers DEF IInv, WebInv, WebTypes, runVars
<1>8. RunTypes' /\ RunInv'
  BY <1>1, RunStill DEF IInv, RunFrame
<1> QED
  BY <1>7, <1>8 DEF IInv

LEMMA WebRequestKeeps ==
  ASSUME IInv, WebRequest, RunFrame
  PROVE  IInv'
<1>1. CASE \E kind \in Kinds \ {"prescan"} : Submit(kind)
  BY <1>1, SubmitKeeps
<1>2. ASSUME SubmitPrescan(FreeCaller) \/ (\E t \in WebIds : Confirm(FreeCaller, t))
               \/ \E t \in Tasks : Cancel(FreeCaller, t)
      PROVE  IInv'
  <2>1. FreeCaller \in Callers
    BY FreeCallerType, WebAssumption
  <2> QED
    BY <1>2, <2>1, SubmitPrescanKeeps, ConfirmKeeps, CancelKeeps
<1>3. CASE (\E t \in Tasks : Clear(t)) \/ ClearCompleted
  BY <1>3, ClearKeeps
<1>4. CASE \E t \in WebIds : SelectAll(t) \/ DeleteSelected(t) \/ \E p \in Packages : Select(t, p)
  BY <1>4, SelectKeeps
<1> QED
  BY <1>1, <1>2, <1>3, <1>4 DEF WebRequest

-----------------------------------------------------------------------------
(* The runs, with the tables of the Web console as they are.               *)
LEMMA RunTasks ==
  ASSUME IInv, NEW r \in Runs, RunStep(r)
  PROVE  \A q \in Runs : run'[q].task = run[q].task
<1>1. DOMAIN run = Runs /\ DOMAIN run[r] = RunFields
  BY DEF IInv, RunTypes
<1>2. CASE BeginRun(r)
  BY <1>1, <1>2 DEF BeginRun, RunFields
<1>3. CASE BeginPackage(r)
  BY <1>1, <1>3 DEF BeginPackage, RunFields
<1>4. CASE EndPackages(r)
  BY <1>1, <1>4 DEF EndPackages, RunFields
<1>5. CASE CloseRun(r)
  BY <1>1, <1>5 DEF CloseRun, RunFields
<1>6. CASE FetchComments(r)
  BY <1>1, <1>6 DEF FetchComments, RunFields
<1>7. CASE Enqueue(r)
  BY <1>1, <1>7 DEF Enqueue, RunFields
<1>8. CASE EndWait(r)
  BY <1>1, <1>8 DEF EndWait, RunFields
<1>9. CASE Join(r)
  BY <1>1, <1>9 DEF Join, RunFields
<1> QED
  BY <1>2, <1>3, <1>4, <1>5, <1>6, <1>7, <1>8, <1>9 DEF RunStep

LEMMA RunNextKeeps ==
  ASSUME IInv, RunNext
  PROVE  IInv'
<1>1. RunFrame /\ UNCHANGED <<scan, preview, prescan, call>>
  BY DEF RunNext, RunFrame, webVars, botVars
<1>2. PICK r \in Runs : RunStep(r) \/ FileStep(r)
  BY DEF RunNext
<1>3. CASE RunStep(r)
  <2>1. RunTypes' /\ RunInv'
    BY <1>1, <1>3, BeginRunKeeps, BeginPackageKeeps, EndPackagesKeeps, CloseRunKeeps,
       FetchCommentsKeeps, EnqueueKeeps, EndWaitKeeps, JoinKeeps DEF RunStep, IInv
  <2>2. \A q \in Runs : run'[q].task = run[q].task
    BY <1>3, RunTasks
  <2>3. WebInv'
    BY <1>1, <2>2, WebStill DEF IInv
  <2> QED
    BY <2>1, <2>3 DEF IInv
<1>4. CASE FileStep(r)
  <2>1. PICK f \in AllFiles : TakeFile(r, f) \/ EndFile(r, f)
    BY <1>4 DEF FileStep, AllFiles
  <2>2. RunTypes' /\ RunInv' /\ run' = run
    BY <1>1, <2>1, TakeFileKeeps, EndFileKeeps DEF IInv, TakeFile, EndFile
  <2>3. WebInv'
    BY <1>1, <2>2, WebStill DEF IInv
  <2> QED
    BY <2>2, <2>3 DEF IInv
<1> QED
  BY <1>2, <1>3, <1>4

-----------------------------------------------------------------------------
(* The bot.                                                                *)
LEMMA BotQuietKeeps ==
  ASSUME IInv, UNCHANGED <<runVars, webVars, taskId, taskNode>>
  PROVE  IInv'
<1>1. RunTypes' /\ RunInv'
  BY RunStill DEF IInv
<1>2. WebInv'
  BY WebStill DEF IInv, webVars, runVars
<1> QED
  BY <1>1, <1>2 DEF IInv

LEMMA StopTasksKeeps ==
  ASSUME IInv, NEW ts, StopTasks(ts), UNCHANGED <<scan, preview, prescan, call>>
  PROVE  IInv'
<1>1. /\ node' = [t \in Tasks |-> IF t \in ts THEN [node[t] EXCEPT !.stop = TRUE] ELSE node[t]]
      /\ UNCHANGED <<row, active, run, work, taskId, taskNode>>
  BY DEF StopTasks
<1>2. \A t \in Tasks : node[t] \in Nodes /\ [node[t] EXCEPT !.stop = TRUE] \in Nodes
  BY NodeTypes DEF IInv, RunTypes
<1>3. /\ node' \in [Tasks -> Nodes]
      /\ \A t \in Tasks : /\ node'[t].batch = node[t].batch /\ node'[t].total = node[t].total
                          /\ node[t].stop => node'[t].stop
  BY <1>1, <1>2 DEF Nodes
<1>4. RunTypes'
  BY <1>1, <1>3 DEF IInv, RunTypes
<1>5. \A r \in Runs : WorkOf(r)' = WorkOf(r)
  BY <1>1 DEF WorkOf
<1>6. RunInv'
  BY <1>1, <1>3, <1>5, Quiet DEF IInv
<1>7. WebInv'
  BY <1>1, WebStill DEF IInv
<1> QED
  BY <1>4, <1>6, <1>7 DEF IInv

LEMMA BotRequestKeeps ==
  ASSUME IInv, BotRequest, UNCHANGED <<scan, preview, prescan, call>>,
         UNCHANGED <<up, scanNode, slot>>
  PROVE  IInv'
<1>1. CASE StopTask \/ StopAll
  BY <1>1, StopTasksKeeps DEF StopTask, StopAll
<1>2. CASE ~(StopTask \/ StopAll)
  <2>1. UNCHANGED <<runVars, taskId, taskNode>>
    BY <1>2 DEF BotRequest, StartPrescanMode, Link, Toggle, TapCancel, Tap
  <2>2. RunTypes' /\ RunInv'
    BY <2>1, RunStill DEF IInv
  <2>3. WebInv'
    BY <2>1, WebStill DEF IInv, runVars
  <2> QED
    BY <2>2, <2>3 DEF IInv
<1> QED
  BY <1>1, <1>2

LEMMA BotStartKeeps ==
  ASSUME IInv, NEW h \in Taps, NEW t \in BotIds, BotStart(h, t), UNCHANGED webVars
  PROVE  IInv'
<1> DEFINE kind == IF tap[h].kind = "comment" THEN "comments" ELSE tap[h].kind
<1>1. /\ t > taskId /\ taskId' = t /\ node' = [node EXCEPT ![t] = NewNode(TRUE)]
      /\ \E r \in Runs : run[r].at = "free"
      /\ run' = [run EXCEPT ![FreeRun] = Scheduled(t, kind, Packages, tap[h].sel)]
      /\ taskNode' = taskNode \union {t} /\ active' = active \union {t}
      /\ row' = [row EXCEPT ![t] = "downloading"]
      /\ work' = work
  BY DEF BotStart, IsNextId, Unused
<1>2. t \in Tasks /\ t \notin WebIds
  BY TaskIds
<1>3. FreeRun \in Runs /\ run[FreeRun].at = "free"
  BY <1>1, FreeRunIsFree
<1>4. /\ \A u \in Tasks \ {t} : node'[u] = node[u] /\ row'[u] = row[u]
      /\ node'[t] = NewNode(TRUE) /\ row'[t] # "completed"
  BY <1>1, <1>2 DEF IInv, RunTypes
<1> HIDE DEF kind
<1>5. /\ DOMAIN run' = Runs
      /\ \A q \in Runs : DOMAIN run'[q] = RunFields /\ run'[q].at \in Steps
      /\ RunInv'
  BY <1>1, <1>2, <1>3, <1>4, NewRun DEF IInv
<1>6. NewNode(TRUE) \in Nodes /\ "downloading" \in RowStatus
  BY NodeTypes, OpenRows DEF Nodes, NewNode, Open
<1>7. RunTypes'
  BY <1>1, <1>2, <1>5, <1>6 DEF IInv, RunTypes
<1>8. \A q \in Runs : run'[q].task = run[q].task \/ run'[q].task = t
  BY <1>1, <1>3 DEF IInv, RunTypes, Scheduled, NoRun
<1>9. WebInv'
  BY <1>2, <1>8, WebStill DEF IInv, webVars
<1> QED
  BY <1>5, <1>7, <1>9 DEF IInv

(* The sweep forgets no batch that goes on.                                *)
LEMMA SweepKeeps ==
  ASSUME IInv, Sweep, UNCHANGED webVars
  PROVE  IInv'
<1>1. UNCHANGED runVars /\ taskId' = taskId /\ taskNode' \subseteq taskNode
  BY DEF Sweep
<1>2. \A t \in taskNode \ taskNode' : node[t].stop \/ (node[t].total > 0 /\ ~node[t].batch)
  BY DEF Sweep, IsFinish, AllCounted
<1>3. RunTypes'
  BY <1>1 DEF IInv, RunTypes, runVars
<1>4. /\ \A r \in Runs : Alive(r)' = Alive(r) /\ OnlyRun(r)' = OnlyRun(r) /\ WorkOf(r)' = WorkOf(r)
      /\ \A u \in Tasks : Begun(u)' = Begun(u)
  BY <1>1 DEF Alive, OnlyRun, RunsOf, Begun, WorkOf, runVars
<1>5. RunsConsistent' /\ BotNumbers' /\ BotBatches' /\ CountsBegun' /\ BatchConsistent'
  BY <1>1, <1>4 DEF IInv, RunInv, RunsConsistent, BotNumbers, BotBatches, CountsBegun,
                    BatchConsistent, runVars
<1>6. BotRunsAreStoppable'
  <2> SUFFICES ASSUME NEW r \in Runs, run[r].kind = "prescan", run[r].task \in BotIds, Alive(r),
                      run[r].at # "closing"
               PROVE  run[r].task \in taskNode' \/ node[run[r].task].stop
    BY <1>1, <1>4 DEF BotRunsAreStoppable, runVars
  <2>1. run[r].task \in taskNode \/ node[run[r].task].stop
    BY DEF IInv, RunInv, BotRunsAreStoppable
  <2>2. run[r].at \in InBatch \union {"accepted"}
    BY DEF IInv, RunTypes, RunInv, RunsConsistent, Alive, Steps
  <2>3. node[run[r].task].batch \/ node[run[r].task].total = 0
    BY <2>2 DEF IInv, RunInv, BotBatches
  <2> QED
    BY <2>1, <2>3, <1>2
<1>7. WebInv'
  BY <1>1, WebStill DEF IInv, webVars, runVars
<1> QED
  BY <1>3, <1>5, <1>6, <1>7 DEF IInv, RunInv

LEMMA ReportKeeps ==
  ASSUME IInv, NEW t \in BotIds, Report(t), UNCHANGED webVars
  PROVE  IInv'
<1>1. /\ t \in Tasks /\ RemoveActive(t) /\ node[t].total > 0 /\ ~node[t].batch
      /\ UNCHANGED <<node, run, work, taskId, taskNode>>
  BY TaskIds DEF Report, botVars
<1>2. /\ row' \in [Tasks -> RowStatus] /\ active' \subseteq Tasks
      /\ \A u \in Tasks \ {t} : row'[u] = row[u]
  BY <1>1, Removed DEF IInv
<1>3. RunTypes'
  BY <1>1, <1>2 DEF IInv, RunTypes
<1>4. \A r \in Runs : WorkOf(r)' = WorkOf(r)
  BY <1>1 DEF WorkOf
<1>5. RunInv'
  BY <1>1, <1>2, <1>4, Quiet DEF IInv
<1>6. WebInv'
  BY <1>1, WebStill DEF IInv, webVars
<1> QED
  BY <1>3, <1>5, <1>6 DEF IInv

LEMMA BotStepKeeps ==
  ASSUME IInv, BotStep, UNCHANGED webVars
  PROVE  IInv'
<1>1. CASE \E k \in Tokens : Previewed(k) \/ PreviewFails(k)
  BY <1>1, BotQuietKeeps DEF Previewed, PreviewFails
<1>2. CASE \E h \in Taps : TapFails(h)
  BY <1>2, BotQuietKeeps DEF TapFails
<1>3. CASE \E h \in Taps, t \in BotIds : BotStart(h, t)
  BY <1>3, BotStartKeeps
<1>4. CASE Sweep
  BY <1>4, SweepKeeps
<1>5. CASE \E t \in BotIds : Report(t)
  BY <1>5, ReportKeeps
<1> QED
  BY <1>1, <1>2, <1>3, <1>4, <1>5 DEF BotStep

-----------------------------------------------------------------------------
(* The process.                                                            *)
LEMMA RestartKeeps ==
  ASSUME IInv, Restart
  PROVE  IInv'
<1>1. /\ row' = [t \in Tasks |-> IF row[t] \in Terminal \union {"none"} THEN row[t]
                                 ELSE "interrupted"]
      /\ node' = [t \in Tasks |-> NewNode(FALSE)] /\ active' = {}
      /\ run' = [r \in Runs |-> IF run[r].at = "free" THEN NoRun
                                ELSE [run[r] EXCEPT !.at = "over", !.todo = {}]]
      /\ work' = [r \in Runs |-> [f \in DOMAIN work[r] |-> "none"]]
      /\ taskId' = 0 /\ taskNode' = {}
  BY DEF Restart
<1>2. \A r \in Runs : /\ run[r].at = "free" => run'[r] = NoRun
                      /\ run[r].at # "free" => /\ run'[r].at = "over" /\ run'[r].todo = {}
                                               /\ run'[r].task = run[r].task
                      /\ DOMAIN run'[r] = RunFields
                      /\ WorkOf(r)' = {}
  BY <1>1 DEF IInv, RunTypes, RunFields, NoRun, WorkOf
<1>3. RunTypes'
  <2>1. NewNode(FALSE) \in Nodes
    BY NodeTypes DEF Nodes, NewNode
  <2>2. node' \in [Tasks -> Nodes] /\ row' \in [Tasks -> RowStatus]
    BY <1>1, <2>1, OpenRows DEF IInv, RunTypes, Open
  <2>3. work' \in [Runs -> [AllFiles -> {"none", "queued", "busy"}]]
    BY <1>1 DEF IInv, RunTypes
  <2>4. DOMAIN run' = Runs /\ \A r \in Runs : run'[r].at \in Steps
    BY <1>1, <1>2 DEF Steps, NoRun
  <2> QED
    BY <1>1, <1>2, <2>2, <2>3, <2>4 DEF RunTypes
<1>4. RunsConsistent'
  BY <1>2 DEF IInv, RunInv, RunsConsistent, NoRun
<1>5. \A r \in Runs : ~Alive(r)' /\ run'[r].at \in {"free", "over"}
  BY <1>2 DEF Alive, NoRun
<1>6. BotNumbers' /\ BotBatches' /\ BotRunsAreStoppable'
  BY <1>5 DEF BotNumbers, BotBatches, BotRunsAreStoppable, InBatch
<1>7. CountsBegun'
  <2> SUFFICES ASSUME NEW t \in Tasks, row'[t] = "completed" \/ node'[t].total > 0
               PROVE  Begun(t)'
    BY DEF CountsBegun
  <2>1. Begun(t)
    <3>1. node'[t].total = 0
      BY <1>1 DEF NewNode
    <3>2. row'[t] = "completed"
      BY <3>1
    <3>3. row[t] = "completed"
      BY <1>1, <3>2
    <3> QED
      BY <3>3 DEF IInv, RunInv, CountsBegun
  <2> QED
    BY <2>1, <1>2 DEF Begun, RunsOf
<1>8. BatchConsistent'
  BY <1>2, <1>5 DEF BatchConsistent, InBatch, NoRun, OnlyRun
<1>9. WebInv'
  <2>1. /\ scan' = [t \in WebIds |-> IF scan[t].at = "none" THEN NoScan
                                     ELSE [scan[t] EXCEPT !.at = "over"]]
        /\ preview' = {} /\ prescan' = [t \in WebIds |-> NoPrescan]
        /\ call' = [c \in Callers |-> NoCall]
    BY DEF Restart
  <2>2. \A t \in WebIds : /\ scan'[t] \in Scans
                          /\ scan[t].at # "none" => scan'[t].at = "over"
    <3> SUFFICES ASSUME NEW t \in WebIds
                 PROVE  /\ scan'[t] \in Scans
                        /\ scan[t].at # "none" => scan'[t].at = "over"
      OBVIOUS
    <3>1. scan[t] \in Scans
      BY DEF IInv, WebInv, WebTypes
    <3>2. [scan[t] EXCEPT !.at = "over"] \in Scans /\ [scan[t] EXCEPT !.at = "over"].at = "over"
      BY <3>1 DEF Scans
    <3> QED
      BY <2>1, <3>2, WebTables
  <2>3. WebTypes'
    BY <2>1, <2>2, WebTables DEF WebTypes
  <2>4. \A t \in WebIds : Offers(t)' => scan'[t].at = "over"
    <3> SUFFICES ASSUME NEW t \in WebIds, Offers(t)' PROVE scan'[t].at = "over"
      OBVIOUS
    <3>1. PICK r \in Runs : run'[r].task = t
      BY <2>1, WebTables DEF Offers
    <3>2. run[r].task = t
      BY <3>1, <1>2, TaskIds DEF NoRun
    <3>3. scan[t].at = "over"
      BY <3>2 DEF IInv, WebInv, ScannedFirst, Offers
    <3> QED
      BY <3>3, <2>2
  <2>5. ScannedFirst'
    BY <2>1, <2>4, WebTables DEF ScannedFirst
  <2> QED
    BY <2>3, <2>5 DEF WebInv
<1> QED
  BY <1>3, <1>4, <1>6, <1>7, <1>8, <1>9 DEF IInv, RunInv

LEMMA StepIInv == IInv /\ [Next]_vars => IInv'
<1> SUFFICES ASSUME IInv, [Next]_vars PROVE IInv'
  OBVIOUS
<1>1. CASE LoopStep
  <2>1. CASE RunNext
    BY <2>1, RunNextKeeps
  <2>2. CASE (\E t \in WebIds : ScanStep(t)) /\ UNCHANGED botVars
    BY <2>2, ScanStepKeeps DEF botVars
  <2>3. CASE BotStep /\ UNCHANGED webVars
    BY <2>3, BotStepKeeps
  <2> QED
    BY <1>1, <2>1, <2>2, <2>3 DEF LoopStep
<1>2. CASE ThreadStep
  BY <1>2, CallStepKeeps DEF ThreadStep, RunFrame, botVars
<1>3. CASE UserStep
  <2>1. CASE WebRequest /\ UNCHANGED botVars
    BY <2>1, WebRequestKeeps DEF RunFrame, botVars
  <2>2. CASE BotRequest /\ UNCHANGED <<up, scan, scanNode, preview, prescan, slot, call>>
    BY <2>2, BotRequestKeeps
  <2> QED
    BY <1>3, <2>1, <2>2 DEF UserStep
<1>4. CASE LoopStops
  <2>1. UNCHANGED <<runVars, taskId, taskNode, scan, preview, prescan, call>>
    BY <1>4 DEF LoopStops, botVars
  <2>2. RunTypes' /\ RunInv'
    BY <2>1, RunStill DEF IInv
  <2>3. WebInv'
    BY <2>1, WebStill DEF IInv, runVars
  <2> QED
    BY <2>2, <2>3 DEF IInv
<1>5. CASE Restart
  BY <1>5, RestartKeeps
<1>6. CASE UNCHANGED vars
  BY <1>6, BotQuietKeeps DEF vars, botVars
<1> QED
  BY <1>1, <1>2, <1>3, <1>4, <1>5, <1>6 DEF Next

LEMMA InitIInv == Init => IInv
<1> SUFFICES ASSUME Init PROVE IInv
  OBVIOUS
<1>1. /\ row = [t \in Tasks |-> "none"] /\ node = [t \in Tasks |-> NewNode(FALSE)]
      /\ active = {} /\ run = [r \in Runs |-> NoRun]
      /\ work = [r \in Runs |-> [f \in AllFiles |-> "none"]]
      /\ taskId = 0 /\ taskNode = {}
  BY DEF Init, RunInit, BotInit, AllFiles
<1>2. /\ scan = [t \in WebIds |-> NoScan] /\ preview = {}
      /\ prescan = [t \in WebIds |-> NoPrescan] /\ call = [c \in Callers |-> NoCall]
  BY DEF Init, WebInit
<1>3. RunTypes
  <2>1. NewNode(FALSE) \in Nodes /\ "none" \in RowStatus
    BY NodeTypes, OpenRows DEF Nodes, NewNode, Open
  <2>2. NoRun.at \in Steps /\ DOMAIN NoRun = RunFields
    BY DEF NoRun, Steps, RunFields
  <2> QED
    BY <1>1, <2>1, <2>2 DEF RunTypes
<1>4. \A r \in Runs : run[r].at = "free" /\ run[r].task = 0 /\ run[r].todo = {}
                      /\ run[r].kind = "none" /\ WorkOf(r) = {}
  BY <1>1 DEF NoRun, WorkOf
<1>5. RunInv
  <2>1. RunsConsistent /\ BotNumbers /\ BotBatches /\ BotRunsAreStoppable /\ BatchConsistent
    BY <1>4 DEF RunsConsistent, BotNumbers, BotBatches, BotRunsAreStoppable, BatchConsistent,
                Alive, OnlyRun
  <2>2. CountsBegun
    BY <1>1 DEF CountsBegun, NewNode
  <2> QED
    BY <2>1, <2>2 DEF RunInv
<1>6. WebInv
  <2>1. WebTypes
    BY <1>2, WebTables DEF WebTypes
  <2>2. \A t \in WebIds : ~Offers(t)
    BY <1>2, <1>4, WebTables, TaskIds DEF Offers
  <2>3. ScannedFirst
    BY <1>2, <2>2, WebTables DEF ScannedFirst
  <2> QED
    BY <2>1, <2>3 DEF WebInv
<1> QED
  BY <1>3, <1>5, <1>6 DEF IInv

-----------------------------------------------------------------------------
(* For any numbers of Web and bot tasks, packages, files, threads and runs *)
(* the rows, nodes and coroutines of link tasks keep to one story, through *)
(* requests that race with them and restarts.                              *)
THEOREM LinksConsistent == Spec => []IInv
<1>1. Init => IInv
  BY InitIInv
<1>2. IInv /\ [Next]_vars => IInv'
  BY StepIInv
<1> QED
  BY <1>1, <1>2, PTL DEF Spec

(* /stop reaches every batch of the bot until it closes: the sweep of      *)
(* finished nodes (update_reply_message) never forgets one that is between *)
(* two packages, where all its files are counted.                          *)
THEOREM BatchesStoppable == Spec => []BotRunsAreStoppable
<1>1. IInv => BotRunsAreStoppable
  BY DEF IInv, RunInv
<1> QED
  BY <1>1, LinksConsistent, PTL

(* No snapshot, report or removal of a node completes the row of a batch   *)
(* before run_packages is through with its packages, or was stopped.       *)
THEOREM BatchesCompletedOver == Spec => []CompletedIsOver
<1>1. IInv => CompletedIsOver
  <2> SUFFICES ASSUME IInv, NEW r \in Runs, run[r].kind = "prescan", OnlyRun(r),
                      row[run[r].task] = "completed"
               PROVE  /\ run[r].at \in {"closing", "over"} /\ WorkOf(r) = {}
                      /\ run[r].todo = {} \/ node[run[r].task].stop
    BY DEF CompletedIsOver
  <2>1. run[r].task \in Tasks /\ run[r].at # "free"
    BY DEF IInv, RunInv, RunsConsistent, OnlyRun
  <2>2. run[r].at # "accepted"
    BY <2>1 DEF IInv, RunInv, CountsBegun, Begun, OnlyRun
  <2>3. run[r].at \notin InBatch
    BY DEF IInv, RunInv, BatchConsistent
  <2>4. run[r].at \in {"closing", "over"}
    BY <2>1, <2>2, <2>3 DEF IInv, RunTypes, RunInv, RunsConsistent, Steps
  <2> QED
    BY <2>4 DEF IInv, RunInv, BatchConsistent
<1> QED
  BY <1>1, LinksConsistent, PTL

-----------------------------------------------------------------------------
(* A confirmation that has taken what was offered of t.                    *)
Holds(c, t) == call[c].op = "confirm" /\ call[c].task = t /\ call[c].got # "nothing"

(* What a row that waits for its user, and is no prescan, is waiting with. *)
Pends(t) ==
  \/ t \in preview
  \/ \E c \in Callers : Holds(c, t)
  \/ \E r \in Runs : run[r].task = t /\ run[r].at = "accepted"

(* A row that is scanning has its coroutine, which a cancel can reach, and *)
(* a prescan holds the slot from the moment it has looked at it.           *)
ScanOwned(t) ==
  /\ row[t] = "scanning" => scan[t].at = "scanning" /\ t \in scanNode
  /\ scan[t].kind = "prescan" /\ scan[t].at \in {"resolving", "scanning"} => slot = {t}
  /\ scan[t].at \in {"accepted", "resolving", "scanning"} => scan[t].kind \in Kinds

(* What is offered and taken is of the kind that was scanned.              *)
OfferKept(t) ==
  /\ t \in preview => scan[t].kind \in {"package", "comment"}
  /\ prescan[t].on => scan[t].kind = "prescan"
  /\ \A c \in Callers : Holds(c, t) =>
       /\ call[c].got = scan[t].kind /\ call[c].got \in Kinds
       /\ call[c].got # "prescan" => call[c].offered = {LinkPackage} /\ call[c].sel = {LinkPackage}

(* A row that waits is not stopped, and a preview, a request or a run that *)
(* has not begun has it; the entry of a prescan stays until the row goes.  *)
WaitOwned(t) == row[t] = "waiting" =>
  /\ ~node[t].stop /\ scan[t].at = "over"
  /\ scan[t].kind = "prescan" => prescan[t].on
  /\ scan[t].kind # "prescan" => Pends(t)

WebOwned(t) == ScanOwned(t) /\ OfferKept(t) /\ WaitOwned(t)

(* The node of a task that was not confirmed yet.                          *)
FreshNode(t) == RunsOf(t) = {} => ~node[t].batch /\ node[t].counted = {}

(* A run is of the kind that was scanned; only batches are between two     *)
(* packages or close.                                                      *)
KindKept(r) ==
  /\ run[r].task \in WebIds => run[r].kind = scan[run[r].task].kind
  /\ run[r].kind = "comment" => run[r].task \in WebIds
  /\ run[r].kind # "prescan" => run[r].at \notin {"between", "closing"}

(* The files of a run of comments that it has put into the queue.          *)
Passed(r) == {f \in FilesOf(LinkPackage) : f[2] < run[r].next}

(* What it has counted is among them, and no longer under way: so with all *)
(* of them counted nothing is.                                             *)
CommentOwned(r) ==
  run[r].kind = "comment" /\ OnlyRun(r) =>
    /\ run[r].next \in Nat
    /\ run[r].at = "accepted" =>
         PackagesOf(r) = {LinkPackage} /\ node[run[r].task].counted = {}
    /\ run[r].at \notin {"accepted", "over"} => run[r].pkg = LinkPackage
    /\ WorkOf(r) \subseteq Passed(r)
    /\ node[run[r].task].counted \subseteq Passed(r) \ WorkOf(r)

(* The only run of a task closes its row when it ends, for as long as it   *)
(* goes on the row can be closed, and no file opens it again.              *)
RunOwned(r) ==
  LET t == run[r].task IN
  OnlyRun(r) /\ (t \in WebIds \/ run[r].kind = "prescan") =>
    /\ run[r].at = "over" => row[t] \notin Working /\ (WorkOf(r) = {} \/ node[t].stop)
    /\ run[r].at = "closing" => t \in active \/ row[t] \notin Working
    /\ run[r].at \in InBatch \union {"fetching"} \/ (run[r].at = "accepted" /\ t \in BotIds)
         => t \in active
    /\ run[r].at = "fetching" => WorkOf(r) = {}
    /\ run[r].kind # "prescan" => ~node[t].batch

(* A list of a prescan that is downloaded from is marked, so that nothing  *)
(* is deleted from it.                                                     *)
ListMarked(r) ==
  up /\ run[r].kind = "prescan" /\ run[r].task \in WebIds /\ prescan[run[r].task].on
    => prescan[run[r].task].confirmed

(* What holds of every task of the Web and of every run.                   *)
Owned ==
  /\ \A t \in WebIds : WebOwned(t) /\ FreshNode(t)
  /\ \A r \in Runs : KindKept(r) /\ CommentOwned(r) /\ RunOwned(r)

(* A step that leaves the scan of a task of the Web alone, takes nothing   *)
(* that is offered of it away while its row waits, and offers nothing new. *)
Still(t) ==
  /\ scan'[t] = scan[t]
  /\ row'[t] \in {"scanning", "waiting"} => row'[t] = row[t] /\ node'[t].stop = node[t].stop
  /\ row'[t] = "scanning" /\ t \in scanNode => t \in scanNode'
  /\ slot = {t} => slot' = {t}
  /\ t \in preview' => t \in preview
  /\ prescan'[t].on => prescan[t].on
  /\ \A c \in Callers : Holds(c, t)' => call'[c] = call[c]
  /\ row'[t] = "waiting" => /\ prescan[t].on => prescan'[t].on
                            /\ scan[t].kind # "prescan" /\ Pends(t) => Pends(t)'

(* What is said of a task of the Web holds after such a step.              *)
LEMMA StillOwned ==
  ASSUME NEW t \in WebIds, WebOwned(t), Still(t)
  PROVE  WebOwned(t)'
<1>1. ScanOwned(t)'
  BY DEF WebOwned, ScanOwned, Still
<1>2. OfferKept(t)'
  BY DEF WebOwned, OfferKept, Still, Holds
<1>3. WaitOwned(t)'
  BY DEF WebOwned, WaitOwned, Still
<1> QED
  BY <1>1, <1>2, <1>3 DEF WebOwned

(* What is said of a run holds for as long as the run, its files, its row  *)
(* and its node stay as they are.                                          *)
SameNode(t) ==
  /\ node'[t].batch = node[t].batch /\ node'[t].counted = node[t].counted
  /\ node[t].stop => node'[t].stop

(* A step that leaves a run alone, and its row and node as far as they     *)
(* matter.                                                                 *)
RunStays(r) ==
  LET t == run[r].task IN
  /\ run'[r] = run[r] /\ WorkOf(r)' = WorkOf(r)
  /\ OnlyRun(r)' => /\ OnlyRun(r) /\ SameNode(t)
                    /\ t \in active => t \in active'
                    /\ row'[t] \in Working => row[t] \in Working
  /\ t \in WebIds => scan'[t].kind = scan[t].kind

(* What is said of a run holds after such a step.                          *)
LEMMA StaysOwned ==
  ASSUME NEW r \in Runs, KindKept(r), CommentOwned(r), RunOwned(r), RunStays(r)
  PROVE  KindKept(r)' /\ CommentOwned(r)' /\ RunOwned(r)'
<1>1. KindKept(r)'
  BY DEF KindKept, RunStays
<1>2. CommentOwned(r)'
  BY DEF CommentOwned, RunStays, SameNode, PackagesOf, Passed
<1>3. RunOwned(r)'
  BY DEF RunOwned, RunStays, SameNode
<1> QED
  BY <1>1, <1>2, <1>3

(* The runs and their files stay, and a new node is that of a task without *)
(* a run.                                                                  *)
LEMMA RunsStayOwned ==
  ASSUME IInv, Owned, UNCHANGED <<run, work>>, active \subseteq active',
         \A t \in Tasks : row'[t] \in Working => row[t] \in Working,
         \A t \in Tasks : \/ SameNode(t)
                          \/ RunsOf(t) = {} /\ ~node'[t].batch /\ node'[t].counted = {},
         \A t \in WebIds : RunsOf(t) # {} => scan'[t].kind = scan[t].kind
  PROVE  /\ \A t \in WebIds : FreshNode(t)'
         /\ \A r \in Runs : KindKept(r)' /\ CommentOwned(r)' /\ RunOwned(r)'
<1>1. \A t : RunsOf(t)' = RunsOf(t)
  BY DEF RunsOf
<1>2. \A t \in WebIds : FreshNode(t)'
  BY <1>1, TaskIds DEF Owned, FreshNode, SameNode
<1>3. ASSUME NEW r \in Runs PROVE RunStays(r)
  <2>1. WorkOf(r)' = WorkOf(r) /\ OnlyRun(r)' = OnlyRun(r)
    BY <1>1 DEF WorkOf, OnlyRun
  <2>2. r \in RunsOf(run[r].task)
    BY DEF RunsOf
  <2>3. OnlyRun(r) => run[r].task \in Tasks
    BY DEF OnlyRun, IInv, RunInv, RunsConsistent
  <2> QED
    BY <2>1, <2>2, <2>3 DEF RunStays
<1>4. \A r \in Runs : KindKept(r)' /\ CommentOwned(r)' /\ RunOwned(r)'
  BY <1>3, StaysOwned DEF Owned
<1> QED
  BY <1>2, <1>4

(* As long as its scan is not over a task has no run and offers nothing.   *)
LEMMA ScanFirst ==
  ASSUME IInv, NEW t \in WebIds, scan[t].at # "over"
  PROVE  /\ RunsOf(t) = {} /\ t \notin preview /\ ~prescan[t].on
         /\ \A c \in Callers : ~Holds(c, t)
BY DEF IInv, WebInv, ScannedFirst, Offers, RunsOf, Holds

-----------------------------------------------------------------------------
(* The scans.                                                              *)
LEMMA ScanStill ==
  ASSUME IInv, NEW t \in WebIds, ScanStep(t), NEW u \in WebIds, u # t
  PROVE  Still(u)
<1>1. /\ scan'[u] = scan[u] /\ row'[u] = row[u] /\ node'[u] = node[u]
      /\ u \in scanNode => u \in scanNode'
      /\ slot = {u} => slot' = {u}
      /\ u \in preview' <=> u \in preview
      /\ prescan'[u] = prescan[u]
      /\ UNCHANGED <<call, run>>
  <2> USE DEF IInv, RunTypes, WebInv, WebTypes
  <2>1. CASE ScanStart(t)
    BY <2>1 DEF ScanStart, SlotFree, runVars
  <2>2. CASE Resolved(t)
    BY <2>2, TaskIds DEF Resolved, CreateWebTask, ScanOver
  <2>3. CASE Unresolved(t) \/ ScanStopped(t) \/ ScanFails(t)
    BY <2>3, TaskIds DEF Unresolved, ScanStopped, ScanFails, ScanOver, SetRow
  <2>4. CASE ScanBatch(t)
    BY <2>4, TaskIds DEF ScanBatch, Progress
  <2>5. CASE ScanDone(t)
    BY <2>5, TaskIds DEF ScanDone, ScanOver, SetRow
  <2> QED
    BY <2>1, <2>2, <2>3, <2>4, <2>5 DEF ScanStep
<1>2. Pends(u)' = Pends(u)
  BY <1>1 DEF Pends, Holds
<1> QED
  BY <1>1, <1>2 DEF Still, Holds

(* What the scan of t leaves of its own task.                              *)
LEMMA ScanLeaves ==
  ASSUME IInv, NEW t \in WebIds, ScanOver(t)
  PROVE  /\ scan'[t].at = "over" /\ scan'[t].kind = scan[t].kind
         /\ t \notin slot' /\ t \notin scanNode'
BY DEF ScanOver, IInv, WebInv, WebTypes, Scans

LEMMA ScanEnds ==
  ASSUME IInv, Owned, NEW t \in WebIds, scan[t].at \in {"resolving", "scanning"}, ScanOver(t),
         UNCHANGED <<call, run>>, row'[t] \notin {"scanning", "waiting"},
         prescan' = prescan, preview' = preview
  PROVE  WebOwned(t)'
<1>1. /\ scan'[t].at = "over" /\ scan'[t].kind = scan[t].kind
      /\ t \notin preview' /\ ~prescan'[t].on /\ \A c \in Callers : ~Holds(c, t)'
  BY ScanLeaves, ScanFirst DEF Holds
<1> QED
  BY <1>1 DEF WebOwned, ScanOwned, OfferKept, WaitOwned

LEMMA ScanStepWeb ==
  ASSUME IInv, Owned, NEW t \in WebIds, ScanStep(t)
  PROVE  WebOwned(t)'
<1> USE TaskIds
<1>1. /\ scan[t] \in Scans /\ scan[t].at # "over"
      /\ t \notin preview /\ ~prescan[t].on /\ \A c \in Callers : ~Holds(c, t)
  <2>1. scan[t].at # "over"
    BY DEF ScanStep, ScanStart, Resolved, Unresolved, ScanBatch, ScanStopped, ScanFails, ScanDone
  <2> QED
    BY <2>1, ScanFirst DEF IInv, WebInv, WebTypes
<1>2. UNCHANGED <<call, run>> /\ \A c \in Callers : ~Holds(c, t)'
  BY <1>1 DEF ScanStep, ScanStart, Resolved, Unresolved, ScanBatch, ScanStopped, ScanFails,
              ScanDone, Holds, runVars
<1>3. ScanOwned(t) /\ (row[t] = "waiting" => scan[t].at = "over")
  BY DEF Owned, WebOwned, WaitOwned
<1>4. CASE ScanStart(t)
  <2>1. /\ scan[t].at = "accepted" /\ row' = row /\ preview' = preview /\ prescan' = prescan
        /\ scan'[t].at \in {"over", "resolving"} /\ scan'[t].kind = scan[t].kind
        /\ scan'[t].at = "resolving" /\ scan[t].kind = "prescan" => slot' = {t}
    BY <1>1, <1>4 DEF ScanStart, runVars, IInv, WebInv, WebTypes, Scans
  <2>2. row[t] \notin {"scanning", "waiting"}
    BY <1>1, <1>3, <2>1 DEF ScanOwned
  <2> QED
    BY <1>1, <1>2, <1>3, <2>1, <2>2 DEF WebOwned, ScanOwned, OfferKept, WaitOwned
<1>5. CASE Resolved(t) /\ scan[t].kind = "comment"
  <2>1. /\ scan'[t].at = "over" /\ scan'[t].kind = "comment" /\ prescan' = prescan
        /\ t \in preview'
    BY <1>5, ScanLeaves DEF Resolved
  <2>2. row'[t] = "waiting" /\ ~node'[t].stop
    BY <1>5 DEF Resolved, CreateWebTask, NewNode, IInv, RunTypes
  <2> QED
    BY <1>1, <1>2, <2>1, <2>2 DEF WebOwned, ScanOwned, OfferKept, WaitOwned, Pends
<1>6. CASE Resolved(t) /\ scan[t].kind # "comment"
  <2>1. /\ scan'[t].at = "scanning" /\ scan'[t].kind = scan[t].kind /\ prescan' = prescan
        /\ preview' = preview /\ slot' = slot /\ t \in scanNode' /\ scan[t].at = "resolving"
    BY <1>6, <1>1 DEF Resolved, IInv, WebInv, WebTypes, Scans
  <2>2. row'[t] = "scanning"
    BY <1>6 DEF Resolved, CreateWebTask, IInv, RunTypes
  <2> QED
    BY <1>1, <1>2, <1>3, <2>1, <2>2 DEF WebOwned, ScanOwned, OfferKept, WaitOwned
<1>7. CASE Unresolved(t) \/ ScanStopped(t) \/ ScanFails(t)
  <2>1. /\ scan[t].at \in {"resolving", "scanning"} /\ ScanOver(t)
        /\ UNCHANGED <<preview, prescan>>
    BY <1>7 DEF Unresolved, ScanStopped, ScanFails
  <2>2. row'[t] \notin {"scanning", "waiting"}
    BY <1>7 DEF Unresolved, ScanStopped, ScanFails, SetRow, Updated, IInv, RunTypes
  <2> QED
    BY <1>2, <2>1, <2>2, ScanEnds
<1>8. CASE ScanBatch(t)
  <2>1. /\ scan[t].at = "scanning" /\ scan'[t].at = "scanning" /\ scan'[t].kind = scan[t].kind
        /\ UNCHANGED <<prescan, preview, slot, scanNode>>
    BY <1>8, <1>1 DEF ScanBatch, IInv, WebInv, WebTypes, Scans
  <2>2. row'[t] = row[t]
    BY <1>8 DEF ScanBatch, Progress, CanUpdate, Allowed, Updated, Working, Terminal,
                IInv, RunTypes
  <2> QED
    BY <1>1, <1>2, <1>3, <2>1, <2>2 DEF WebOwned, ScanOwned, OfferKept, WaitOwned
<1>9. CASE ScanDone(t)
  <2>1. /\ scan[t].at = "scanning" /\ scan'[t].at = "over" /\ scan'[t].kind = scan[t].kind
        /\ scan[t].kind \in Kinds /\ ~node[t].stop /\ node' = node
    BY <1>3, <1>9, ScanLeaves DEF ScanDone, ScanOwned
  <2>2. row'[t] # "scanning"
    BY <1>9 DEF ScanDone, SetRow, Updated, IInv, RunTypes
  <2>3. CASE scan[t].kind = "prescan"
    <3>1. preview' = preview /\ prescan'[t].on
      BY <1>9, <2>3 DEF ScanDone, IInv, WebInv, WebTypes, NoPrescan, Entries
    <3> QED
      BY <1>1, <1>2, <2>1, <2>2, <2>3, <3>1 DEF WebOwned, ScanOwned, OfferKept, WaitOwned
  <2>4. CASE scan[t].kind # "prescan"
    <3>1. t \in preview' /\ prescan' = prescan
      BY <1>9, <2>4 DEF ScanDone
    <3> QED
      BY <1>1, <1>2, <2>1, <2>2, <2>4, <3>1 DEF WebOwned, ScanOwned, OfferKept, WaitOwned,
                                                Pends, Kinds
  <2> QED
    BY <2>3, <2>4
<1> QED
  BY <1>4, <1>5, <1>6, <1>7, <1>8, <1>9 DEF ScanStep

(* A step of a scan: it has the row for as long as it goes on, and leaves  *)
(* it with what was found, or closed.                                      *)
LEMMA ScanStepOwned ==
  ASSUME IInv, Owned, NEW t \in WebIds, ScanStep(t)
  PROVE  Owned'
<1>1. \A u \in WebIds : WebOwned(u)'
  BY ScanStepWeb, ScanStill, StillOwned DEF Owned
<1>2. scan[t].at # "over" /\ UNCHANGED <<run, work, active>>
  BY DEF ScanStep, ScanStart, Resolved, Unresolved, ScanBatch, ScanStopped, ScanFails, ScanDone,
         runVars
<1>3. RunsOf(t) = {} /\ t \in Tasks
  BY <1>2, ScanFirst, TaskIds
<1>4. /\ \A u \in Tasks \ {t} : row'[u] = row[u] /\ node'[u] = node[u]
      /\ \A u \in WebIds \ {t} : scan'[u] = scan[u]
  <2> USE DEF IInv, RunTypes, WebInv, WebTypes
  <2>1. CASE ScanStart(t)
    BY <2>1 DEF ScanStart, runVars
  <2>2. CASE Resolved(t)
    BY <2>2 DEF Resolved, CreateWebTask, ScanOver
  <2>3. CASE Unresolved(t) \/ ScanStopped(t) \/ ScanFails(t)
    BY <2>3 DEF Unresolved, ScanStopped, ScanFails, ScanOver, SetRow
  <2>4. CASE ScanBatch(t)
    BY <2>4 DEF ScanBatch, Progress
  <2>5. CASE ScanDone(t)
    BY <2>5 DEF ScanDone, ScanOver, SetRow
  <2> QED
    BY <2>1, <2>2, <2>3, <2>4, <2>5 DEF ScanStep
<1>5. row'[t] \in Working => row[t] \in Working
  <2> USE DEF IInv, RunTypes, Working
  <2>1. CASE ScanStart(t)
    BY <2>1 DEF ScanStart, runVars
  <2>2. CASE Resolved(t)
    BY <2>2, <1>3 DEF Resolved, CreateWebTask
  <2>3. CASE Unresolved(t) \/ ScanStopped(t) \/ ScanFails(t)
    BY <2>3, <1>3 DEF Unresolved, ScanStopped, ScanFails, SetRow, Updated
  <2>4. CASE ScanBatch(t)
    BY <2>4, <1>3 DEF ScanBatch, Progress, Updated
  <2>5. CASE ScanDone(t)
    BY <2>5, <1>3 DEF ScanDone, SetRow, Updated
  <2> QED
    BY <2>1, <2>2, <2>3, <2>4, <2>5 DEF ScanStep
<1>6. SameNode(t) \/ (~node'[t].batch /\ node'[t].counted = {})
  <2>1. CASE Resolved(t)
    BY <2>1, <1>3 DEF Resolved, CreateWebTask, NewNode, IInv, RunTypes
  <2>2. CASE ~Resolved(t)
    BY <2>2 DEF ScanStep, ScanStart, Unresolved, ScanBatch, ScanStopped, ScanFails, ScanDone,
                runVars, SameNode
  <2> QED
    BY <2>1, <2>2
<1>7. /\ \A u \in Tasks : row'[u] \in Working => row[u] \in Working
      /\ \A u \in Tasks : \/ SameNode(u)
                          \/ RunsOf(u) = {} /\ ~node'[u].batch /\ node'[u].counted = {}
      /\ \A u \in WebIds : RunsOf(u) # {} => scan'[u].kind = scan[u].kind
  BY <1>3, <1>4, <1>5, <1>6 DEF SameNode
<1> QED
  BY <1>1, <1>2, <1>7, RunsStayOwned DEF Owned

-----------------------------------------------------------------------------
(* The requests. A link gets its coroutine, or the answer that it cannot.  *)
LEMMA NewScanOwned ==
  ASSUME IInv, Owned, NEW t \in WebIds, scan[t].at \in {"none", "probing"},
         row' = row, preview' = preview, prescan' = prescan,
         scan'[t].at \in {"probing", "accepted", "over"},
         scan'[t].at = "accepted" => scan'[t].kind \in Kinds,
         \A c \in Callers : ~Holds(c, t)'
  PROVE  WebOwned(t)'
<1>1. /\ t \notin preview /\ ~prescan[t].on
      /\ row[t] \notin {"scanning", "waiting"}
  BY ScanFirst DEF Owned, WebOwned, ScanOwned, WaitOwned
<1> QED
  BY <1>1 DEF WebOwned, ScanOwned, OfferKept, WaitOwned

LEMMA RunsSame ==
  ASSUME IInv, Owned, UNCHANGED <<node, active, run, work>>,
         \A t \in Tasks : row'[t] \in Working => row[t] \in Working,
         \A t \in WebIds : RunsOf(t) # {} => scan'[t].kind = scan[t].kind
  PROVE  /\ \A t \in WebIds : FreshNode(t)'
         /\ \A r \in Runs : KindKept(r)' /\ CommentOwned(r)' /\ RunOwned(r)'
<1>1. \A t \in Tasks : SameNode(t)
  BY DEF SameNode
<1> QED
  BY <1>1, RunsStayOwned

(* A step of one scan or request for t, the rows of which stay.            *)
LEMMA OneScanOwned ==
  ASSUME IInv, Owned, NEW t \in WebIds, scan[t].at # "over",
         UNCHANGED <<runVars, scanNode, preview, prescan>>,
         \A u \in WebIds \ {t} : scan'[u] = scan[u] /\ (slot = {u} => slot' = {u})
                                 /\ \A c \in Callers : Holds(c, u)' <=> Holds(c, u),
         \A c \in Callers, u \in WebIds : Holds(c, u)' => call'[c] = call[c],
         WebOwned(t)'
  PROVE  Owned'
<1>1. \A u \in WebIds \ {t} : Still(u)
  BY DEF Still, Pends, runVars
<1>2. \A u \in WebIds : WebOwned(u)'
  BY <1>1, StillOwned DEF Owned
<1>3. /\ \A u \in WebIds : FreshNode(u)'
      /\ \A r \in Runs : KindKept(r)' /\ CommentOwned(r)' /\ RunOwned(r)'
  <2>1. \A u \in WebIds : RunsOf(u) # {} => scan'[u].kind = scan[u].kind
    BY ScanFirst
  <2> QED
    BY <2>1, RunsSame DEF runVars
<1> QED
  BY <1>2, <1>3 DEF Owned

(* A new link has no row yet.                                              *)
LEMMA SubmitOwned ==
  ASSUME IInv, Owned, NEW kind \in Kinds \ {"prescan"}, Submit(kind)
  PROVE  Owned'
<1>1. PICK t \in WebIds : /\ t = FreshTask /\ scan[t].at = "none" /\ scan[t] \in Scans
                          /\ scan \in [WebIds -> Scans]
  BY FreshTaskIsFresh DEF Submit, IInv, WebInv, WebTypes
<1>2. UNCHANGED <<runVars, scanNode, preview, prescan, slot, call>> /\ Accept(t, kind)
  BY <1>1 DEF Submit
<1>3. /\ scan'[t].at \in {"accepted", "over"}
      /\ scan'[t].at = "accepted" => scan'[t].kind \in Kinds
      /\ \A u \in WebIds \ {t} : scan'[u] = scan[u]
  BY <1>1, <1>2 DEF Accept, NoScan, Scans
<1>4. \A c \in Callers, u \in WebIds : Holds(c, u)' = Holds(c, u)
  BY <1>2 DEF Holds
<1>5. WebOwned(t)'
  <2>1. \A c \in Callers : ~Holds(c, t)'
    BY <1>1, <1>4, ScanFirst
  <2> QED
    BY <1>1, <1>2, <1>3, <2>1, NewScanOwned DEF runVars
<1> QED
  BY <1>1, <1>2, <1>3, <1>4, <1>5, OneScanOwned

(* Looking at the slot takes it, for a task without a row.                 *)
LEMMA SubmitPrescanOwned ==
  ASSUME IInv, Owned, NEW c \in Callers, SubmitPrescan(c)
  PROVE  Owned'
<1>1. PICK t \in WebIds : /\ t = FreshTask /\ scan[t].at = "none" /\ scan[t] \in Scans
                          /\ scan \in [WebIds -> Scans] /\ call \in [Callers -> Calls]
  BY FreshTaskIsFresh DEF SubmitPrescan, IInv, WebInv, WebTypes
<1>2. UNCHANGED <<runVars, scanNode, preview, prescan>> /\ call[c].op = "none"
  BY DEF SubmitPrescan, Idle
<1>3. /\ scan'[t].at \in {"probing", "over"}
      /\ \A u \in WebIds \ {t} : scan'[u] = scan[u] /\ (slot = {u} => slot' = {u})
  <2>1. CASE SlotFree(t)
    <3>1. scan' = [scan EXCEPT ![t].at = "probing"]
      BY <1>1, <2>1 DEF SubmitPrescan
    <3>2. \A u \in WebIds \ {t} : slot # {u}
      BY <2>1 DEF SlotFree
    <3> QED
      BY <1>1, <3>1, <3>2 DEF Scans
  <2>2. CASE ~SlotFree(t)
    <3>1. scan' = [scan EXCEPT ![t].at = "over"] /\ slot' = slot
      BY <1>1, <2>2 DEF SubmitPrescan
    <3> QED
      BY <1>1, <3>1 DEF Scans
  <2> QED
    BY <2>1, <2>2
<1>4. \A d \in Callers : call'[d] = call[d] \/ (d = c /\ call'[c].op = "submit")
  BY <1>1 DEF SubmitPrescan, NoCall
<1>5. \A d \in Callers, u \in WebIds : (Holds(d, u)' <=> Holds(d, u))
                                       /\ (Holds(d, u)' => call'[d] = call[d])
  BY <1>2, <1>4 DEF Holds
<1>6. WebOwned(t)'
  <2>1. \A d \in Callers : ~Holds(d, t)'
    BY <1>1, <1>5, ScanFirst
  <2> QED
    BY <1>1, <1>2, <1>3, <2>1, NewScanOwned DEF runVars
<1> QED
  BY <1>1, <1>2, <1>3, <1>5, <1>6, OneScanOwned

(* Nobody else has the slot that is given back.                            *)
LEMMA HandPrescanOwned ==
  ASSUME IInv, Owned, NEW c \in Callers, HandPrescan(c)
  PROVE  Owned'
<1>1. PICK t \in WebIds :
      /\ call[c].op = "submit" /\ scan[t].at = "probing" /\ scan[t] \in Scans
      /\ t = call[c].task /\ scan \in [WebIds -> Scans] /\ call \in [Callers -> Calls]
      /\ UNCHANGED <<runVars, scanNode, preview, prescan>>
      /\ call' = [call EXCEPT ![c] = NoCall] /\ slot' = slot \ {t} /\ Accept(t, "prescan")
  BY DEF HandPrescan, IInv, WebInv, WebTypes, ScannedFirst
<1>2. /\ scan'[t].at \in {"accepted", "over"}
      /\ scan'[t].at = "accepted" => scan'[t].kind \in Kinds
      /\ \A u \in WebIds \ {t} : scan'[u] = scan[u] /\ (slot = {u} => slot' = {u})
  BY <1>1 DEF Accept, NoScan, Scans, Kinds
<1>3. \A d \in Callers : call'[d] = call[d] \/ (d = c /\ call'[c].op = "none")
  BY <1>1, WebTables
<1>4. \A d \in Callers, u \in WebIds : (Holds(d, u)' <=> Holds(d, u))
                                       /\ (Holds(d, u)' => call'[d] = call[d])
  BY <1>1, <1>3 DEF Holds
<1>5. WebOwned(t)'
  <2>1. \A d \in Callers : ~Holds(d, t)'
    BY <1>1, <1>4, ScanFirst
  <2> QED
    BY <1>1, <1>2, <2>1, NewScanOwned DEF runVars
<1> QED
  BY <1>1, <1>2, <1>4, <1>5, OneScanOwned

(* confirm_task takes the preview of t, or copies the entry of a prescan.  *)
LEMMA ConfirmOwned ==
  ASSUME IInv, Owned, NEW c \in Callers, NEW t \in WebIds, Confirm(c, t)
  PROVE  Owned'
<1> DEFINE entry == Pruned(prescan)[t]
           got == IF entry.on THEN "prescan"
                  ELSE IF t \in preview THEN scan[t].kind ELSE "nothing"
<1>1. /\ UNCHANGED <<runVars, scan, scanNode, slot>> /\ call[c].op = "none"
      /\ prescan' = Pruned(prescan) /\ preview' = preview \ {t}
      /\ scan[t].kind # "none"
  BY DEF Confirm, Idle
<1>2. /\ \A d \in Callers \ {c} : call'[d] = call[d]
      /\ call'[c].op = "confirm" /\ call'[c].task = t /\ call'[c].got = got
      /\ ~entry.on => call'[c].offered = {LinkPackage} /\ call'[c].sel = {LinkPackage}
  BY DEF Confirm, IInv, WebInv, WebTypes
<1>3. \A u \in WebIds : /\ prescan'[u].on => prescan[u].on
                        /\ row[u] # "none" => prescan'[u] = prescan[u]
  BY <1>1, WebTables DEF Pruned
<1>4. entry = prescan'[t]
  BY <1>1
<1> HIDE DEF entry
<1>5. \A u \in WebIds \ {t} : Still(u)
  <2> SUFFICES ASSUME NEW u \in WebIds \ {t} PROVE Still(u)
    OBVIOUS
  <2>1. \A d \in Callers : (Holds(d, u)' <=> Holds(d, u)) /\ (Holds(d, u)' => call'[d] = call[d])
    BY <1>1, <1>2 DEF Holds
  <2>2. Pends(u)' = Pends(u)
    BY <1>1, <2>1 DEF Pends, runVars
  <2> QED
    BY <1>1, <1>3, <2>1, <2>2 DEF Still, runVars
<1>6. WebOwned(t)'
  <2>1. ScanOwned(t) /\ OfferKept(t) /\ WaitOwned(t)
    BY DEF Owned, WebOwned
  <2>2. ScanOwned(t)'
    BY <1>1, <2>1 DEF ScanOwned, runVars
  <2>3. \A d \in Callers : Holds(d, t) => d # c /\ call'[d] = call[d] /\ Holds(d, t)'
    BY <1>1, <1>2 DEF Holds
  <2>4. OfferKept(t)'
    <3>1. t \notin preview' /\ (prescan'[t].on => scan'[t].kind = "prescan")
      BY <1>1, <1>3, <2>1 DEF OfferKept
    <3>2. ASSUME NEW d \in Callers, Holds(d, t)', d # c
          PROVE  /\ call'[d].got = scan'[t].kind /\ call'[d].got \in Kinds
                 /\ call'[d].got # "prescan" =>
                      call'[d].offered = {LinkPackage} /\ call'[d].sel = {LinkPackage}
      BY <1>1, <1>2, <3>2, <2>1 DEF OfferKept, Holds
    <3>3. ASSUME Holds(c, t)'
          PROVE  /\ call'[c].got = scan'[t].kind /\ call'[c].got \in Kinds
                 /\ call'[c].got # "prescan" =>
                      call'[c].offered = {LinkPackage} /\ call'[c].sel = {LinkPackage}
      <4>1. CASE entry.on
        BY <4>1, <1>1, <1>2, <1>3, <1>4, <2>1 DEF OfferKept, Kinds
      <4>2. CASE ~entry.on
        <5>1. t \in preview /\ call'[c].got = scan[t].kind
          BY <4>2, <3>3, <1>2 DEF Holds
        <5> QED
          BY <4>2, <5>1, <1>1, <1>2, <2>1 DEF OfferKept, Kinds
      <4> QED
        BY <4>1, <4>2
    <3> QED
      BY <3>1, <3>2, <3>3 DEF OfferKept
  <2>5. WaitOwned(t)'
    <3> SUFFICES ASSUME row[t] = "waiting"
                 PROVE  /\ ~node[t].stop /\ scan[t].at = "over"
                        /\ scan[t].kind = "prescan" => prescan'[t].on
                        /\ scan[t].kind # "prescan" => Pends(t)'
      BY <1>1 DEF WaitOwned, runVars
    <3>1. prescan'[t] = prescan[t]
      BY <1>3
    <3>2. ASSUME scan[t].kind # "prescan" PROVE Pends(t)'
      <4>1. CASE t \in preview
        <5>1. ~entry.on /\ scan[t].kind \in {"package", "comment"}
          BY <4>1, <1>4, <3>1, <3>2, <2>1 DEF OfferKept
        <5>2. Holds(c, t)'
          BY <4>1, <5>1, <1>2 DEF Holds
        <5> QED
          BY <5>2 DEF Pends
      <4>2. CASE t \notin preview
        BY <4>2, <3>2, <2>1, <2>3, <1>1 DEF WaitOwned, Pends, runVars
      <4> QED
        BY <4>1, <4>2
    <3> QED
      BY <3>1, <3>2, <2>1 DEF WaitOwned
  <2> QED
    BY <2>2, <2>4, <2>5 DEF WebOwned
<1>7. \A u \in WebIds : WebOwned(u)'
  BY <1>5, <1>6, StillOwned DEF Owned
<1>8. /\ \A u \in WebIds : FreshNode(u)'
      /\ \A r \in Runs : KindKept(r)' /\ CommentOwned(r)' /\ RunOwned(r)'
  BY <1>1, RunsSame DEF runVars
<1> QED
  BY <1>7, <1>8 DEF Owned

(* A thread goes on with its request or ends it: what it holds is that of  *)
(* a prescan, the entry of which is still there.                           *)
LEMMA CallStill ==
  ASSUME IInv, Owned, NEW c \in Callers, call'[c].op # "confirm",
         \A d \in Callers \ {c} : call'[d] = call[d],
         UNCHANGED <<run, scan, scanNode, preview, slot>>,
         \A t \in WebIds : row'[t] \in {"scanning", "waiting"} =>
           row'[t] = row[t] /\ node'[t].stop = node[t].stop,
         \A t \in WebIds : prescan'[t].on = prescan[t].on,
         \A t \in WebIds : Holds(c, t) => call[c].got = "prescan"
  PROVE  \A t \in WebIds : WebOwned(t)'
<1> SUFFICES ASSUME NEW t \in WebIds PROVE Still(t)
  BY StillOwned DEF Owned
<1>1. \A d \in Callers : /\ Holds(d, t)' => Holds(d, t) /\ call'[d] = call[d]
                         /\ d # c => (Holds(d, t)' <=> Holds(d, t))
  BY DEF Holds
<1>2. Holds(c, t) => scan[t].kind = "prescan"
  BY DEF Owned, WebOwned, OfferKept
<1>3. scan[t].kind # "prescan" /\ Pends(t) => Pends(t)'
  BY <1>1, <1>2 DEF Pends
<1> QED
  BY <1>1, <1>3 DEF Still

(* A confirmation without anything selected, or that found nothing.        *)
LEMMA ConfirmEndsOwned ==
  ASSUME IInv, Owned, NEW c \in Callers, ConfirmReads(c) \/ ConfirmNothing(c)
  PROVE  Owned'
<1>1. UNCHANGED <<runVars, scan, scanNode, preview, prescan, slot>>
  BY DEF ConfirmReads, ConfirmNothing
<1>2. call[c].got \in {"nothing", "prescan"}
  BY DEF ConfirmReads, ConfirmNothing
<1>3. PICK new \in {NoCall, [call[c] EXCEPT !.op = "interrupt"]} : call' = [call EXCEPT ![c] = new]
  BY DEF ConfirmReads, ConfirmNothing
<1>4. new.op # "confirm"
  <2>1. call[c] \in Calls
    BY DEF IInv, WebInv, WebTypes
  <2> QED
    BY <2>1, <1>3, WebTables DEF Calls
<1>5. call'[c].op # "confirm" /\ \A d \in Callers \ {c} : call'[d] = call[d]
  BY <1>3, <1>4 DEF IInv, WebInv, WebTypes
<1>6. \A t \in WebIds : WebOwned(t)'
  BY <1>1, <1>2, <1>5, CallStill DEF runVars, Holds
<1>7. /\ \A u \in WebIds : FreshNode(u)'
      /\ \A r \in Runs : KindKept(r)' /\ CommentOwned(r)' /\ RunOwned(r)'
  BY <1>1, RunsSame DEF runVars
<1> QED
  BY <1>6, <1>7 DEF Owned

LEMMA CallGone ==
  ASSUME IInv, NEW c \in Callers, call' = [call EXCEPT ![c] = NoCall]
  PROVE  /\ call'[c].op = "none"
         /\ \A d \in Callers \ {c} : call'[d] = call[d]
BY WebTables DEF IInv, WebInv, WebTypes

(* Rows that are closed or removed by a thread.                            *)
LEMMA CallRowOwned ==
  ASSUME IInv, Owned, NEW c \in Callers, ConfirmInterrupts(c) \/ CancelRemoves(c)
  PROVE  Owned'
<1> DEFINE t == call[c].task
<1>1. /\ UNCHANGED <<node, active, run, work, scan, scanNode, preview, prescan, slot>>
      /\ call' = [call EXCEPT ![c] = NoCall] /\ call[c].op # "confirm"
  BY DEF ConfirmInterrupts, CancelRemoves
<1>2. PICK status \in {"none", "interrupted"} : row' = row \/ row' = [row EXCEPT ![t] = status]
  BY DEF ConfirmInterrupts, CancelRemoves, Updated
<1>3. \A u \in Tasks : row'[u] = row[u] \/ row'[u] \in {"none", "interrupted"}
  BY <1>2 DEF IInv, RunTypes
<1>4. \A u \in WebIds : WebOwned(u)'
  <2>1. \A u \in WebIds : row'[u] \in {"scanning", "waiting"} => row'[u] = row[u]
    BY <1>3, TaskIds
  <2>2. call'[c].op # "confirm" /\ \A d \in Callers \ {c} : call'[d] = call[d]
    BY <1>1, CallGone
  <2> QED
    BY <1>1, <2>1, <2>2, CallStill DEF Holds
<1>5. \A u \in Tasks : row'[u] \in Working => row[u] \in Working
  BY <1>3 DEF Working
<1>6. /\ \A u \in WebIds : FreshNode(u)'
      /\ \A r \in Runs : KindKept(r)' /\ CommentOwned(r)' /\ RunOwned(r)'
  BY <1>1, <1>5, RunsSame
<1> QED
  BY <1>4, <1>6 DEF Owned

(* A cancel looks for the node first.                                      *)
LEMMA CancelRequestOwned ==
  ASSUME IInv, Owned, NEW c \in Callers, NEW t \in Tasks, Cancel(c, t)
  PROVE  Owned'
<1>1. UNCHANGED <<runVars, scan, scanNode, preview, prescan, slot>> /\ call[c].op = "none"
  BY DEF Cancel, Idle
<1>2. call'[c].op # "confirm" /\ \A d \in Callers \ {c} : call'[d] = call[d]
  BY DEF Cancel, NoCall, IInv, WebInv, WebTypes
<1>3. \A u \in WebIds : WebOwned(u)'
  BY <1>1, <1>2, CallStill DEF runVars, Holds
<1>4. /\ \A u \in WebIds : FreshNode(u)'
      /\ \A r \in Runs : KindKept(r)' /\ CommentOwned(r)' /\ RunOwned(r)'
  BY <1>1, RunsSame DEF runVars
<1> QED
  BY <1>3, <1>4 DEF Owned

(* _cancel_web_task_owned takes a row, its node and all that waits for it. *)
LEMMA CancelOwnedOwned ==
  ASSUME IInv, Owned, NEW c \in Callers, CancelOwned(c)
  PROVE  Owned'
<1>1. PICK t \in WebIds : t = call[c].task /\ call[c].op = "stop"
  BY DEF CancelOwned, IInv, WebInv, ScannedFirst
<1>2. /\ node' = [node EXCEPT ![t].stop = TRUE] /\ preview' = preview \ {t}
      /\ prescan' = [prescan EXCEPT ![t] = NoPrescan] /\ scanNode' = scanNode \ {t}
      /\ call' = [call EXCEPT ![c] = NoCall]
      /\ row' = [row EXCEPT ![t] =
           IF row[t] \in {"downloading", "scanning"} THEN "cancelled" ELSE "none"]
      /\ UNCHANGED <<active, run, work, scan, slot>>
  BY <1>1 DEF CancelOwned
<1>3. /\ row'[t] \in {"cancelled", "none"} /\ ~prescan'[t].on
      /\ \A u \in Tasks \ {t} : row'[u] = row[u] /\ node'[u] = node[u]
      /\ \A u \in WebIds \ {t} : prescan'[u] = prescan[u]
      /\ node'[t].batch = node[t].batch /\ node'[t].counted = node[t].counted /\ node'[t].stop
  BY <1>2, WebTables, TaskIds DEF IInv, RunTypes, WebInv, WebTypes, Nodes
<1>4. call'[c].op = "none" /\ \A d \in Callers \ {c} : call'[d] = call[d]
  BY <1>2, CallGone
<1>5. \A d \in Callers, u \in WebIds : (Holds(d, u)' <=> Holds(d, u))
                                       /\ (Holds(d, u)' => call'[d] = call[d])
  BY <1>1, <1>4 DEF Holds
<1>6. ASSUME NEW u \in WebIds, u # t PROVE Still(u)
  <2>1. Pends(u)' = Pends(u)
    BY <1>2, <1>5, <1>6 DEF Pends
  <2> QED
    BY <1>2, <1>3, <1>5, <1>6, <2>1, TaskIds DEF Still
<1>7. Still(t)
  BY <1>2, <1>3, <1>5 DEF Still
<1>8. \A u \in WebIds : WebOwned(u)'
  BY <1>6, <1>7, StillOwned DEF Owned
<1>9. /\ \A u \in WebIds : FreshNode(u)'
      /\ \A r \in Runs : KindKept(r)' /\ CommentOwned(r)' /\ RunOwned(r)'
  <2>1. \A u \in Tasks : SameNode(u)
    BY <1>3 DEF SameNode
  <2>2. \A u \in Tasks : row'[u] \in Working => row[u] \in Working
    BY <1>3 DEF Working
  <2> QED
    BY <1>2, <2>1, <2>2, RunsStayOwned
<1> QED
  BY <1>8, <1>9 DEF Owned

(* A run that was not there before.                                        *)
LEMMA NewRunOwned ==
  ASSUME IInv, Owned, NEW r \in Runs, run[r].at = "free", NEW t \in Tasks,
         NEW kind, NEW offered, NEW sel,
         run' = [run EXCEPT ![r] = Scheduled(t, kind, offered, sel)],
         UNCHANGED <<work, scan>>, active \subseteq active',
         \A u \in Tasks \ {t} : node'[u] = node[u] /\ row'[u] = row[u],
         t \in WebIds => /\ UNCHANGED <<row, node>>
                         /\ kind = scan[t].kind
                         /\ kind = "comment" => offered \intersect sel = {LinkPackage},
         t \in BotIds => kind # "comment" /\ t \in active'
  PROVE  /\ \A u \in WebIds : FreshNode(u)'
         /\ \A q \in Runs : KindKept(q)' /\ CommentOwned(q)' /\ RunOwned(q)'
<1>1. /\ run'[r].task = t /\ run'[r].kind = kind /\ run'[r].at = "accepted"
      /\ run'[r].offered = offered /\ run'[r].sel = sel /\ run'[r].next = 0
      /\ \A q \in Runs \ {r} : run'[q] = run[q]
      /\ \A q \in Runs : WorkOf(q)' = WorkOf(q)
  BY DEF IInv, RunTypes, Scheduled, NoRun, WorkOf
<1>2. run[r].task = 0 /\ WorkOf(r) = {} /\ t # 0
  BY TaskIds DEF IInv, RunInv, RunsConsistent
<1>3. \A u \in Tasks : RunsOf(u) \subseteq RunsOf(u)' /\ r \notin RunsOf(u)
  BY <1>1, <1>2, TaskIds DEF RunsOf
<1>4. r \in RunsOf(t)'
  BY <1>1 DEF RunsOf
<1>5. \A u \in WebIds : FreshNode(u)'
  <2> SUFFICES ASSUME NEW u \in WebIds, RunsOf(u)' = {} PROVE ~node'[u].batch /\ node'[u].counted = {}
    BY DEF FreshNode
  <2>1. u # t /\ RunsOf(u) = {}
    BY <1>3, <1>4, TaskIds
  <2> QED
    BY <2>1, TaskIds DEF Owned, FreshNode
<1>6. ASSUME NEW q \in Runs, q # r PROVE RunStays(q)
  <2>1. run'[q] = run[q] /\ WorkOf(q)' = WorkOf(q)
    BY <1>1, <1>6
  <2>2. ASSUME OnlyRun(q)'
        PROVE  OnlyRun(q) /\ run[q].task \in Tasks \ {t}
    <3>1. run[q].at # "free" /\ run[q].task \in Tasks
      BY <2>1, <2>2 DEF OnlyRun, IInv, RunInv, RunsConsistent
    <3>2. q \in RunsOf(run[q].task) /\ RunsOf(run[q].task)' = {q}
      BY <2>1, <2>2 DEF RunsOf, OnlyRun
    <3>3. RunsOf(run[q].task) = {q}
      <4> DEFINE u == run[q].task
      <4>1. RunsOf(u) \subseteq RunsOf(u)'
        BY <1>1, <1>2, <3>1, TaskIds DEF RunsOf
      <4> QED
        BY <3>2, <4>1, <2>1
    <3>4. run[q].task # t
      BY <3>2, <1>4, <1>6, <2>1 DEF RunsOf, OnlyRun
    <3> QED
      BY <3>1, <3>3, <3>4 DEF OnlyRun
  <2> QED
    BY <2>1, <2>2 DEF RunStays, SameNode
<1>7. \A q \in Runs \ {r} : KindKept(q)' /\ CommentOwned(q)' /\ RunOwned(q)'
  BY <1>6, StaysOwned DEF Owned
<1>8. KindKept(r)'
  BY <1>1, TaskIds DEF KindKept, Tasks
<1>9. OnlyRun(r)' => RunsOf(t) = {}
  BY <1>1, <1>3 DEF OnlyRun
<1>10. t \in WebIds /\ OnlyRun(r)' => ~node'[t].batch /\ node'[t].counted = {}
  BY <1>9 DEF Owned, FreshNode
<1>11. CommentOwned(r)'
  BY <1>1, <1>2, <1>10, TaskIds DEF CommentOwned, Passed, PackagesOf, Tasks
<1>12. RunOwned(r)'
  BY <1>1, <1>2, <1>10, TaskIds DEF RunOwned, InBatch, Tasks
<1> QED
  BY <1>5, <1>7, <1>8, <1>11, <1>12

(* A confirmation hands over the run that its row waits for.               *)
LEMMA ConfirmStartsOwned ==
  ASSUME IInv, Owned, NEW c \in Callers, ConfirmStarts(c)
  PROVE  Owned'
<1>1. PICK t \in WebIds : t = call[c].task /\ Holds(c, t)
  BY DEF ConfirmStarts, IInv, WebInv, ScannedFirst, Holds
<1>2. PICK r \in Runs : r = FreeRun /\ run[r].at = "free"
  BY FreeRunIsFree DEF ConfirmStarts
<1>3. PICK kind, offered, sel : kind = call[c].got /\ offered = call[c].offered /\ sel = call[c].sel
  OBVIOUS
<1>4. /\ run' = [run EXCEPT ![r] = Scheduled(t, kind, offered, sel)]
      /\ prescan' = IF kind = "prescan" THEN Confirmed(t, TRUE) ELSE prescan
      /\ call' = [call EXCEPT ![c] = NoCall]
      /\ UNCHANGED <<row, node, active, work, scan, scanNode, preview, slot>>
  BY <1>1, <1>2, <1>3 DEF ConfirmStarts
<1>5. kind = scan[t].kind /\ (kind # "prescan" => offered = {LinkPackage} /\ sel = {LinkPackage})
  BY <1>1, <1>3 DEF Owned, WebOwned, OfferKept
<1>6. t \in Tasks /\ t \notin BotIds
  BY TaskIds
<1>7. /\ \A u \in WebIds : FreshNode(u)'
      /\ \A q \in Runs : KindKept(q)' /\ CommentOwned(q)' /\ RunOwned(q)'
  BY <1>2, <1>4, <1>5, <1>6, NewRunOwned
<1>8. call'[c].op = "none" /\ \A d \in Callers \ {c} : call'[d] = call[d]
  BY <1>4, CallGone
<1>9. /\ run'[r].task = t /\ run'[r].at = "accepted"
      /\ \A q \in Runs : run[q].at = "accepted" => run'[q] = run[q]
  BY <1>2, <1>4 DEF IInv, RunTypes, Scheduled, NoRun
<1>10. \A u \in WebIds : prescan'[u].on = prescan[u].on
  BY <1>1, <1>4, ConfirmedKeeps
<1>11. ASSUME NEW u \in WebIds PROVE Still(u)
  <2>1. \A d \in Callers : /\ Holds(d, u)' => call'[d] = call[d]
                           /\ Holds(d, u) => Holds(d, u)' \/ u = t
    BY <1>1, <1>8 DEF Holds
  <2>2. Pends(u) => Pends(u)'
    BY <1>4, <1>9, <2>1 DEF Pends
  <2> QED
    BY <1>4, <1>10, <2>1, <2>2 DEF Still
<1>12. \A u \in WebIds : WebOwned(u)'
  BY <1>11, StillOwned DEF Owned
<1> QED
  BY <1>7, <1>12 DEF Owned

(* The loop does not run: what was taken is given back.                    *)
LEMMA ConfirmRefusedOwned ==
  ASSUME IInv, Owned, NEW c \in Callers, ConfirmRefused(c)
  PROVE  Owned'
<1>1. PICK t \in WebIds : t = call[c].task /\ Holds(c, t)
  BY DEF ConfirmRefused, IInv, WebInv, ScannedFirst, Holds
<1>2. /\ UNCHANGED <<runVars, scan, scanNode, slot>>
      /\ call' = [call EXCEPT ![c] = NoCall]
      /\ IF call[c].got = "prescan" THEN prescan' = Confirmed(t, FALSE) /\ preview' = preview
         ELSE preview' = preview \union {t} /\ prescan' = prescan
  BY <1>1 DEF ConfirmRefused
<1>3. call'[c].op = "none" /\ \A d \in Callers \ {c} : call'[d] = call[d]
  BY <1>2, CallGone
<1>4. \A u \in WebIds : prescan'[u].on = prescan[u].on
  <2>1. prescan' = Confirmed(t, FALSE) \/ prescan' = prescan
    BY <1>2
  <2> QED
    BY <2>1, ConfirmedKeeps
<1>5. ASSUME NEW u \in WebIds, u # t \/ call[c].got = "prescan" PROVE Still(u)
  <2>1. u \in preview' <=> u \in preview
    BY <1>2, <1>5
  <2>2. \A d \in Callers : /\ Holds(d, u)' => call'[d] = call[d]
                           /\ Holds(d, u) => Holds(d, u)' \/ (d = c /\ u = t)
    BY <1>1, <1>3 DEF Holds
  <2>3. scan[u].kind # "prescan" /\ Holds(c, u) => u # t
    BY <1>1, <1>5 DEF Owned, WebOwned, OfferKept
  <2>4. scan[u].kind # "prescan" /\ Pends(u) => Pends(u)'
    BY <1>2, <2>1, <2>2, <2>3 DEF Pends, runVars
  <2> QED
    BY <1>2, <1>4, <2>1, <2>2, <2>4 DEF Still, runVars
<1>6. ASSUME call[c].got # "prescan" PROVE WebOwned(t)'
  <2>1. ScanOwned(t) /\ OfferKept(t) /\ WaitOwned(t)
    BY DEF Owned, WebOwned
  <2>2. t \in preview' /\ prescan' = prescan
    BY <1>2, <1>6
  <2>3. scan[t].kind \in {"package", "comment"}
    BY <1>1, <1>6, <2>1 DEF OfferKept, Kinds
  <2>4. \A d \in Callers : Holds(d, t)' => Holds(d, t) /\ call'[d] = call[d]
    BY <1>3 DEF Holds
  <2>5. ScanOwned(t)' /\ OfferKept(t)' /\ WaitOwned(t)'
    BY <1>2, <2>1, <2>2, <2>3, <2>4 DEF ScanOwned, OfferKept, WaitOwned, Pends, runVars
  <2> QED
    BY <2>5 DEF WebOwned
<1>7. \A u \in WebIds : WebOwned(u)'
  BY <1>5, <1>6, StillOwned DEF Owned
<1>8. /\ \A u \in WebIds : FreshNode(u)'
      /\ \A r \in Runs : KindKept(r)' /\ CommentOwned(r)' /\ RunOwned(r)'
  BY <1>2, RunsSame DEF runVars
<1> QED
  BY <1>7, <1>8 DEF Owned

(* A step of a thread.                                                     *)
LEMMA CallStepOwned ==
  ASSUME IInv, Owned, NEW c \in Callers, CallStep(c)
  PROVE  Owned'
BY HandPrescanOwned, ConfirmEndsOwned, CallRowOwned, ConfirmStartsOwned, ConfirmRefusedOwned,
   CancelOwnedOwned DEF CallStep

(* Rows go, and lists with them; packages are selected and deleted.        *)
LEMMA ListsOwned ==
  ASSUME IInv, Owned, UNCHANGED <<node, active, run, work, scan, scanNode, preview, slot, call>>,
         \A u \in Tasks : row'[u] = row[u] \/ row'[u] = "none",
         \A u \in WebIds : /\ prescan'[u].on => prescan[u].on
                           /\ prescan[u].on /\ row'[u] = "waiting" => prescan'[u].on
  PROVE  Owned'
<1>1. ASSUME NEW u \in WebIds PROVE Still(u)
  <2>1. Pends(u)' = Pends(u)
    BY DEF Pends, Holds
  <2> QED
    BY <2>1, TaskIds DEF Still
<1>2. \A u \in WebIds : WebOwned(u)'
  BY <1>1, StillOwned DEF Owned
<1>3. /\ \A u \in WebIds : FreshNode(u)'
      /\ \A r \in Runs : KindKept(r)' /\ CommentOwned(r)' /\ RunOwned(r)'
  <2>1. \A u \in Tasks : row'[u] \in Working => row[u] \in Working
    BY DEF Working
  <2> QED
    BY <2>1, RunsSame
<1> QED
  BY <1>2, <1>3 DEF Owned

LEMMA ClearOwned ==
  ASSUME IInv, Owned, (\E t \in Tasks : Clear(t)) \/ ClearCompleted
  PROVE  Owned'
<1>1. UNCHANGED <<node, active, run, work, scan, scanNode, preview, slot, call>>
  BY DEF Clear, ClearCompleted
<1>2. CASE ClearCompleted
  <2>1. \A u \in Tasks : row'[u] = row[u] \/ row'[u] = "none"
    BY <1>2 DEF ClearCompleted
  <2>2. \A u \in WebIds : /\ prescan'[u].on => prescan[u].on
                          /\ prescan[u].on /\ row'[u] = "waiting" => prescan'[u].on
    BY <1>2, WebTables, TaskIds DEF ClearCompleted
  <2> QED
    BY <1>1, <2>1, <2>2, ListsOwned
<1>3. ASSUME NEW t \in Tasks, Clear(t) PROVE Owned'
  <2>1. row' = [row EXCEPT ![t] = "none"]
        /\ prescan' = [u \in WebIds |-> IF u = t THEN NoPrescan ELSE prescan[u]]
    BY <1>3 DEF Clear
  <2>2. row'[t] = "none" /\ \A u \in Tasks : row'[u] = row[u] \/ row'[u] = "none"
    BY <2>1 DEF IInv, RunTypes
  <2>3. \A u \in WebIds : /\ prescan'[u].on => prescan[u].on
                          /\ prescan[u].on /\ row'[u] = "waiting" => prescan'[u].on
    BY <2>1, <2>2, WebTables
  <2> QED
    BY <1>1, <2>2, <2>3, ListsOwned
<1> QED
  BY <1>2, <1>3

LEMMA SelectOwned ==
  ASSUME IInv, Owned, NEW t \in WebIds,
         SelectAll(t) \/ DeleteSelected(t) \/ \E p \in Packages : Select(t, p)
  PROVE  Owned'
<1>1. UNCHANGED <<row, node, active, run, work, scan, scanNode, preview, slot, call>>
  BY DEF SelectAll, DeleteSelected, Select, runVars
<1>2. \A u \in WebIds : prescan'[u].on = prescan[u].on
  <2> USE DEF IInv, WebInv, WebTypes, Entries
  <2>1. CASE SelectAll(t)
    BY <2>1 DEF SelectAll
  <2>2. CASE DeleteSelected(t)
    BY <2>2 DEF DeleteSelected
  <2>3. CASE \E p \in Packages : Select(t, p)
    BY <2>3 DEF Select
  <2> QED
    BY <2>1, <2>2, <2>3
<1> QED
  BY <1>1, <1>2, ListsOwned

(* A request of a user of the Web console.                                 *)
LEMMA WebRequestOwned ==
  ASSUME IInv, Owned, WebRequest
  PROVE  Owned'
<1>1. CASE \E kind \in Kinds \ {"prescan"} : Submit(kind)
  BY <1>1, SubmitOwned
<1>2. ASSUME SubmitPrescan(FreeCaller) \/ (\E t \in WebIds : Confirm(FreeCaller, t))
               \/ \E t \in Tasks : Cancel(FreeCaller, t)
      PROVE  Owned'
  <2>1. PICK c \in Callers : c = FreeCaller
    BY FreeCallerType, WebAssumption
  <2> QED
    BY <1>2, <2>1, SubmitPrescanOwned, ConfirmOwned, CancelRequestOwned
<1>3. CASE (\E t \in Tasks : Clear(t)) \/ ClearCompleted
  BY <1>3, ClearOwned
<1>4. CASE \E t \in WebIds : SelectAll(t) \/ DeleteSelected(t) \/ \E p \in Packages : Select(t, p)
  BY <1>4, SelectOwned
<1> QED
  BY <1>1, <1>2, <1>3, <1>4 DEF WebRequest

-----------------------------------------------------------------------------
(* The bot, which has no rows of the Web.                                  *)
LEMMA WebUntouched ==
  ASSUME IInv, Owned, UNCHANGED <<scan, scanNode, preview, prescan, slot, call>>,
         \A u \in WebIds : row'[u] = row[u] /\ node'[u] = node[u],
         \A r \in Runs : run[r].at = "accepted" => run'[r] = run[r]
  PROVE  \A u \in WebIds : WebOwned(u)'
<1>1. ASSUME NEW u \in WebIds PROVE Still(u)
  <2>1. Pends(u) => Pends(u)'
    BY DEF Pends, Holds
  <2> QED
    BY <2>1 DEF Still
<1> QED
  BY <1>1, StillOwned DEF Owned

(* Steps that touch nothing of this.                                       *)
LEMMA BotRestOwned ==
  ASSUME IInv, Owned, UNCHANGED <<runVars, scan, scanNode, preview, prescan, slot, call>>
  PROVE  Owned'
<1>1. \A u \in WebIds : WebOwned(u)'
  BY WebUntouched DEF runVars
<1>2. /\ \A u \in WebIds : FreshNode(u)'
      /\ \A r \in Runs : KindKept(r)' /\ CommentOwned(r)' /\ RunOwned(r)'
  BY RunsSame DEF runVars
<1> QED
  BY <1>1, <1>2 DEF Owned

(* A stop of nodes of the bot.                                             *)
LEMMA StopTasksOwned ==
  ASSUME IInv, Owned, NEW ts \in SUBSET BotIds, StopTasks(ts),
         UNCHANGED <<scan, scanNode, preview, prescan, slot, call>>
  PROVE  Owned'
<1>1. /\ node' = [t \in Tasks |-> IF t \in ts THEN [node[t] EXCEPT !.stop = TRUE] ELSE node[t]]
      /\ UNCHANGED <<row, active, run, work>>
  BY DEF StopTasks
<1>2. \A u \in WebIds : node'[u] = node[u]
  BY <1>1, TaskIds
<1>3. \A u \in Tasks : SameNode(u)
  <2>1. \A u \in Tasks : node[u] \in Nodes
    BY DEF IInv, RunTypes
  <2> QED
    BY <1>1, <2>1 DEF SameNode, Nodes
<1>4. \A u \in WebIds : WebOwned(u)'
  BY <1>1, <1>2, WebUntouched
<1>5. /\ \A u \in WebIds : FreshNode(u)'
      /\ \A r \in Runs : KindKept(r)' /\ CommentOwned(r)' /\ RunOwned(r)'
  BY <1>1, <1>3, RunsStayOwned
<1> QED
  BY <1>4, <1>5 DEF Owned

(* A request of a user of the bot.                                         *)
LEMMA BotRequestOwned ==
  ASSUME IInv, Owned, BotRequest, UNCHANGED <<scan, scanNode, preview, prescan, slot, call>>
  PROVE  Owned'
<1>1. CASE StopTask \/ StopAll
  <2>1. PICK ts \in SUBSET BotIds : StopTasks(ts)
    BY <1>1 DEF StopTask, StopAll, IInv, RunTypes
  <2> QED
    BY <2>1, StopTasksOwned
<1>2. CASE ~(StopTask \/ StopAll)
  <2>1. UNCHANGED runVars
    BY <1>2 DEF BotRequest, StartPrescanMode, Link, Toggle, TapCancel, Tap
  <2> QED
    BY <2>1, BotRestOwned
<1> QED
  BY <1>1, <1>2

(* A new run of the bot has the number of no other one.                    *)
LEMMA BotStartOwned ==
  ASSUME IInv, Owned, NEW h \in Taps, NEW t \in BotIds, BotStart(h, t), UNCHANGED webVars
  PROVE  Owned'
<1>1. PICK r \in Runs : r = FreeRun /\ run[r].at = "free"
  BY FreeRunIsFree DEF BotStart
<1>2. PICK kind, sel : /\ kind = (IF tap[h].kind = "comment" THEN "comments" ELSE tap[h].kind)
                       /\ sel = tap[h].sel
  OBVIOUS
<1>3. /\ node' = [node EXCEPT ![t] = NewNode(TRUE)]
      /\ run' = [run EXCEPT ![r] = Scheduled(t, kind, Packages, sel)]
      /\ active' = active \union {t} /\ row' = [row EXCEPT ![t] = "downloading"]
      /\ work' = work /\ UNCHANGED <<scan, scanNode, preview, prescan, slot, call>>
  BY <1>1, <1>2 DEF BotStart, webVars
<1>4. t \in Tasks /\ t \notin WebIds /\ kind # "comment"
  BY <1>2, TaskIds
<1>5. \A u \in Tasks \ {t} : node'[u] = node[u] /\ row'[u] = row[u]
  BY <1>3 DEF IInv, RunTypes
<1>6. /\ \A u \in WebIds : FreshNode(u)'
      /\ \A q \in Runs : KindKept(q)' /\ CommentOwned(q)' /\ RunOwned(q)'
  BY <1>1, <1>3, <1>4, <1>5, NewRunOwned
<1>7. \A q \in Runs : run[q].at = "accepted" => run'[q] = run[q]
  BY <1>1, <1>3 DEF IInv, RunTypes
<1>8. \A u \in WebIds : WebOwned(u)'
  BY <1>3, <1>4, <1>5, <1>7, TaskIds, WebUntouched
<1> QED
  BY <1>6, <1>8 DEF Owned

(* A report closes no row of a batch that goes on.                         *)
LEMMA RemovedRow ==
  ASSUME NEW t, RemoveActive(t), RunTypes, t \in Tasks
  PROVE  /\ t \in active => row'[t] \notin Working
         /\ row'[t] \in Working => row'[t] = row[t]
         /\ row'[t] \in {"scanning", "waiting"} => row'[t] = row[t]
BY DEF RemoveActive, Complete, Snapshot, Terminal, Working, RunTypes

(* A report closes the row of a node whose files are all counted, which is *)
(* no batch.                                                               *)
LEMMA ReportOwned ==
  ASSUME IInv, Owned, NEW t \in BotIds, Report(t), UNCHANGED webVars
  PROVE  Owned'
<1>1. /\ t \in active /\ RemoveActive(t) /\ node[t].total > 0 /\ ~node[t].batch
      /\ UNCHANGED <<node, run, work, scan, scanNode, preview, prescan, slot, call>>
      /\ active' = active \ {t} /\ t \in Tasks /\ t \notin WebIds
  BY TaskIds DEF Report, webVars, RemoveActive
<1>2. row'[t] \notin Working /\ \A u \in Tasks \ {t} : row'[u] = row[u]
  BY <1>1, Removed, RemovedRow DEF IInv
<1>3. \A u \in WebIds : WebOwned(u)'
  BY <1>1, <1>2, TaskIds, WebUntouched
<1>4. (\A u : RunsOf(u)' = RunsOf(u)) /\ \A r \in Runs : WorkOf(r)' = WorkOf(r) /\ OnlyRun(r)' = OnlyRun(r)
  BY <1>1 DEF RunsOf, WorkOf, OnlyRun
<1>5. \A u \in WebIds : FreshNode(u)'
  BY <1>1, <1>4 DEF Owned, FreshNode
<1>6. ASSUME NEW r \in Runs, run[r].task # t
      PROVE  KindKept(r)' /\ CommentOwned(r)' /\ RunOwned(r)'
  <2>1. OnlyRun(r) => run[r].task \in Tasks \ {t}
    BY <1>6 DEF OnlyRun, IInv, RunInv, RunsConsistent
  <2>2. RunStays(r)
    BY <1>1, <1>2, <1>4, <2>1 DEF RunStays, SameNode
  <2> QED
    BY <2>2, StaysOwned DEF Owned
<1>7. ASSUME NEW r \in Runs, run[r].task = t
      PROVE  KindKept(r)' /\ CommentOwned(r)' /\ RunOwned(r)'
  <2>1. KindKept(r)' /\ CommentOwned(r)'
    BY <1>1, <1>4 DEF Owned, KindKept, CommentOwned, Passed, PackagesOf
  <2>2. ASSUME OnlyRun(r), run[r].kind = "prescan"
        PROVE  run[r].at \in {"closing", "over"}
    <3>1. run[r].at # "accepted" /\ run[r].at \notin InBatch
      BY <1>1, <1>7, <2>2 DEF IInv, RunInv, BotBatches
    <3> QED
      BY <2>2, <3>1 DEF IInv, RunTypes, RunInv, RunsConsistent, Steps, OnlyRun
  <2>3. RunOwned(r)'
    BY <1>1, <1>2, <1>4, <1>7, <2>2 DEF Owned, RunOwned, InBatch
  <2> QED
    BY <2>1, <2>3
<1> QED
  BY <1>3, <1>5, <1>6, <1>7 DEF Owned

(* A step of the bot.                                                      *)
LEMMA BotStepOwned ==
  ASSUME IInv, Owned, BotStep, UNCHANGED webVars
  PROVE  Owned'
<1>1. CASE (\E k \in Tokens : Previewed(k) \/ PreviewFails(k)) \/ (\E h \in Taps : TapFails(h)) \/ Sweep
  BY <1>1, BotRestOwned DEF Previewed, PreviewFails, TapFails, Sweep, webVars
<1>2. CASE \E h \in Taps, t \in BotIds : BotStart(h, t)
  BY <1>2, BotStartOwned
<1>3. CASE \E t \in BotIds : Report(t)
  BY <1>3, ReportOwned
<1> QED
  BY <1>1, <1>2, <1>3 DEF BotStep

-----------------------------------------------------------------------------
(* The process ends and starts again.                                      *)
LEMMA RestartOwned ==
  ASSUME IInv, Owned, Restart
  PROVE  Owned'
<1>1. /\ row' = [t \in Tasks |-> IF row[t] \in Terminal \union {"none"} THEN row[t]
                                 ELSE "interrupted"]
      /\ node' = [t \in Tasks |-> NewNode(FALSE)]
      /\ run' = [r \in Runs |-> IF run[r].at = "free" THEN NoRun
                                ELSE [run[r] EXCEPT !.at = "over", !.todo = {}]]
      /\ work' = [r \in Runs |-> [f \in DOMAIN work[r] |-> "none"]]
      /\ scan' = [t \in WebIds |-> IF scan[t].at = "none" THEN NoScan
                                   ELSE [scan[t] EXCEPT !.at = "over"]]
      /\ preview' = {} /\ prescan' = [t \in WebIds |-> NoPrescan]
      /\ call' = [c \in Callers |-> NoCall]
  BY DEF Restart
<1>2. \A t \in Tasks : /\ row'[t] \in Terminal \union {"none", "interrupted"}
                       /\ ~node'[t].batch /\ node'[t].counted = {}
  BY <1>1 DEF NewNode
<1>3. \A r \in Runs : /\ (run'[r] = NoRun /\ run[r].at = "free")
                         \/ (/\ run'[r].at = "over" /\ run'[r].kind = run[r].kind
                             /\ run'[r].task = run[r].task
                             /\ run'[r].next = run[r].next /\ run[r].at # "free")
                      /\ WorkOf(r)' = {}
  BY <1>1 DEF IInv, RunTypes, RunFields, WorkOf
<1>4. ASSUME NEW t \in WebIds PROVE WebOwned(t)' /\ FreshNode(t)'
  <2>1. scan'[t].at \in {"none", "over"}
    BY <1>1, WebTables DEF IInv, WebInv, WebTypes, Scans
  <2>2. ~prescan'[t].on /\ \A c \in Callers : ~Holds(c, t)'
    BY <1>1, WebTables DEF Holds
  <2>3. row'[t] \notin {"scanning", "waiting"}
    BY <1>2, TaskIds DEF Terminal
  <2>4. ScanOwned(t)' /\ OfferKept(t)' /\ WaitOwned(t)'
    BY <1>1, <2>1, <2>2, <2>3 DEF ScanOwned, OfferKept, WaitOwned
  <2>5. FreshNode(t)'
    BY <1>2, TaskIds DEF FreshNode
  <2> QED
    BY <2>4, <2>5 DEF WebOwned
<1>5. ASSUME NEW r \in Runs PROVE KindKept(r)' /\ CommentOwned(r)' /\ RunOwned(r)'
  <2>1. CASE run'[r] = NoRun
    BY <2>1, TaskIds DEF NoRun, KindKept, CommentOwned, RunOwned, OnlyRun
  <2>2. CASE run'[r] # NoRun
    <3>1. /\ run'[r].at = "over" /\ run'[r].kind = run[r].kind /\ run'[r].task = run[r].task
          /\ run'[r].next = run[r].next /\ run[r].at # "free" /\ WorkOf(r)' = {}
      BY <1>3, <2>2
    <3>2. PICK t \in Tasks : t = run[r].task
      BY <3>1 DEF IInv, RunInv, RunsConsistent
    <3>3. t \in WebIds => scan'[t].kind = scan[t].kind
      <4>1. t \in WebIds => scan[t].at = "over"
        BY <3>2 DEF IInv, WebInv, ScannedFirst, Offers
      <4> QED
        BY <1>1, <4>1 DEF IInv, WebInv, WebTypes, Scans
    <3>4. KindKept(r)'
      BY <3>1, <3>2, <3>3 DEF Owned, KindKept
    <3>5. RunOwned(r)'
      BY <1>2, <3>1, <3>2 DEF RunOwned, InBatch, Terminal, Working
    <3>6. OnlyRun(r)' => OnlyRun(r)
      <4>1. \A q \in Runs : run[q].task = t => run'[q].task = t
        <5>1. t # 0
          BY TaskIds
        <5>2. \A q \in Runs : run[q].task = t => run[q].at # "free"
          BY <5>1 DEF IInv, RunInv, RunsConsistent
        <5> QED
          BY <5>2, <1>3
      <4>2. RunsOf(t) \subseteq RunsOf(t)' /\ r \in RunsOf(t)
        BY <4>1, <3>2 DEF RunsOf
      <4> QED
        BY <3>1, <3>2, <4>2 DEF OnlyRun
    <3>7. CommentOwned(r)'
      BY <1>2, <3>1, <3>2, <3>6 DEF Owned, CommentOwned
    <3> QED
      BY <3>4, <3>5, <3>7
  <2> QED
    BY <2>1, <2>2
<1> QED
  BY <1>4, <1>5 DEF Owned

-----------------------------------------------------------------------------
(* The runs. When as many files of the package are counted as it has, none *)
(* of them is left.                                                        *)
LEMMA AllCountedAllOver ==
  ASSUME NEW counted, NEW left, left \subseteq FilesOf(LinkPackage),
         counted \subseteq FilesOf(LinkPackage) \ left,
         Cardinality(counted) >= Media[LinkPackage]
  PROVE  left = {}
<1> DEFINE n == Media[LinkPackage]
           files == FilesOf(LinkPackage)
           pid == {LinkPackage}
           idx == 1 .. n
<1>1. n \in Nat
  BY RunAssumption, WebAssumption
<1>2. IsFiniteSet(idx) /\ Cardinality(idx) = n
  BY <1>1, FS_Interval
<1>3. IsFiniteSet(pid) /\ Cardinality(pid) = 1
  BY FS_Singleton
<1>4. files = pid \X idx
  BY DEF FilesOf
<1> HIDE DEF files, pid, idx, n
<1>5. IsFiniteSet(files) /\ Cardinality(files) = n
  <2>1. IsFiniteSet(pid \X idx) /\ Cardinality(pid \X idx) = Cardinality(pid) * Cardinality(idx)
    BY <1>2, <1>3, FS_Product
  <2> QED
    BY <1>1, <1>2, <1>3, <1>4, <2>1
<1>6. ASSUME NEW f \in left PROVE FALSE
  <2>1. f \in files /\ counted \subseteq files \ {f}
    BY <1>6 DEF files
  <2>2. IsFiniteSet(files \ {f}) /\ Cardinality(files \ {f}) = Cardinality(files) - 1
    BY <1>5, <2>1, FS_RemoveElement
  <2>3. Cardinality(counted) <= Cardinality(files \ {f}) /\ IsFiniteSet(counted)
    BY <2>1, <2>2, FS_Subset
  <2>4. Cardinality(counted) \in Nat
    BY <2>3, FS_CardinalityType
  <2> QED
    BY <1>1, <1>5, <2>2, <2>3, <2>4 DEF n
<1> QED
  BY <1>6

(* A step of r, the task of which is t, tells on nothing else.             *)
LEMMA OneRunOwned ==
  ASSUME IInv, Owned, NEW r \in Runs, NEW t \in Tasks, t = run[r].task,
         \A q \in Runs : /\ run'[q].task = run[q].task /\ run'[q].kind = run[q].kind
                         /\ q # r => run'[q] = run[q] /\ WorkOf(q)' = WorkOf(q),
         \A u \in Tasks \ {t} : /\ node'[u] = node[u] /\ row'[u] = row[u]
                                /\ u \in active => u \in active',
         UNCHANGED webVars,
         t \in WebIds /\ row'[t] \in {"scanning", "waiting"} =>
           /\ row'[t] = row[t] /\ node'[t].stop = node[t].stop
           /\ run[r].at = "accepted" => run'[r] = run[r],
         run'[r].kind # "prescan" => run'[r].at \notin {"between", "closing"},
         CommentOwned(r)', RunOwned(r)'
  PROVE  Owned'
<1>1. \A u : RunsOf(u)' = RunsOf(u)
  BY DEF RunsOf
<1>2. r \in RunsOf(t)
  BY DEF RunsOf
<1>3. \A u \in WebIds : FreshNode(u)'
  <2> SUFFICES ASSUME NEW u \in WebIds, RunsOf(u) = {}
               PROVE  ~node'[u].batch /\ node'[u].counted = {}
    BY <1>1 DEF FreshNode
  <2>1. u \in Tasks \ {t}
    BY <1>2, TaskIds
  <2> QED
    BY <2>1 DEF Owned, FreshNode
<1>4. KindKept(r)'
  BY DEF Owned, KindKept, webVars
<1>5. ASSUME NEW q \in Runs, q # r PROVE KindKept(q)' /\ CommentOwned(q)' /\ RunOwned(q)'
  <2>1. run'[q] = run[q] /\ WorkOf(q)' = WorkOf(q)
    BY <1>5
  <2>2. ASSUME OnlyRun(q)' PROVE OnlyRun(q) /\ run[q].task \in Tasks \ {t}
    <3>1. OnlyRun(q)
      BY <1>1, <2>1, <2>2 DEF OnlyRun
    <3>2. run[q].task # t
      BY <1>2, <1>5, <3>1 DEF OnlyRun
    <3>3. run[q].task \in Tasks
      BY <3>1 DEF OnlyRun, IInv, RunInv, RunsConsistent
    <3> QED
      BY <3>1, <3>2, <3>3
  <2>3. RunStays(q)
    BY <2>1, <2>2 DEF RunStays, SameNode, webVars
  <2> QED
    BY <2>3, StaysOwned DEF Owned
<1>6. ASSUME NEW u \in WebIds PROVE Still(u)
  <2>1. \A c \in Callers : Holds(c, u)' = Holds(c, u)
    BY DEF Holds, webVars
  <2>2. \A q \in Runs : run[q].task = u /\ run[q].at = "accepted" /\ row'[u] = "waiting"
                          => run'[q] = run[q]
    OBVIOUS
  <2>3. row'[u] = "waiting" /\ Pends(u) => Pends(u)'
    BY <2>1, <2>2 DEF Pends, webVars
  <2>4. row'[u] \in {"scanning", "waiting"} => row'[u] = row[u] /\ node'[u].stop = node[u].stop
    BY TaskIds
  <2> QED
    BY <2>1, <2>3, <2>4 DEF Still, webVars
<1>7. \A u \in WebIds : WebOwned(u)'
  BY <1>6, StillOwned DEF Owned
<1> QED
  BY <1>3, <1>4, <1>5, <1>7, <1>1 DEF Owned

(* What is known of a run at its step.                                     *)
LEMMA AtStep ==
  ASSUME IInv, Owned, NEW r \in Runs, Alive(r)
  PROVE  /\ run[r].task \in Tasks
         /\ run[r].at \in {"between", "closing"} => run[r].kind = "prescan"
         /\ run[r].at = "accepted" => WorkOf(r) = {}
         /\ run[r].at = "fetching" => run[r].kind # "prescan"
         /\ run[r].at = "closing" /\ OnlyRun(r) => WorkOf(r) = {}
         /\ run[r].kind = "prescan" /\ OnlyRun(r) /\ run[r].at \in InBatch => node[run[r].task].batch
         /\ run[r].kind = "comment" => run[r].task \in WebIds
         /\ DOMAIN run = Runs /\ DOMAIN run[r] = RunFields
<1>1. RunsConsistent /\ BatchConsistent /\ KindKept(r)
  BY DEF IInv, RunInv, Owned
<1> QED
  BY <1>1 DEF RunsConsistent, BatchConsistent, KindKept, Alive, IInv, RunTypes

(* What a step of r does to the runs.                                      *)
StepTo(r, new) ==
  /\ run' = [run EXCEPT ![r] = new]
  /\ new.task = run[r].task /\ new.kind = run[r].kind
  /\ new.offered = run[r].offered /\ new.sel = run[r].sel
  /\ new.at # "free"

(* Such a step leaves the other runs alone.                                *)
LEMMA StepRuns ==
  ASSUME IInv, NEW r \in Runs, Alive(r), NEW new, StepTo(r, new)
  PROVE  /\ run'[r] = new
         /\ \A q \in Runs : /\ run'[q].task = run[q].task /\ run'[q].kind = run[q].kind
                            /\ q # r => run'[q] = run[q]
         /\ OnlyRun(r)' = OnlyRun(r) /\ PackagesOf(r)' = PackagesOf(r)
<1>1. /\ run'[r] = new
      /\ \A q \in Runs : /\ run'[q].task = run[q].task /\ run'[q].kind = run[q].kind
                         /\ q # r => run'[q] = run[q]
  BY DEF StepTo, IInv, RunTypes
<1>2. \A u : RunsOf(u)' = RunsOf(u)
  BY <1>1 DEF RunsOf
<1>3. OnlyRun(r)' = OnlyRun(r) /\ PackagesOf(r)' = PackagesOf(r)
  BY <1>1, <1>2 DEF OnlyRun, PackagesOf, StepTo, Alive
<1> QED
  BY <1>1, <1>3

(* A run begins with the row that waited for it, or ends with the row      *)
(* closed.                                                                 *)
LEMMA BeginRunOwned ==
  ASSUME IInv, Owned, NEW r \in Runs, BeginRun(r), UNCHANGED webVars
  PROVE  Owned'
<1>1. PICK t \in Tasks : /\ t = run[r].task /\ run[r].at = "accepted" /\ WorkOf(r) = {}
                         /\ DOMAIN run = Runs /\ DOMAIN run[r] = RunFields
                         /\ run[r].kind = "comment" => t \in WebIds
                         /\ Alive(r) /\ work' = work
  BY AtStep DEF BeginRun, Alive
<1>2. /\ \A q \in Runs : WorkOf(q)' = WorkOf(q)
      /\ KindKept(r) /\ CommentOwned(r) /\ RunOwned(r)
  BY <1>1 DEF WorkOf, Owned
<1>3. CASE t \in WebIds /\ ~CanUpdate(t, "queued")
  <2>1. PICK new : new = [run[r] EXCEPT !.at = "over"]
    OBVIOUS
  <2>2. run' = [run EXCEPT ![r] = new] /\ UNCHANGED <<row, node, active>>
    BY <1>1, <1>3, <2>1 DEF BeginRun
  <2>3. new.at = "over" /\ new.next = run[r].next /\ new.kind = run[r].kind /\ StepTo(r, new)
        /\ new.task = t
    BY <1>1, <2>1, <2>2 DEF StepTo, RunFields
  <2>4. /\ run'[r] = new /\ OnlyRun(r)' = OnlyRun(r)
        /\ \A q \in Runs : /\ run'[q].task = run[q].task /\ run'[q].kind = run[q].kind
                           /\ q # r => run'[q] = run[q]
    BY <1>1, <2>3, StepRuns
  <2>5. row[t] \in Terminal
    BY <1>3 DEF CanUpdate, Allowed, IInv, RunTypes, RowStatus, Working
  <2>6. CommentOwned(r)'
    BY <1>1, <1>2, <2>2, <2>3, <2>4 DEF CommentOwned, Passed
  <2>7. RunOwned(r)'
    BY <1>1, <1>2, <2>2, <2>3, <2>4, <2>5 DEF RunOwned, InBatch, Terminal, Working
  <2> QED
    BY <1>1, <1>2, <2>2, <2>3, <2>4, <2>5, <2>6, <2>7, OneRunOwned DEF Terminal
<1>4. CASE ~(t \in WebIds /\ ~CanUpdate(t, "queued"))
  <2>1. PICK first, todo, pkg, new :
          /\ first = FirstStep(r) /\ todo = PackagesOf(r) /\ pkg = FirstPackage(r)
          /\ new = [run[r] EXCEPT !.at = first, !.todo = todo, !.pkg = pkg, !.next = 1]
    OBVIOUS
  <2>2. /\ run' = [run EXCEPT ![r] = new]
        /\ row' = IF t \in WebIds THEN [row EXCEPT ![t] = Updated(t, "queued")] ELSE row
        /\ active' = active \union (IF t \in WebIds THEN {t} ELSE {})
        /\ node' = IF run[r].kind = "prescan" THEN [node EXCEPT ![t].batch = TRUE] ELSE node
    BY <1>1, <1>4, <2>1 DEF BeginRun
  <2>3. /\ first \in {"between", "listing", "fetching"}
        /\ first = "between" => run[r].kind = "prescan"
    BY <2>1 DEF FirstStep
  <2>4. /\ new.at = first /\ new.next = 1 /\ new.kind = run[r].kind /\ new.pkg = pkg
        /\ new.task = t /\ StepTo(r, new)
    BY <1>1, <2>1, <2>2, <2>3 DEF StepTo, RunFields
  <2>5. /\ run'[r] = new /\ OnlyRun(r)' = OnlyRun(r)
        /\ \A q \in Runs : /\ run'[q].task = run[q].task /\ run'[q].kind = run[q].kind
                           /\ q # r => run'[q] = run[q]
    BY <1>1, <2>4, StepRuns
  <2>6. /\ \A u \in Tasks \ {t} : node'[u] = node[u] /\ row'[u] = row[u]
        /\ t \in WebIds => row'[t] \in {"none", "queued"} /\ t \in active'
        /\ t \notin WebIds => row' = row /\ t \in BotIds
        /\ run[r].kind # "prescan" => node' = node
        /\ active \subseteq active'
    BY <2>2 DEF IInv, RunTypes, Updated, Tasks
  <2>7. CommentOwned(r)'
    <3> SUFFICES ASSUME run[r].kind = "comment", OnlyRun(r)
                 PROVE  /\ pkg = LinkPackage /\ node'[t].counted = {}
      BY <1>1, <1>2, <2>3, <2>4, <2>5 DEF CommentOwned, Passed
    <3>1. PackagesOf(r) = {LinkPackage} /\ node[t].counted = {}
      BY <1>1, <1>2 DEF CommentOwned
    <3>2. pkg = LinkPackage
      BY <2>1, <3>1, RunAssumption, WebAssumption DEF FirstPackage, Min
    <3> QED
      BY <2>6, <3>1, <3>2
  <2>8. RunOwned(r)'
    BY <1>1, <1>2, <2>3, <2>4, <2>5, <2>6 DEF RunOwned, InBatch
  <2> QED
    BY <1>1, <1>2, <2>3, <2>4, <2>5, <2>6, <2>7, <2>8, OneRunOwned
<1> QED
  BY <1>3, <1>4

LEMMA BeginPackageOwned ==
  ASSUME IInv, Owned, NEW r \in Runs, BeginPackage(r), UNCHANGED webVars
  PROVE  Owned'
<1>1. PICK t \in Tasks : /\ t = run[r].task /\ run[r].at = "between" /\ run[r].kind = "prescan"
                         /\ DOMAIN run = Runs /\ DOMAIN run[r] = RunFields
                         /\ Alive(r) /\ UNCHANGED <<row, node, active, work>>
  BY AtStep DEF BeginPackage, Alive
<1>2. PICK first, new : /\ first = Min(run[r].todo)
                        /\ new = [run[r] EXCEPT !.at = "listing", !.pkg = first, !.next = 1,
                                                !.todo = run[r].todo \ {first}]
  OBVIOUS
<1>3. /\ run' = [run EXCEPT ![r] = new] /\ new.at = "listing" /\ new.kind = "prescan"
      /\ new.task = t /\ StepTo(r, new)
  BY <1>1, <1>2 DEF BeginPackage, StepTo, RunFields
<1>4. /\ run'[r] = new /\ OnlyRun(r)' = OnlyRun(r)
      /\ \A q \in Runs : /\ run'[q].task = run[q].task /\ run'[q].kind = run[q].kind
                         /\ q # r => run'[q] = run[q]
  BY <1>1, <1>3, StepRuns
<1>5. \A q \in Runs : WorkOf(q)' = WorkOf(q)
  BY <1>1 DEF WorkOf
<1>6. CommentOwned(r)' /\ RunOwned(r)'
  BY <1>1, <1>3, <1>4 DEF Owned, CommentOwned, RunOwned, InBatch
<1> QED
  BY <1>1, <1>3, <1>4, <1>5, <1>6, OneRunOwned

LEMMA EndPackagesOwned ==
  ASSUME IInv, Owned, NEW r \in Runs, EndPackages(r), UNCHANGED webVars
  PROVE  Owned'
<1>1. PICK t \in Tasks : /\ t = run[r].task /\ run[r].at = "between" /\ run[r].kind = "prescan"
                         /\ DOMAIN run = Runs /\ DOMAIN run[r] = RunFields
                         /\ Alive(r) /\ UNCHANGED <<row, active, work>>
  BY AtStep DEF EndPackages, Alive
<1>2. PICK new : new = [run[r] EXCEPT !.at = "closing"]
  OBVIOUS
<1>3. /\ run' = [run EXCEPT ![r] = new] /\ new.at = "closing" /\ new.kind = "prescan"
      /\ new.task = t /\ StepTo(r, new)
  BY <1>1, <1>2 DEF EndPackages, StepTo, RunFields
<1>4. /\ run'[r] = new /\ OnlyRun(r)' = OnlyRun(r)
      /\ \A q \in Runs : /\ run'[q].task = run[q].task /\ run'[q].kind = run[q].kind
                         /\ q # r => run'[q] = run[q]
  BY <1>1, <1>3, StepRuns
<1>5. \A q \in Runs : WorkOf(q)' = WorkOf(q)
  BY <1>1 DEF WorkOf
<1>6. node'[t].stop = node[t].stop /\ \A u \in Tasks \ {t} : node'[u] = node[u]
  BY <1>1 DEF EndPackages, IInv, RunTypes, Nodes
<1>7. CommentOwned(r)' /\ RunOwned(r)'
  BY <1>1, <1>3, <1>4 DEF Owned, CommentOwned, RunOwned, InBatch
<1> QED
  BY <1>1, <1>3, <1>4, <1>5, <1>6, <1>7, OneRunOwned

(* A run is over: it has closed its row, or the row was closed, and what   *)
(* is left of its files is that of a stop.                                 *)
LEMMA RunCloses ==
  ASSUME IInv, Owned, NEW r \in Runs, Alive(r), run[r].at # "accepted", NEW t \in Tasks,
         t = run[r].task,
         run' = [run EXCEPT ![r].at = "over"], RemoveActive(t), UNCHANGED <<node, work, webVars>>,
         OnlyRun(r) /\ (t \in WebIds \/ run[r].kind = "prescan") =>
           /\ t \in active \/ row[t] \notin Working
           /\ WorkOf(r) = {} \/ node[t].stop
  PROVE  Owned'
<1>1. DOMAIN run = Runs /\ DOMAIN run[r] = RunFields
  BY DEF IInv, RunTypes
<1>2. PICK new : new = [run[r] EXCEPT !.at = "over"]
  OBVIOUS
<1>3. /\ run' = [run EXCEPT ![r] = new] /\ new.at = "over" /\ new.kind = run[r].kind
      /\ new.task = t /\ new.next = run[r].next /\ StepTo(r, new)
  BY <1>1, <1>2 DEF StepTo, RunFields
<1>4. /\ run'[r] = new /\ OnlyRun(r)' = OnlyRun(r)
      /\ \A q \in Runs : /\ run'[q].task = run[q].task /\ run'[q].kind = run[q].kind
                         /\ q # r => run'[q] = run[q]
  BY <1>3, StepRuns
<1>5. \A q \in Runs : WorkOf(q)' = WorkOf(q)
  BY DEF WorkOf
<1>6. /\ t \in active => row'[t] \notin Working
      /\ row'[t] \in Working => row'[t] = row[t]
      /\ row'[t] \in {"scanning", "waiting"} => row'[t] = row[t]
      /\ \A u \in Tasks \ {t} : row'[u] = row[u] /\ (u \in active => u \in active')
  BY RemovedRow, Removed DEF IInv, RemoveActive
<1>7. CommentOwned(r)'
  BY <1>3, <1>4, <1>5 DEF Owned, CommentOwned, Passed
<1>8. RunOwned(r)'
  BY <1>3, <1>4, <1>5, <1>6 DEF Owned, RunOwned, InBatch
<1> QED
  BY <1>3, <1>4, <1>5, <1>6, <1>7, <1>8, OneRunOwned

(* The end of a batch closes its row.                                      *)
LEMMA CloseRunOwned ==
  ASSUME IInv, Owned, NEW r \in Runs, CloseRun(r), UNCHANGED webVars
  PROVE  Owned'
<1>1. PICK t \in Tasks : /\ t = run[r].task /\ run[r].at = "closing"
                         /\ OnlyRun(r) => WorkOf(r) = {}
                         /\ Alive(r) /\ UNCHANGED <<node, work>> /\ RemoveActive(t)
                         /\ run' = [run EXCEPT ![r].at = "over"]
  BY AtStep DEF CloseRun, Alive
<1>2. RunOwned(r)
  BY DEF Owned
<1> QED
  BY <1>1, <1>2, RunCloses DEF RunOwned

(* A run goes on in the same package.                                      *)
LEMMA RunGoesOn ==
  ASSUME IInv, Owned, NEW r \in Runs, Alive(r), NEW t \in Tasks, t = run[r].task,
         run[r].at \in InBatch \union {"fetching"}, NEW to \in InBatch,
         to = "between" => run[r].kind = "prescan",
         run' = [run EXCEPT ![r].at = to], UNCHANGED <<row, node, active, work, webVars>>
  PROVE  Owned'
<1>1. DOMAIN run = Runs /\ DOMAIN run[r] = RunFields
  BY DEF IInv, RunTypes
<1>2. PICK new : new = [run[r] EXCEPT !.at = to]
  OBVIOUS
<1>3. /\ run' = [run EXCEPT ![r] = new] /\ new.at = to /\ new.kind = run[r].kind
      /\ new.task = t /\ new.next = run[r].next /\ new.pkg = run[r].pkg /\ StepTo(r, new)
  BY <1>1, <1>2 DEF StepTo, RunFields, InBatch
<1>4. /\ run'[r] = new /\ OnlyRun(r)' = OnlyRun(r)
      /\ \A q \in Runs : /\ run'[q].task = run[q].task /\ run'[q].kind = run[q].kind
                         /\ q # r => run'[q] = run[q]
  BY <1>3, StepRuns
<1>5. \A q \in Runs : WorkOf(q)' = WorkOf(q)
  BY DEF WorkOf
<1>6. CommentOwned(r)'
  BY <1>3, <1>4, <1>5 DEF Owned, CommentOwned, Passed, InBatch
<1>7. RunOwned(r)'
  BY <1>3, <1>4, <1>5 DEF Owned, RunOwned, InBatch
<1> QED
  BY <1>3, <1>4, <1>5, <1>6, <1>7, OneRunOwned DEF InBatch

LEMMA FetchCommentsOwned ==
  ASSUME IInv, Owned, NEW r \in Runs, FetchComments(r), UNCHANGED webVars
  PROVE  Owned'
<1>1. PICK t \in Tasks : /\ t = run[r].task /\ run[r].at = "fetching" /\ Alive(r)
                         /\ UNCHANGED <<node, work>>
  BY AtStep DEF FetchComments, Alive
<1>2. CASE run' = [run EXCEPT ![r].at = "listing"] /\ UNCHANGED <<row, active>>
  BY <1>1, <1>2, RunGoesOn DEF InBatch
<1>3. CASE RemoveActive(t) /\ run' = [run EXCEPT ![r].at = "over"]
  <2>1. RunOwned(r)
    BY DEF Owned
  <2> QED
    BY <1>1, <1>3, <2>1, RunCloses DEF RunOwned
<1> QED
  BY <1>1, <1>2, <1>3 DEF FetchComments

(* A run of comments ends when all its files are counted, or stopped: none *)
(* of them is under way then, unless it was stopped.                       *)
LEMMA EndWaitOwned ==
  ASSUME IInv, Owned, NEW r \in Runs, EndWait(r), UNCHANGED webVars
  PROVE  Owned'
<1>1. PICK t \in Tasks : /\ t = run[r].task /\ run[r].at = "waiting" /\ Alive(r)
                         /\ UNCHANGED <<node, work>>
  BY AtStep DEF EndWait, Alive
<1>2. CASE ~IsComment(r)
  <2>1. run' = [run EXCEPT ![r].at = "joining"] /\ UNCHANGED <<row, active>>
    BY <1>2 DEF EndWait
  <2> QED
    BY <1>1, <2>1, RunGoesOn DEF InBatch
<1>3. CASE IsComment(r)
  <2>1. RemoveActive(t) /\ run' = [run EXCEPT ![r].at = "over"]
    BY <1>1, <1>3 DEF EndWait
  <2>2. RunOwned(r) /\ CommentOwned(r) /\ KindKept(r)
    BY DEF Owned
  <2>3. ASSUME OnlyRun(r), t \in WebIds \/ run[r].kind = "prescan", ~node[t].stop
        PROVE  WorkOf(r) = {}
    <3>1. run[r].kind = "comment"
      <4>1. run[r].kind \in {"comment", "comments"}
        BY <1>3 DEF IsComment
      <4>2. t \in WebIds
        BY <4>1, <2>3
      <4>3. run[r].kind \in {"none"} \union Kinds
        BY <1>1, <2>2, <4>2 DEF KindKept, IInv, WebInv, WebTypes, Scans
      <4> QED
        BY <4>1, <4>3 DEF Kinds
    <3>2. /\ run[r].pkg = LinkPackage /\ WorkOf(r) \subseteq FilesOf(LinkPackage)
          /\ node[t].counted \subseteq FilesOf(LinkPackage) \ WorkOf(r)
      BY <1>1, <2>2, <2>3, <3>1 DEF CommentOwned, Passed
    <3>3. Cardinality(node[t].counted) >= Media[LinkPackage]
      BY <1>1, <1>3, <2>3, <3>2 DEF EndWait, ResultsIn, Counted
    <3>4. PICK counted, left : counted = node[t].counted /\ left = WorkOf(r)
      OBVIOUS
    <3> QED
      BY <3>2, <3>3, <3>4, AllCountedAllOver
  <2> QED
    BY <1>1, <2>1, <2>2, <2>3, RunCloses DEF RunOwned, InBatch
<1> QED
  BY <1>2, <1>3

(* A run that has waited for the whole queue has no file under way.        *)
LEMMA JoinOwned ==
  ASSUME IInv, Owned, NEW r \in Runs, Join(r), UNCHANGED webVars
  PROVE  Owned'
<1>1. PICK t \in Tasks : /\ t = run[r].task /\ run[r].at = "joining" /\ Alive(r)
                         /\ UNCHANGED <<node, work>> /\ WorkOf(r) = {}
                         /\ run[r].kind = "prescan" /\ OnlyRun(r) => node[t].batch
  BY AtStep DEF Join, Alive, InBatch
<1>2. PICK to \in {"between", "over"} :
        to = (IF run[r].kind = "prescan" THEN "between" ELSE "over")
  OBVIOUS
<1>3. run' = [run EXCEPT ![r].at = to]
  BY <1>2 DEF Join
<1>4. RunOwned(r)
  BY DEF Owned
<1>5. CASE run[r].kind = "prescan" /\ node[t].batch
  <2>1. UNCHANGED <<row, active>> /\ to = "between"
    BY <1>1, <1>2, <1>5 DEF Join
  <2> QED
    BY <1>1, <1>3, <1>5, <2>1, RunGoesOn DEF InBatch
<1>6. CASE run[r].kind # "prescan" /\ ~node[t].batch
  <2>1. RemoveActive(t) /\ run' = [run EXCEPT ![r].at = "over"]
    BY <1>1, <1>2, <1>3, <1>6 DEF Join
  <2> QED
    BY <1>1, <1>4, <2>1, RunCloses DEF RunOwned, InBatch
<1>7. CASE ~(OnlyRun(r) /\ (t \in WebIds \/ run[r].kind = "prescan"))
  <2>1. DOMAIN run = Runs /\ DOMAIN run[r] = RunFields
    BY DEF IInv, RunTypes
  <2>2. PICK new : new = [run[r] EXCEPT !.at = to]
    OBVIOUS
  <2>3. /\ run' = [run EXCEPT ![r] = new] /\ new.at = to /\ new.kind = run[r].kind
        /\ new.task = t /\ StepTo(r, new)
    BY <1>1, <1>2, <1>3, <2>1, <2>2 DEF StepTo, RunFields
  <2>4. /\ run'[r] = new /\ OnlyRun(r)' = OnlyRun(r)
        /\ \A q \in Runs : /\ run'[q].task = run[q].task /\ run'[q].kind = run[q].kind
                           /\ q # r => run'[q] = run[q]
    BY <1>1, <2>3, StepRuns
  <2>5. \A q \in Runs : WorkOf(q)' = WorkOf(q)
    BY <1>1 DEF WorkOf
  <2>6. /\ row'[t] \in {"scanning", "waiting"} => row'[t] = row[t]
        /\ \A u \in Tasks \ {t} : row'[u] = row[u] /\ (u \in active => u \in active')
    <3>1. CASE UNCHANGED <<row, active>>
      BY <3>1
    <3>2. CASE RemoveActive(t)
      BY <3>2, RemovedRow, Removed DEF IInv, RemoveActive
    <3> QED
      BY <1>1, <3>1, <3>2 DEF Join
  <2>7. RunOwned(r)'
    BY <1>1, <1>7, <2>3, <2>4 DEF RunOwned
  <2>8. CommentOwned(r)'
    BY <1>1, <1>7, <2>3, <2>4 DEF CommentOwned, Owned, KindKept
  <2> QED
    BY <1>1, <1>2, <2>3, <2>4, <2>5, <2>6, <2>7, <2>8, OneRunOwned
<1>8. OnlyRun(r) /\ run[r].kind # "prescan" /\ t \in WebIds => ~node[t].batch
  BY <1>1, <1>4 DEF RunOwned
<1> QED
  BY <1>1, <1>5, <1>6, <1>7, <1>8

(* Counting a file of r up: it joins what is left, and is not counted.     *)
LEMMA EnqueueOwned ==
  ASSUME IInv, Owned, NEW r \in Runs, Enqueue(r), UNCHANGED webVars
  PROVE  Owned'
<1>1. PICK t \in Tasks : /\ t = run[r].task /\ run[r].at = "listing" /\ Alive(r)
                         /\ run[r].kind = "comment" => t \in WebIds
                         /\ DOMAIN run = Runs /\ DOMAIN run[r] = RunFields
  BY AtStep DEF Enqueue, Alive
<1>2. PICK f, pkg, next, to, new :
        /\ pkg = run[r].pkg /\ next = run[r].next /\ f = <<pkg, next>>
        /\ to = (IF next = Media[pkg] THEN "waiting" ELSE "listing")
        /\ new = [run[r] EXCEPT !.next = next + 1, !.at = to]
  OBVIOUS
<1>3. /\ row' = [row EXCEPT ![t] = Safe(Snapshot(t), "queued")]
      /\ node' = [node EXCEPT ![t].total = @ + 1, ![t].ended = @ \ {f}]
      /\ work' = [work EXCEPT ![r][f] = "queued"]
      /\ run' = [run EXCEPT ![r] = new]
      /\ active' = active
  BY <1>1, <1>2 DEF Enqueue
<1>4. /\ to \in {"waiting", "listing"} /\ new.at = to /\ new.next = next + 1 /\ new.kind = run[r].kind
      /\ new.task = t /\ new.pkg = pkg /\ StepTo(r, new)
  BY <1>1, <1>2, <1>3 DEF StepTo, RunFields
<1>5. /\ run'[r] = new /\ OnlyRun(r)' = OnlyRun(r)
      /\ \A q \in Runs : /\ run'[q].task = run[q].task /\ run'[q].kind = run[q].kind
                         /\ q # r => run'[q] = run[q]
  BY <1>1, <1>4, StepRuns
<1>6. work \in [Runs -> [AllFiles -> {"none", "queued", "busy"}]]
  BY DEF IInv, RunTypes
<1>7. /\ \A q \in Runs \ {r} : WorkOf(q)' = WorkOf(q)
      /\ WorkOf(r)' \subseteq WorkOf(r) \union ({f} \intersect AllFiles)
  BY <1>3, <1>6 DEF WorkOf
<1>8. /\ \A u \in Tasks \ {t} : node'[u] = node[u] /\ row'[u] = row[u]
      /\ node'[t].batch = node[t].batch /\ node'[t].counted = node[t].counted
      /\ node'[t].stop = node[t].stop
  <2>1. node \in [Tasks -> Nodes]
    BY DEF IInv, RunTypes
  <2>2. PICK total, ended : total = node[t].total + 1 /\ ended = node[t].ended \ {f}
    OBVIOUS
  <2>3. node' = [node EXCEPT ![t] = [node[t] EXCEPT !.total = total, !.ended = ended]]
    BY <1>3, <2>1, <2>2
  <2> QED
    BY <1>3, <2>1, <2>3 DEF Nodes, IInv, RunTypes
<1>9. row'[t] \notin {"scanning", "waiting"}
  BY <1>3 DEF Safe, Terminal, IInv, RunTypes
<1>12. /\ active' = active /\ run'[r].task = t /\ run'[r].kind = run[r].kind
       /\ run'[r].at \in {"waiting", "listing"} /\ run'[r].pkg = run[r].pkg
  BY <1>1, <1>2, <1>3, <1>4, <1>5
<1>10. RunOwned(r)'
  <2>1. RunOwned(r)
    BY DEF Owned
  <2> QED
    BY <1>1, <1>5, <1>8, <1>12, <2>1 DEF RunOwned, InBatch
<1>11. CommentOwned(r)'
  <2> SUFFICES ASSUME run[r].kind = "comment", OnlyRun(r)
               PROVE  LET passed == {g \in FilesOf(LinkPackage) : g[2] < next + 1} IN
                      /\ next + 1 \in Nat /\ pkg = LinkPackage
                      /\ WorkOf(r)' \subseteq passed
                      /\ node'[t].counted \subseteq passed \ WorkOf(r)'
    BY <1>1, <1>4, <1>5 DEF CommentOwned, Passed
  <2> DEFINE before == {g \in FilesOf(LinkPackage) : g[2] < next}
             passed == {g \in FilesOf(LinkPackage) : g[2] < next + 1}
  <2>1. /\ next \in Nat /\ pkg = LinkPackage /\ WorkOf(r) \subseteq before
        /\ node[t].counted \subseteq before \ WorkOf(r)
    BY <1>1, <1>2 DEF Owned, CommentOwned, Passed
  <2>2. \A g \in FilesOf(LinkPackage) : g[2] \in Nat
    BY RunAssumption, WebAssumption DEF FilesOf
  <2>3. before \subseteq passed /\ f \notin before
    BY <1>2, <2>1, <2>2
  <2>4. f \in AllFiles => f \in passed
    <3>1. f \in AllFiles => f \in FilesOf(LinkPackage)
      BY <1>2, <2>1 DEF AllFiles, FilesOf
    <3> QED
      BY <1>2, <2>1, <3>1
  <2> HIDE DEF before, passed
  <2>5. /\ WorkOf(r)' \subseteq passed
        /\ node'[t].counted \subseteq passed \ WorkOf(r)'
    BY <1>7, <1>8, <2>1, <2>3, <2>4
  <2> QED
    BY <2>1, <2>5 DEF passed
<1> QED
  BY <1>1, <1>5, <1>7, <1>8, <1>9, <1>10, <1>11, <1>12, OneRunOwned

(* A file of r that is left.                                               *)
LEMMA FileLeft ==
  ASSUME IInv, Owned, NEW r \in Runs, NEW t \in Tasks, t = run[r].task, WorkOf(r) # {}
  PROVE  /\ run[r].at # "accepted"
         /\ OnlyRun(r) /\ (t \in WebIds \/ run[r].kind = "prescan") =>
              /\ run[r].at \notin {"fetching", "closing"}
              /\ run[r].at = "over" => row[t] \notin Working /\ node[t].stop
<1>1. RunsConsistent /\ BatchConsistent /\ KindKept(r) /\ RunOwned(r)
  BY DEF IInv, RunInv, Owned
<1> QED
  BY <1>1 DEF RunsConsistent, BatchConsistent, KindKept, RunOwned

(* A worker opens no row that was stopped or closed.                       *)
LEMMA TakeFileOwned ==
  ASSUME IInv, Owned, NEW r \in Runs, NEW f \in AllFiles, TakeFile(r, f), UNCHANGED webVars
  PROVE  Owned'
<1>1. PICK to \in {"none", "busy"} : work' = [work EXCEPT ![r][f] = to]
  BY DEF TakeFile
<1>2. /\ work[r][f] = "queued" /\ UNCHANGED <<node, active, run>>
      /\ work \in [Runs -> [AllFiles -> {"none", "queued", "busy"}]]
  BY DEF TakeFile, IInv, RunTypes
<1>3. /\ \A q \in Runs \ {r} : WorkOf(q)' = WorkOf(q)
      /\ WorkOf(r)' \subseteq WorkOf(r) /\ WorkOf(r) # {}
  BY <1>1, <1>2 DEF WorkOf
<1>4. PICK t \in Tasks : t = run[r].task
  BY <1>3 DEF IInv, RunInv, RunsConsistent
<1>5. /\ \A u \in Tasks \ {t} : row'[u] = row[u]
      /\ row'[t] \in {"scanning", "waiting"} => row'[t] = row[t]
      /\ node[t].stop => row' = row
  <2>1. CASE node[t].stop
    BY <1>4, <2>1 DEF TakeFile
  <2>2. CASE ~node[t].stop
    <3>1. row' = [row EXCEPT ![t] = Safe(row[t], "downloading")]
      BY <1>4, <2>2 DEF TakeFile
    <3> QED
      BY <3>1, <2>2 DEF Safe, IInv, RunTypes
  <2> QED
    BY <2>1, <2>2
<1>6. OnlyRun(r)' = OnlyRun(r)
  BY <1>2 DEF OnlyRun, RunsOf
<1>7. CommentOwned(r)'
  BY <1>2, <1>3, <1>6 DEF Owned, CommentOwned, Passed, PackagesOf
<1>8. RunOwned(r)'
  <2>1. RunOwned(r)
    BY DEF Owned
  <2> QED
    BY <1>2, <1>3, <1>4, <1>5, <1>6, <2>1, FileLeft DEF RunOwned
<1>9. KindKept(r)
  BY DEF Owned
<1> QED
  BY <1>2, <1>3, <1>4, <1>5, <1>7, <1>8, <1>9, OneRunOwned DEF KindKept

(* The last file of a run that goes on.                                    *)
LEMMA EndFileOwned ==
  ASSUME IInv, Owned, NEW r \in Runs, NEW f \in AllFiles, EndFile(r, f), UNCHANGED webVars
  PROVE  Owned'
<1>1. /\ work[r][f] = "busy" /\ UNCHANGED <<active, run>>
      /\ work' = [work EXCEPT ![r][f] = "none"]
      /\ work \in [Runs -> [AllFiles -> {"none", "queued", "busy"}]]
  BY DEF EndFile, IInv, RunTypes
<1>2. /\ \A q \in Runs \ {r} : WorkOf(q)' = WorkOf(q)
      /\ WorkOf(r)' = WorkOf(r) \ {f} /\ f \in WorkOf(r)
  BY <1>1 DEF WorkOf
<1>3. PICK t \in Tasks : t = run[r].task
  BY <1>2 DEF IInv, RunInv, RunsConsistent
<1>4. PICK n : /\ node' = [node EXCEPT ![t] = n]
               /\ row' = [row EXCEPT ![t] = Safe(row[t], NodeStatus(n))] \/ row' = row
               /\ n.counted = node[t].counted \union {f}
               /\ n.batch = node[t].batch /\ n.stop = node[t].stop
  <2>1. PICK missing \in {{}, {f}} :
          LET n == [node[t] EXCEPT !.counted = @ \union {f}, !.ended = @ \union {f},
                                   !.missing = @ \union missing]
          IN /\ node' = [node EXCEPT ![t] = n]
             /\ row' = [row EXCEPT ![t] = Safe(row[t], NodeStatus(n))] \/ row' = row
    BY <1>3 DEF EndFile
  <2>2. PICK counted, ended, absent :
          counted = node[t].counted \union {f} /\ ended = node[t].ended \union {f}
          /\ absent = node[t].missing \union missing
    OBVIOUS
  <2>3. PICK n : n = [node[t] EXCEPT !.counted = counted, !.ended = ended, !.missing = absent]
    OBVIOUS
  <2>4. /\ node' = [node EXCEPT ![t] = n]
        /\ row' = [row EXCEPT ![t] = Safe(row[t], NodeStatus(n))] \/ row' = row
    BY <2>1, <2>2, <2>3
  <2>5. n.counted = counted /\ n.batch = node[t].batch /\ n.stop = node[t].stop
    BY <2>3 DEF IInv, RunTypes, Nodes
  <2> QED
    BY <2>2, <2>4, <2>5
<1>5. /\ \A u \in Tasks \ {t} : row'[u] = row[u] /\ node'[u] = node[u]
      /\ node'[t] = n
  BY <1>4 DEF IInv, RunTypes
<1>6. /\ row'[t] \in {"scanning", "waiting"} => row'[t] = row[t]
      /\ n.stop /\ row'[t] \in Working => row'[t] = row[t]
  <2>1. /\ NodeStatus(n) \in {"completed", "cancelled", "downloading", "queued"}
        /\ n.stop => NodeStatus(n) \in {"completed", "cancelled"}
    BY DEF NodeStatus
  <2>2. CASE row' = row
    BY <2>2
  <2>3. CASE row' = [row EXCEPT ![t] = Safe(row[t], NodeStatus(n))]
    <3>1. row'[t] = row[t] \/ row'[t] = NodeStatus(n)
      BY <2>3 DEF Safe, IInv, RunTypes
    <3> QED
      BY <2>1, <3>1 DEF Working
  <2> QED
    BY <1>4, <2>2, <2>3
<1>7. OnlyRun(r)' = OnlyRun(r)
  BY <1>1 DEF OnlyRun, RunsOf
<1>8. CommentOwned(r)'
  <2>1. CommentOwned(r) /\ run[r].at # "accepted"
    BY <1>2, <1>3, FileLeft DEF Owned
  <2> QED
    BY <1>1, <1>2, <1>3, <1>4, <1>5, <1>7, <2>1 DEF CommentOwned, Passed, PackagesOf
<1>9. RunOwned(r)'
  <2>1. RunOwned(r)
    BY DEF Owned
  <2> QED
    BY <1>1, <1>2, <1>3, <1>4, <1>5, <1>6, <1>7, <2>1, FileLeft DEF RunOwned
<1>10. KindKept(r) /\ run[r].at # "accepted"
  BY <1>2, <1>3, FileLeft DEF Owned
<1> QED
  BY <1>1, <1>2, <1>3, <1>4, <1>5, <1>6, <1>8, <1>9, <1>10, OneRunOwned DEF KindKept

(* A step of a run or of one of its files.                                 *)
LEMMA RunNextOwned ==
  ASSUME IInv, Owned, RunNext
  PROVE  Owned'
<1>1. UNCHANGED webVars
  BY DEF RunNext
<1>2. PICK r \in Runs : RunStep(r) \/ FileStep(r)
  BY DEF RunNext
<1>3. CASE RunStep(r)
  BY <1>1, <1>3, BeginRunOwned, BeginPackageOwned, EndPackagesOwned, CloseRunOwned,
     FetchCommentsOwned, EnqueueOwned, EndWaitOwned, JoinOwned DEF RunStep
<1>4. CASE FileStep(r)
  <2>1. PICK f \in AllFiles : TakeFile(r, f) \/ EndFile(r, f)
    BY <1>4 DEF FileStep, AllFiles
  <2> QED
    BY <1>1, <2>1, TakeFileOwned, EndFileOwned
<1> QED
  BY <1>2, <1>3, <1>4

-----------------------------------------------------------------------------
(* Every step keeps the rows owned.                                        *)
LEMMA StepOwned == IInv /\ Owned /\ [Next]_vars => Owned'
<1> SUFFICES ASSUME IInv, Owned, [Next]_vars PROVE Owned'
  OBVIOUS
<1>1. CASE LoopStep
  <2>1. CASE RunNext
    BY <2>1, RunNextOwned
  <2>2. CASE \E t \in WebIds : ScanStep(t)
    BY <2>2, ScanStepOwned
  <2>3. CASE BotStep /\ UNCHANGED webVars
    BY <2>3, BotStepOwned
  <2> QED
    BY <1>1, <2>1, <2>2, <2>3 DEF LoopStep
<1>2. CASE ThreadStep
  BY <1>2, CallStepOwned DEF ThreadStep
<1>3. CASE UserStep
  <2>1. CASE WebRequest
    BY <2>1, WebRequestOwned
  <2>2. CASE BotRequest /\ UNCHANGED <<up, scan, scanNode, preview, prescan, slot, call>>
    BY <2>2, BotRequestOwned
  <2> QED
    BY <1>3, <2>1, <2>2 DEF UserStep
<1>4. CASE LoopStops
  BY <1>4, BotRestOwned DEF LoopStops
<1>5. CASE Restart
  BY <1>5, RestartOwned
<1>6. CASE UNCHANGED vars
  BY <1>6, BotRestOwned DEF vars, webVars
<1> QED
  BY <1>1, <1>2, <1>3, <1>4, <1>5, <1>6 DEF Next

(* At first there are no rows.                                             *)
LEMMA InitOwned == Init => Owned
<1> SUFFICES ASSUME Init PROVE Owned
  OBVIOUS
<1>1. /\ row = [t \in Tasks |-> "none"] /\ node = [t \in Tasks |-> NewNode(FALSE)]
      /\ run = [r \in Runs |-> NoRun]
  BY DEF Init, RunInit
<1>2. /\ scan = [t \in WebIds |-> NoScan] /\ preview = {}
      /\ prescan = [t \in WebIds |-> NoPrescan] /\ call = [c \in Callers |-> NoCall]
  BY DEF Init, WebInit
<1>3. ASSUME NEW t \in WebIds PROVE WebOwned(t) /\ FreshNode(t)
  <2>1. row[t] = "none" /\ ~node[t].batch /\ node[t].counted = {}
    BY <1>1, TaskIds DEF NewNode
  <2>2. scan[t].at = "none" /\ t \notin preview /\ ~prescan[t].on /\ \A c \in Callers : ~Holds(c, t)
    BY <1>2 DEF NoScan, NoPrescan, NoCall, Holds
  <2> QED
    BY <2>1, <2>2 DEF WebOwned, ScanOwned, OfferKept, WaitOwned, FreshNode
<1>4. ASSUME NEW r \in Runs PROVE KindKept(r) /\ CommentOwned(r) /\ RunOwned(r)
  <2>1. run[r].at = "free" /\ run[r].task = 0 /\ run[r].kind = "none"
    BY <1>1 DEF NoRun
  <2> QED
    BY <2>1, TaskIds DEF KindKept, CommentOwned, RunOwned, OnlyRun
<1> QED
  BY <1>3, <1>4 DEF Owned

(* So they are owned always.                                               *)
LEMMA OwnedAlways == Spec => [](IInv /\ Owned)
<1>1. Init => IInv /\ Owned
  BY InitIInv, InitOwned
<1>2. IInv /\ Owned /\ [Next]_vars => (IInv /\ Owned)'
  BY StepIInv, StepOwned
<1> QED
  BY <1>1, <1>2, PTL DEF Spec

(* The one run of a task.                                                  *)
LEMMA TheRun ==
  ASSUME IInv, NEW t \in Tasks, Cardinality(RunsOf(t)) = 1
  PROVE  \E r \in Runs : RunsOf(t) = {r} /\ run[r].task = t /\ OnlyRun(r)
<1>1. IsFiniteSet(RunsOf(t))
  <2>1. IsFiniteSet(Runs)
    BY RunAssumption, FS_Interval DEF Runs
  <2> QED
    BY <2>1, FS_Subset DEF RunsOf
<1>2. PICK r : RunsOf(t) = {r}
  BY <1>1, FS_Singleton
<1>3. r \in Runs /\ run[r].task = t
  BY <1>2 DEF RunsOf
<1>4. run[r].at # "free"
  BY <1>3, TaskIds DEF IInv, RunInv, RunsConsistent
<1> QED
  BY <1>2, <1>3, <1>4 DEF OnlyRun

(* No row of the task store is left behind, however requests, coroutines,  *)
(* restarts and the bot interleave: a row that is scanning has its         *)
(* coroutine, in reach of a cancel and with the slot of the prescans if it *)
(* is one; a row that waits can be confirmed, or confirm_task has just     *)
(* taken what it waits with; a row at work, of a single run, has that run. *)
THEOREM RowsOwned == Spec => []RowsAreOwned
<1>1. IInv /\ Owned => RowsAreOwned
  <2> SUFFICES ASSUME IInv, Owned PROVE RowsAreOwned
    OBVIOUS
  <2>1. ASSUME NEW t \in WebIds, row[t] = "scanning"
        PROVE  /\ scan[t].at = "scanning" /\ t \in scanNode
               /\ scan[t].kind = "prescan" => slot = {t}
    BY <2>1 DEF Owned, WebOwned, ScanOwned
  <2>2. ASSUME NEW t \in WebIds, row[t] = "waiting"
        PROVE  Confirmable(t) /\ ~node[t].stop
    BY <2>2 DEF Owned, WebOwned, WaitOwned, Pends, Holds, Confirmable, RunsOf
  <2>3. ASSUME NEW t \in Tasks, OneRun(t), row[t] \in Working
        PROVE  \E r \in RunsOf(t) : Alive(r)
    <3>1. PICK r \in Runs : RunsOf(t) = {r} /\ run[r].task = t /\ OnlyRun(r)
      BY <2>3, TheRun DEF OneRun
    <3>2. t \in WebIds \/ run[r].kind = "prescan"
      BY <2>3, <3>1 DEF OneRun, Tasks
    <3>3. run[r].at # "over" /\ run[r].at # "free"
      BY <2>3, <3>1, <3>2 DEF Owned, RunOwned, OnlyRun
    <3> QED
      BY <3>1, <3>3 DEF Alive
  <2> QED
    BY <2>1, <2>2, <2>3 DEF RowsAreOwned
<1> QED
  BY <1>1, OwnedAlways, PTL

-----------------------------------------------------------------------------
(* The lists of the prescans. What a run downloads, and of which task, is  *)
(* fixed when it is handed to the loop.                                    *)
RunKept(r) ==
  /\ run'[r].task = run[r].task /\ run'[r].kind = run[r].kind
  /\ run'[r].offered = run[r].offered /\ run'[r].sel = run[r].sel

(* A step of a run does not change what it downloads.                      *)
LEMMA RunStepKept ==
  ASSUME IInv, NEW r \in Runs, RunStep(r)
  PROVE  \A q \in Runs : RunKept(q)
<1>1. DOMAIN run = Runs /\ DOMAIN run[r] = RunFields
  BY DEF IInv, RunTypes
<1>2. PICK new : /\ run' = [run EXCEPT ![r] = new]
                 /\ new.task = run[r].task /\ new.kind = run[r].kind
                 /\ new.offered = run[r].offered /\ new.sel = run[r].sel
  <2>1. CASE BeginRun(r)
    BY <1>1, <2>1 DEF BeginRun, RunFields
  <2>2. CASE BeginPackage(r)
    <3>1. PICK todo : todo = run[r].todo \ {Min(run[r].todo)}
      OBVIOUS
    <3>2. PICK new : new = [run[r] EXCEPT !.at = "listing", !.pkg = Min(run[r].todo),
                                          !.next = 1, !.todo = todo]
      OBVIOUS
    <3>3. run' = [run EXCEPT ![r] = new]
      BY <1>1, <2>2, <3>1, <3>2 DEF BeginPackage
    <3>4. /\ new.task = run[r].task /\ new.kind = run[r].kind
          /\ new.offered = run[r].offered /\ new.sel = run[r].sel
      BY <1>1, <3>2 DEF RunFields
    <3> QED
      BY <3>3, <3>4
  <2>3. CASE EndPackages(r) \/ CloseRun(r) \/ FetchComments(r) \/ EndWait(r) \/ Join(r)
    BY <1>1, <2>3 DEF EndPackages, CloseRun, FetchComments, EndWait, Join, RunFields
  <2>4. CASE Enqueue(r)
    <3>1. PICK next, to : next = run[r].next + 1
                          /\ to = (IF run[r].next = Media[run[r].pkg] THEN "waiting" ELSE "listing")
      OBVIOUS
    <3>2. PICK new : new = [run[r] EXCEPT !.next = next, !.at = to]
      OBVIOUS
    <3>3. run' = [run EXCEPT ![r] = new]
      BY <1>1, <2>4, <3>1, <3>2 DEF Enqueue
    <3>4. /\ new.task = run[r].task /\ new.kind = run[r].kind
          /\ new.offered = run[r].offered /\ new.sel = run[r].sel
      BY <1>1, <3>2 DEF RunFields
    <3> QED
      BY <3>3, <3>4
  <2> QED
    BY <2>1, <2>2, <2>3, <2>4 DEF RunStep
<1> QED
  BY <1>1, <1>2 DEF RunKept

(* A run that is new is of the bot, or its list has just been marked.      *)
NewListed(r) ==
  run'[r].kind = "prescan" /\ run'[r].task \in WebIds /\ prescan'[run'[r].task].on
    => prescan'[run'[r].task].confirmed

(* Nor does any other step; only a confirmation makes a run of the Web.    *)
LEMMA RunsListed ==
  ASSUME IInv, [Next]_vars, NEW r \in Runs
  PROVE  (run[r].at # "free" => RunKept(r)) /\ (RunKept(r) \/ NewListed(r))
<1>1. CASE RunNext
  BY <1>1, RunStepKept DEF RunNext, FileStep, TakeFile, EndFile, RunKept
<1>2. CASE UNCHANGED run
  BY <1>2 DEF RunKept
<1>3. ASSUME NEW h \in Taps, NEW t \in BotIds, BotStart(h, t)
      PROVE  (run[r].at # "free" => RunKept(r)) /\ (RunKept(r) \/ NewListed(r))
  <2>1. FreeRun \in Runs /\ run[FreeRun].at = "free"
    BY <1>3, FreeRunIsFree DEF BotStart
  <2>2. PICK kind : run' = [run EXCEPT ![FreeRun] = Scheduled(t, kind, Packages, tap[h].sel)]
    BY <1>3 DEF BotStart
  <2>3. Scheduled(t, kind, Packages, tap[h].sel).task = t
    BY DEF Scheduled, NoRun
  <2> QED
    BY <2>1, <2>2, <2>3, TaskIds DEF IInv, RunTypes, RunKept, NewListed
<1>4. ASSUME NEW c \in Callers, ConfirmStarts(c)
      PROVE  (run[r].at # "free" => RunKept(r)) /\ (RunKept(r) \/ NewListed(r))
  <2>1. FreeRun \in Runs /\ run[FreeRun].at = "free"
    BY <1>4, FreeRunIsFree DEF ConfirmStarts
  <2>2. PICK t \in WebIds : t = call[c].task
    BY <1>4 DEF ConfirmStarts, IInv, WebInv, ScannedFirst
  <2> DEFINE new == Scheduled(t, call[c].got, call[c].offered, call[c].sel)
  <2>3. /\ run' = [run EXCEPT ![FreeRun] = new]
        /\ new.task = t /\ new.kind = call[c].got
    BY <1>4, <2>2 DEF ConfirmStarts, Scheduled, NoRun
  <2> HIDE DEF new
  <2>4. call[c].got = "prescan" /\ prescan'[t].on => prescan'[t].confirmed
    BY <1>4, <2>2 DEF ConfirmStarts, Confirmed, IInv, WebInv, WebTypes, Entries
  <2>5. DOMAIN run = Runs
    BY DEF IInv, RunTypes
  <2>6. CASE r = FreeRun
    BY <2>1, <2>3, <2>4, <2>5, <2>6 DEF NewListed
  <2>7. CASE r # FreeRun
    BY <2>3, <2>5, <2>7 DEF RunKept
  <2> QED
    BY <2>6, <2>7, <2>1
<1>5. CASE Restart
  <2>1. CASE run[r].at = "free"
    BY <1>5, <2>1, TaskIds DEF Restart, NewListed, NoRun
  <2>2. CASE run[r].at # "free"
    <3>1. run'[r] = [run[r] EXCEPT !.at = "over", !.todo = {}] /\ DOMAIN run[r] = RunFields
      BY <1>5, <2>2 DEF Restart, IInv, RunTypes
    <3> QED
      BY <3>1 DEF RunKept, RunFields
  <2> QED
    BY <2>1, <2>2
<1>6. CASE \E t \in WebIds : ScanStep(t)
  BY <1>2, <1>6 DEF ScanStep, ScanStart, Resolved, Unresolved, ScanBatch, ScanStopped, ScanFails,
                    ScanDone, runVars
<1>7. CASE BotStep
  BY <1>2, <1>3, <1>7 DEF BotStep, Previewed, PreviewFails, TapFails, Sweep, Report, runVars
<1>8. CASE ThreadStep
  BY <1>2, <1>4, <1>8 DEF ThreadStep, CallStep, HandPrescan, ConfirmReads, ConfirmInterrupts,
       ConfirmNothing, ConfirmRefused, CancelRemoves, CancelOwned, runVars
<1>9. CASE WebRequest
  BY <1>2, <1>9 DEF WebRequest, Submit, SubmitPrescan, Confirm, Cancel, Clear, ClearCompleted,
                    Select, SelectAll, DeleteSelected, runVars
<1>10. CASE BotRequest
  BY <1>2, <1>10 DEF BotRequest, StartPrescanMode, Link, Toggle, TapCancel, Tap, StopTask,
                     StopAll, StopTasks, runVars
<1>11. CASE LoopStops \/ UNCHANGED vars
  BY <1>2, <1>11 DEF LoopStops, vars, runVars
<1> QED
  BY <1>1, <1>5, <1>6, <1>7, <1>8, <1>9, <1>10, <1>11 DEF Next, LoopStep, UserStep

(* The list of a task that has runs goes, or stays as it is, its mark too; *)
(* only with no mark something is deleted from it.                         *)
ListKept(t) ==
  RunsOf(t) # {} /\ prescan'[t].on =>
    /\ prescan[t].on
    /\ prescan[t].confirmed =>
         prescan'[t].confirmed /\ prescan[t].packages \subseteq prescan'[t].packages

(* All requests that touch the lists keep to that.                         *)
LEMMA ListsKept ==
  ASSUME IInv, up, [Next]_vars, NEW t \in WebIds
  PROVE  ListKept(t)
<1>1. /\ prescan \in [WebIds -> Entries]
      /\ RunsOf(t) # {} => scan[t].at = "over"
  BY DEF IInv, WebInv, WebTypes, ScannedFirst, Offers, RunsOf
<1>2. CASE prescan'[t] = prescan[t] \/ ~prescan'[t].on
  BY <1>2 DEF ListKept
<1>3. ASSUME NEW u \in WebIds, ScanStep(u)
      PROVE  ListKept(t)
  <2>1. CASE ScanDone(u)
    <3>1. CASE u = t
      BY <1>1, <2>1, <3>1 DEF ScanDone, ListKept
    <3>2. CASE u # t
      <4>1. prescan' = prescan \/ \E new : prescan' = [prescan EXCEPT ![u] = new]
        BY <2>1 DEF ScanDone
      <4> QED
        BY <1>1, <1>2, <3>2, <4>1
    <3> QED
      BY <3>1, <3>2
  <2>2. CASE UNCHANGED prescan
    BY <1>2, <2>2
  <2> QED
    BY <1>3, <2>1, <2>2 DEF ScanStep, ScanStart, Resolved, Unresolved, ScanBatch, ScanStopped,
                            ScanFails
<1>4. ASSUME NEW c \in Callers, CallStep(c)
      PROVE  ListKept(t)
  <2>1. CASE ConfirmStarts(c)
    <3>1. prescan' = prescan \/ prescan' = Confirmed(call[c].task, TRUE)
      BY <2>1 DEF ConfirmStarts
    <3>2. PICK u, mark : u = call[c].task
                         /\ mark = (IF prescan[u].on THEN TRUE ELSE prescan[u].confirmed)
      OBVIOUS
    <3>4. prescan' = prescan \/ prescan' = [prescan EXCEPT ![u] = [prescan[u] EXCEPT !.confirmed = mark]]
      BY <1>1, <3>1, <3>2 DEF Confirmed
    <3>5. \/ prescan'[t] = prescan[t]
          \/ t = u /\ prescan'[t] = [prescan[t] EXCEPT !.confirmed = mark]
      BY <1>1, <3>4
    <3>3. prescan[t] \in Entries
      BY <1>1
    <3> QED
      BY <3>2, <3>3, <3>5 DEF ListKept, Entries
  <2>2. CASE CancelOwned(c)
    BY <1>1, <1>2, <2>2 DEF CancelOwned, NoPrescan
  <2>3. CASE UNCHANGED prescan
    BY <1>2, <2>3
  <2> QED
    BY <1>4, <2>1, <2>2, <2>3 DEF CallStep, HandPrescan, ConfirmReads, ConfirmInterrupts,
       ConfirmNothing, ConfirmRefused, CancelRemoves
<1>5. CASE WebRequest
  <2>1. CASE UNCHANGED prescan
    BY <1>2, <2>1
  <2>2. ASSUME NEW c, NEW u \in WebIds, Confirm(c, u) PROVE ListKept(t)
    BY <1>2, <2>2 DEF Confirm, Pruned, NoPrescan
  <2>3. ASSUME (\E u \in Tasks : Clear(u)) \/ ClearCompleted PROVE ListKept(t)
    <3>1. prescan'[t] = prescan[t] \/ prescan'[t] = NoPrescan
      BY <2>3 DEF Clear, ClearCompleted
    <3> QED
      BY <1>2, <3>1 DEF NoPrescan
  <2>4. ASSUME NEW u \in WebIds, SelectAll(u) \/ (\E p \in Packages : Select(u, p))
        PROVE  ListKept(t)
    <3>1. PICK chosen : prescan' = [prescan EXCEPT ![u] = [prescan[u] EXCEPT !.selected = chosen]]
      BY <1>1, <2>4 DEF SelectAll, Select
    <3>2. prescan'[t] = prescan[t] \/ prescan'[t] = [prescan[t] EXCEPT !.selected = chosen]
      BY <1>1, <3>1
    <3>3. prescan[t] \in Entries
      BY <1>1
    <3> QED
      BY <3>2, <3>3 DEF ListKept, Entries
  <2>5. ASSUME NEW u \in WebIds, DeleteSelected(u)
        PROVE  ListKept(t)
    <3>1. CASE u # t
      <4>1. PICK new : prescan' = [prescan EXCEPT ![u] = new]
        BY <1>1, <2>5 DEF DeleteSelected
      <4> QED
        BY <1>1, <1>2, <3>1, <4>1
    <3>2. CASE u = t
      BY <2>5, <3>2 DEF DeleteSelected, ListKept
    <3> QED
      BY <3>1, <3>2
  <2> QED
    BY <1>5, <2>1, <2>2, <2>3, <2>4, <2>5 DEF WebRequest, Submit, SubmitPrescan, Cancel
<1>6. CASE UNCHANGED prescan
  BY <1>2, <1>6
<1> QED
  BY <1>3, <1>4, <1>5, <1>6 DEF Next, LoopStep, ThreadStep, UserStep, LoopStops, Restart, RunNext,
     vars, webVars

(* So the list of a task with a run of its own is marked.                  *)
LEMMA StepMarked ==
  ASSUME IInv, \A r \in Runs : ListMarked(r), [Next]_vars
  PROVE  \A r \in Runs : ListMarked(r)'
<1> SUFFICES ASSUME NEW r \in Runs, up', run'[r].kind = "prescan", run'[r].task \in WebIds,
                    prescan'[run'[r].task].on
             PROVE  prescan'[run'[r].task].confirmed
  BY DEF ListMarked
<1>1. RunKept(r) \/ prescan'[run'[r].task].confirmed
  BY RunsListed DEF NewListed
<1>2. CASE ~up
  <2>1. prescan' = [u \in WebIds |-> NoPrescan]
    BY <1>2 DEF Next, LoopStep, ThreadStep, UserStep, LoopStops, Restart, vars, webVars, CallStep,
          HandPrescan, ConfirmReads, ConfirmInterrupts, ConfirmNothing, ConfirmStarts,
          ConfirmRefused, CancelRemoves, CancelOwned, WebRequest, Submit, SubmitPrescan, Confirm,
          Cancel, Clear, ClearCompleted, Select, SelectAll, DeleteSelected
  <2> QED
    BY <2>1 DEF NoPrescan
<1>3. CASE up /\ RunKept(r)
  <2>1. PICK t \in WebIds : t = run[r].task /\ run[r].kind = "prescan" /\ t = run'[r].task
    BY <1>3 DEF RunKept
  <2>2. r \in RunsOf(t)
    BY <2>1 DEF RunsOf
  <2>3. ListKept(t)
    BY <1>3, ListsKept
  <2> QED
    BY <1>3, <2>1, <2>2, <2>3 DEF ListMarked, ListKept
<1> QED
  BY <1>1, <1>2, <1>3

(* What a batch of a prescan downloads and the list of its task shows is   *)
(* shown for as long as there is a list: confirm_task marks the list in    *)
(* the same step of the lock in which it hands the batch to the loop, and  *)
(* deleting the selected packages looks at the mark under that lock.       *)
THEOREM ListsStay == Spec => DownloadedStaysListed
<1> DEFINE A == up => \A r \in Runs :
                  run[r].kind = "prescan" /\ run[r].task \in WebIds /\ prescan'[run[r].task].on
                    => Shown(r) \subseteq Shown(r)'
           Marked == \A r \in Runs : ListMarked(r)
<1>1. Init => Marked
  BY TaskIds DEF Init, RunInit, NoRun, ListMarked
<1>2. IInv /\ Marked /\ [Next]_vars => Marked'
  BY StepMarked
<1>3. IInv /\ Marked /\ [Next]_vars => A
  <2> SUFFICES ASSUME IInv, Marked, [Next]_vars, up, NEW r \in Runs,
                      run[r].kind = "prescan", run[r].task \in WebIds, prescan'[run[r].task].on
               PROVE  Shown(r) \subseteq Shown(r)'
    OBVIOUS
  <2>1. PICK t \in WebIds : t = run[r].task
    OBVIOUS
  <2>2. r \in RunsOf(t) /\ run[r].at # "free"
    BY <2>1, TaskIds DEF RunsOf, IInv, RunInv, RunsConsistent
  <2>3. RunKept(r)
    BY <2>2, RunsListed
  <2>4. ListKept(t) /\ ListMarked(r)
    BY ListsKept
  <2>5. PackagesOf(r)' = PackagesOf(r)
    BY <2>3 DEF RunKept, PackagesOf
  <2> QED
    BY <2>1, <2>2, <2>3, <2>4, <2>5 DEF Shown, ListKept, ListMarked, RunKept
<1>4. Spec => [][A]_vars
  <2> HIDE DEF A, Marked
  <2> QED
    BY <1>1, <1>2, <1>3, LinksConsistent, PTL DEF Spec
<1> QED
  BY <1>4 DEF DownloadedStaysListed
=============================================================================
