------------------------ MODULE FileLifecycle_proofs ------------------------
(***************************************************************************)
(* One package of any number of files, workers and failing writes: the     *)
(* rows are backed by files, the result is built after the work, the       *)
(* counters tell the results, and a terminal task stays terminal.          *)
(***************************************************************************)
EXTENDS FileLifecycle, FiniteSetTheorems, TLAPS

(* There are finitely many messages, so sets of them can be counted.       *)
LEMMA MessagesFinite ==
  /\ Last \in Nat
  /\ IsFiniteSet(Messages) /\ Cardinality(Messages) = Last
  /\ \A S \in SUBSET Messages : Cardinality(S) \in 0 .. Last
<1>1. Last \in Nat
  BY FileAssumption DEF Last
<1>2. IsFiniteSet(Messages) /\ Cardinality(Messages) = Last
  BY <1>1, FS_Interval DEF Messages
<1>3. ASSUME NEW S \in SUBSET Messages PROVE Cardinality(S) \in 0 .. Last
  BY <1>1, <1>2, FS_Subset, FS_CardinalityType
<1>4. QED
  BY <1>1, <1>2, <1>3

(* A snapshot never writes an upload status of its own, and "downloaded"   *)
(* only for a message whose result is a success.                           *)
LEMMA MappedType ==
  \A r \in Results \union {"none", "Downloading"} :
    /\ Mapped(r) \in RowStatus \ (UploadStates \union {"none"})
    /\ Mapped(r) = "downloaded" <=> r = "Success"
    /\ r \in Results => Mapped(r) \in DownloadResults
BY DEF Results, Mapped, RowStatus, UploadStates, DownloadResults

(* The status a snapshot reads from the node is one of the task.           *)
LEMMA NodeStatusType == TypeOK => NodeStatus \in Terminal \union {"live"}
BY DEF NodeStatus, Terminal

(* The record of a lifecycle that takes no snapshot.                       *)
LEMMA NoSnapshotType == NoSnapshot \in Snapshots
BY MessagesFinite DEF NoSnapshot, Snapshots, RowStatus

(* What the steps of a snapshot make of its record.                        *)
LEMMA StatusEffect ==
  ASSUME TypeOK, NEW m \in Messages, SnapshotStatus(m)
  PROVE  /\ snap' \in [Messages -> Snapshots]
         /\ \A k \in Messages \ {m} : snap'[k] = snap[k]
         /\ snap'[m].status \in Terminal \union {"live"}
<1> DEFINE new == [snap[m] EXCEPT !.status = NodeStatus]
<1>1. snap \in [Messages -> Snapshots] /\ snap[m] \in Snapshots
  BY DEF TypeOK
<1>2. NodeStatus \in Terminal \union {"live"}
  BY NodeStatusType
<1>3. new \in Snapshots /\ new.status = NodeStatus
  BY <1>1, <1>2 DEF Snapshots
<1>4. snap' = [snap EXCEPT ![m] = new]
  BY DEF SnapshotStatus
<1> HIDE DEF new
<1>5. QED
  BY <1>1, <1>2, <1>3, <1>4

LEMMA PickEffect ==
  ASSUME TypeOK, NEW m \in Messages, NEW seen \in [Messages -> RowStatus],
         NEW i, NEW size \in 0 .. Last, Pick(m, seen, i, size)
  PROVE  /\ snap' \in [Messages -> Snapshots]
         /\ \A k \in Messages \ {m} : snap'[k] = snap[k]
         /\ snap'[m].next \in Messages
         /\ snap'[m].value = Mapped(result[snap'[m].next])
<1>1. PICK j \in NextRow(i) :
        snap' = [snap EXCEPT ![m].seen = seen, ![m].next = j,
                             ![m].value = Mapped(result[j]), ![m].size = size]
  BY DEF Pick
<1>2. j \in Messages /\ j \in 0 .. Last
  BY <1>1 DEF NextRow, Known, Messages
<1>3. Mapped(result[j]) \in RowStatus
  BY <1>2, MappedType DEF TypeOK
<1> DEFINE new == [snap[m] EXCEPT !.seen = seen, !.next = j,
                                  !.value = Mapped(result[j]), !.size = size]
<1>4. snap \in [Messages -> Snapshots] /\ snap[m] \in Snapshots
  BY DEF TypeOK
<1>5. new \in Snapshots /\ new.next = j /\ new.value = Mapped(result[j])
  BY <1>2, <1>3, <1>4 DEF Snapshots
<1>6. snap' = [snap EXCEPT ![m] = new]
  BY <1>1
<1> HIDE DEF new
<1>7. QED
  BY <1>2, <1>4, <1>5, <1>6

(* A message leaves the listing.                                           *)
LEMMA AfterEffect ==
  ASSUME TypeOK, ProducerConsistent, NEW m \in Messages,
         producer.next = m, producer' = After(m), total' = total + 1
  PROVE  /\ producer' \in [at : {"listing", "waiting"}, next : 1 .. Last + 1]
         /\ producer'.next = m + 1
         /\ producer'.at = "waiting" => producer'.next = Last + 1
         /\ total' \in 0 .. Last /\ total' = producer'.next - 1
<1>1. m \in 1 .. Last /\ Last \in Nat
  BY MessagesFinite DEF Messages
<1>2. total = m - 1
  BY DEF ProducerConsistent
<1>3. producer'.next = m + 1 /\ producer'.at = IF m = Last THEN "waiting" ELSE "listing"
  BY DEF After
<1>4. QED
  BY <1>1, <1>2, <1>3 DEF After

(* A lifecycle goes on to its next step.                                   *)
LEMMA MoveType ==
  ASSUME TypeOK, NEW m \in Messages, NEW step \in Steps, NEW status \in RowStatus,
         Move(m, step, status)
  PROVE  /\ at' \in [Messages -> Steps] /\ at'[m] = step
         /\ goal' \in [Messages -> RowStatus] /\ goal'[m] = status
         /\ keep' \subseteq Messages /\ handling' \subseteq Messages
         /\ snap' \in [Messages -> Snapshots]
         /\ \A k \in Messages \ {m} : at'[k] = at[k] /\ goal'[k] = goal[k]
BY NoSnapshotType DEF TypeOK, Move

(* A lifecycle enters an except clause.                                    *)
LEMMA HandleType ==
  ASSUME TypeOK, NEW m \in Messages, NEW status \in RowStatus, Handle(m, status)
  PROVE  /\ at' \in [Messages -> Steps] /\ at'[m] = "read"
         /\ goal' \in [Messages -> RowStatus] /\ goal'[m] = status
         /\ keep' \subseteq Messages /\ handling' \subseteq Messages
         /\ snap' \in [Messages -> Snapshots]
         /\ \A k \in Messages \ {m} : at'[k] = at[k] /\ goal'[k] = goal[k]
BY DEF TypeOK, Handle, Steps

(* The size of download_status.                                            *)
LEMMA KnownSize == TypeOK => Cardinality(Known) \in 0 .. Last
BY MessagesFinite DEF Known

(* A snapshot ends the lifecycle, or stays in it and picks its next row.   *)
SnapshotGoesOn(m) ==
  /\ at' \in [Messages -> Steps] /\ at'[m] \in {"rows", "over"}
  /\ goal' \in [Messages -> RowStatus]
  /\ keep' \subseteq Messages /\ handling' \subseteq handling
  /\ snap' \in [Messages -> Snapshots]
  /\ permit' \in [Messages -> {"none", "waiting", "active", "released"}]
  /\ at'[m] = "over" => permit'[m] = "released"
  /\ \A k \in Messages \ {m} :
       at'[k] = at[k] /\ goal'[k] = goal[k] /\ snap'[k] = snap[k] /\ permit'[k] = permit[k]
  /\ at'[m] = "rows" =>
       /\ snap'[m].next \in Messages
       /\ snap'[m].value = Mapped(result[snap'[m].next])

(* An ended lifecycle has returned its permit.                             *)
LEMMA FinishEffect ==
  ASSUME TypeOK, NEW m \in Messages, Finish(m)
  PROVE  SnapshotGoesOn(m)
<1>1. Move(m, "over", "none") /\ "over" \in Steps /\ "none" \in RowStatus
  BY DEF Finish, Steps, RowStatus
<1>2. at' \in [Messages -> Steps] /\ at'[m] = "over"
      /\ goal' \in [Messages -> RowStatus]
      /\ keep' \subseteq Messages
      /\ snap' \in [Messages -> Snapshots]
      /\ \A k \in Messages \ {m} : at'[k] = at[k] /\ goal'[k] = goal[k]
  BY <1>1, MoveType
<1>3. permit' \in [Messages -> {"none", "waiting", "active", "released"}]
      /\ permit'[m] = "released"
      /\ \A k \in Messages \ {m} : permit'[k] = permit[k]
  BY DEF TypeOK, Finish
<1>4. handling' \subseteq handling /\ \A k \in Messages \ {m} : snap'[k] = snap[k]
  BY <1>1 DEF Move
<1>5. QED
  BY <1>2, <1>3, <1>4 DEF SnapshotGoesOn

(* A snapshot with a row left has picked a known message.                  *)
LEMMA PickGoesOn ==
  ASSUME TypeOK, NEW m \in Messages, NEW seen \in [Messages -> RowStatus],
         NEW i, NEW size \in 0 .. Last, Pick(m, seen, i, size), permit' = permit
  PROVE  SnapshotGoesOn(m)
<1>1. /\ at' \in [Messages -> Steps] /\ at'[m] = "rows"
      /\ \A k \in Messages \ {m} : at'[k] = at[k]
      /\ goal' = goal /\ keep' = keep /\ handling' = handling
  BY DEF TypeOK, Pick, Steps
<1>2. QED
  BY <1>1, PickEffect DEF TypeOK, SnapshotGoesOn

(* create_task in a snapshot: it goes on with a status the task may have.  *)
LEMMA SnapshotTaskEffect ==
  ASSUME IInv, NEW m \in Messages, SnapshotTask(m)
  PROVE  SnapshotGoesOn(m) /\ task' \in Terminal \union {"live"}
<1>1. TypeOK /\ snap[m] \in Snapshots /\ snap[m].status # "none" /\ file \in [Messages -> RowStatus]
  BY DEF IInv, TypeOK, FilesConsistent, SnapshotTask
<1>2. snap[m].status \in Terminal \union {"live"}
  BY <1>1 DEF Snapshots
<1>3. CASE Finish(m) /\ UNCHANGED task
  BY <1>1, <1>3, FinishEffect DEF TypeOK
<1>4. CASE task' = snap[m].status /\ Pick(m, file, 0, Cardinality(Known)) /\ UNCHANGED permit
  BY <1>1, <1>2, <1>4, KnownSize, PickGoesOn
<1>5. QED
  BY <1>3, <1>4 DEF SnapshotTask

(* A row of a snapshot: it goes on with rows of their types.               *)
LEMMA SnapshotRowEffect ==
  ASSUME IInv, NEW m \in Messages, SnapshotRow(m)
  PROVE  SnapshotGoesOn(m) /\ file' \in [Messages -> RowStatus]
<1>1. /\ TypeOK /\ snap[m] \in Snapshots /\ snap[m].next \in Messages
      /\ file \in [Messages -> RowStatus]
  BY DEF IInv, TypeOK, FilesConsistent, SnapshotRow
<1>2. /\ snap[m].seen \in [Messages -> RowStatus] /\ snap[m].size \in 0 .. Last
      /\ snap[m].value \in RowStatus
  BY <1>1 DEF Snapshots
<1>3. file' \in [Messages -> RowStatus]
  BY <1>1, <1>2 DEF SnapshotRow
<1>4. CASE Finish(m)
  BY <1>1, <1>3, <1>4, FinishEffect
<1>5. CASE Pick(m, snap[m].seen, snap[m].next, snap[m].size) /\ UNCHANGED permit
  BY <1>1, <1>2, <1>3, <1>5, PickGoesOn
<1>6. QED
  BY <1>4, <1>5 DEF SnapshotRow

(* A message enters download_status: it had no result and is not counted.  *)
LEMMA EnqueueRowStep ==
  ASSUME IInv, NEW m \in Messages, EnqueueRow(m)
  PROVE  IInv'
<1>1. TypeOK'
  BY NodeStatusType DEF IInv, TypeOK, RowStatus, EnqueueRow, life, disk
<1>2. RowsAreBacked'
  BY DEF IInv, RowsAreBacked, UploadStates, EnqueueRow, disk
<1>3. FilesConsistent'
  BY DEF IInv, FilesConsistent, Stored, Writing, BeforeUpload, EnqueueRow, life, disk
<1>4. QueueConsistent'
  BY DEF IInv, QueueConsistent, EnqueueRow, life
<1>5. ProducerConsistent'
  BY DEF IInv, ProducerConsistent, EnqueueRow
<1>6. CountConsistent'
  BY DEF IInv, TypeOK, CountConsistent, QueueConsistent, Writing, Results, EnqueueRow, life
<1>7. QED
  BY <1>1, <1>2, <1>3, <1>4, <1>5, <1>6 DEF IInv

(* A message that could not be enqueued is counted as a failure at once.   *)
LEMMA EnqueueFailsStep ==
  ASSUME IInv, NEW m \in Messages, EnqueueFails(m)
  PROVE  IInv'
<1>1. TypeOK'
  <2>1. producer' \in [at : {"listing", "waiting"}, next : 1 .. Last + 1] /\ total' \in 0 .. Last
    BY AfterEffect DEF IInv, EnqueueFails
  <2>2. task' \in Terminal \union {"live"} /\ faults' \in 0 .. MaxFaults
    BY NodeStatusType, FileAssumption DEF IInv, TypeOK, EnqueueFails
  <2>3. result' \in [Messages -> Results \union {"none", "Downloading"}]
        /\ counted' \in [Messages -> Results \union {"none"}]
    BY DEF IInv, TypeOK, EnqueueFails, RecordFailure, Results
  <2>4. QED
    BY <2>1, <2>2, <2>3 DEF IInv, TypeOK, EnqueueFails, life, disk
<1>2. RowsAreBacked'
  BY DEF IInv, RowsAreBacked, EnqueueFails, disk
<1>3. FilesConsistent'
  BY DEF IInv, FilesConsistent, Stored, Writing, BeforeUpload, EnqueueFails, RecordFailure,
         life, disk
<1>4. QueueConsistent'
  <2>1. producer'.next = m + 1 /\ m \in Nat
    BY AfterEffect DEF IInv, EnqueueFails, Messages
  <2>2. QED
    BY <2>1 DEF IInv, QueueConsistent, EnqueueFails, life
<1>5. ProducerConsistent'
  BY DEF IInv, TypeOK, ProducerConsistent, EnqueueFails, After
<1>6. CountConsistent'
  <2>1. producer'.next = m + 1 /\ m \in Nat /\ at[m] = "absent"
    BY AfterEffect DEF IInv, EnqueueFails, Messages, QueueConsistent
  <2>2. QED
    BY <2>1 DEF IInv, TypeOK, CountConsistent, EnqueueFails, RecordFailure, Writing, life
<1>7. QED
  BY <1>1, <1>2, <1>3, <1>4, <1>5, <1>6 DEF IInv

(* A message joins the queue: it was absent, so it is in the queue once.   *)
LEMMA EnqueueStep ==
  ASSUME IInv, NEW m \in Messages, Enqueue(m)
  PROVE  IInv'
<1>1. TypeOK'
  <2>1. producer' \in [at : {"listing", "waiting"}, next : 1 .. Last + 1] /\ total' \in 0 .. Last
    BY AfterEffect DEF IInv, Enqueue
  <2>2. queue' \in Seq(Messages)
    BY DEF IInv, TypeOK, Enqueue
  <2>3. at' \in [Messages -> Steps] /\ goal' \in [Messages -> RowStatus]
        /\ keep' \subseteq Messages /\ handling' \subseteq Messages
        /\ snap' \in [Messages -> Snapshots]
    BY MoveType DEF IInv, Enqueue, Steps, RowStatus
  <2>4. permit' \in [Messages -> {"none", "waiting", "active", "released"}]
    BY DEF IInv, TypeOK, Enqueue
  <2>5. QED
    BY <2>1, <2>2, <2>3, <2>4 DEF IInv, TypeOK, Enqueue, rows, disk
<1>2. RowsAreBacked'
  BY DEF IInv, RowsAreBacked, Enqueue, rows, disk
<1>3. FilesConsistent'
  <2>1. /\ at'[m] = "queued" /\ at[m] = "absent"
        /\ \A k \in Messages \ {m} : at'[k] = at[k] /\ goal'[k] = goal[k] /\ snap'[k] = snap[k]
    BY DEF IInv, TypeOK, QueueConsistent, Enqueue, Move
  <2>2. QED
    BY <2>1 DEF IInv, FilesConsistent, Stored, Writing, BeforeUpload, Enqueue, disk
<1>4. QueueConsistent'
  <2>1. /\ at'[m] = "queued" /\ at[m] = "absent"
        /\ \A k \in Messages \ {m} : at'[k] = at[k]
    BY DEF IInv, TypeOK, QueueConsistent, Enqueue, Move
  <2>2. /\ queue \in Seq(Messages) /\ Len(queue) \in Nat
        /\ Len(queue') = Len(queue) + 1 /\ queue'[Len(queue) + 1] = m
        /\ \A i \in 1 .. Len(queue) : queue'[i] = queue[i] /\ queue[i] \in Messages
    BY DEF IInv, TypeOK, Enqueue
  <2>3. \A i \in 1 .. Len(queue) : queue[i] # m
    BY <2>1, <2>2 DEF IInv, QueueConsistent
  <2>4. producer'.next = m + 1 /\ m \in Nat
    BY AfterEffect DEF IInv, Enqueue, Messages
  <2>5. \A i \in 1 .. Len(queue') : at'[queue'[i]] = "queued"
    BY <2>1, <2>2, <2>3 DEF IInv, QueueConsistent
  <2>6. \A i, j \in 1 .. Len(queue') : queue'[i] = queue'[j] => i = j
    BY <2>2, <2>3 DEF IInv, QueueConsistent
  <2>7. \A k \in Messages : k >= producer'.next => at'[k] = "absent"
    BY <2>1, <2>4 DEF IInv, QueueConsistent, Enqueue
  <2>8. \A k \in Messages :
          permit'[k] \in {"waiting", "active"} => at'[k] \notin {"absent", "over"}
    BY <2>1 DEF IInv, QueueConsistent, Enqueue
  <2>9. QED
    BY <2>5, <2>6, <2>7, <2>8 DEF QueueConsistent
<1>5. ProducerConsistent'
  BY DEF IInv, TypeOK, ProducerConsistent, Enqueue, After
<1>6. CountConsistent'
  <2>1. producer'.next = m + 1 /\ m \in Nat /\ at[m] = "absent" /\ counted[m] = "none"
    BY AfterEffect DEF IInv, Enqueue, Messages, QueueConsistent, CountConsistent
  <2>2. /\ handling' \subseteq handling
        /\ \A k \in Messages \ {m} : at'[k] = at[k] /\ goal'[k] = goal[k]
    BY DEF Enqueue, Move
  <2>3. at'[m] = "queued"
    BY DEF IInv, TypeOK, Enqueue, Move
  <2>4. result[m] \notin Results
    BY <2>1 DEF IInv, CountConsistent, Writing, Results
  <2>5. QED
    BY <2>1, <2>2, <2>3, <2>4 DEF IInv, CountConsistent, Enqueue, Writing
<1>7. QED
  BY <1>1, <1>2, <1>3, <1>4, <1>5, <1>6 DEF IInv

(* A worker takes the head of the queue, or drops it with its permit.      *)
LEMMA TakeStep ==
  ASSUME IInv, NEW m \in Messages, Take(m)
  PROVE  IInv'
<1>1. TypeOK'
  <2>1. queue' \in Seq(Messages)
    BY DEF IInv, TypeOK, Take
  <2>2. \E step \in Steps : Move(m, step, "none")
    BY DEF Take, Drop, Steps
  <2>3. at' \in [Messages -> Steps] /\ goal' \in [Messages -> RowStatus]
        /\ keep' \subseteq Messages /\ handling' \subseteq Messages
        /\ snap' \in [Messages -> Snapshots]
    BY <2>2, MoveType DEF IInv, RowStatus
  <2>4. permit' \in [Messages -> {"none", "waiting", "active", "released"}]
    BY DEF IInv, TypeOK, Take, Drop
  <2>5. QED
    BY <2>1, <2>3, <2>4 DEF IInv, TypeOK, Take, nodeVars, rows, disk
<1>2. RowsAreBacked'
  BY DEF IInv, RowsAreBacked, Take, rows, disk
<1>3. FilesConsistent'
  <2>1. /\ at'[m] \in {"over", "activating"} /\ at[m] = "queued"
        /\ \A k \in Messages \ {m} : at'[k] = at[k] /\ goal'[k] = goal[k] /\ snap'[k] = snap[k]
    BY DEF IInv, TypeOK, QueueConsistent, Take, Drop, Move
  <2>2. QED
    BY <2>1 DEF IInv, FilesConsistent, Stored, Writing, BeforeUpload, Take, nodeVars, disk
<1>4. QueueConsistent'
  BY DEF IInv, TypeOK, QueueConsistent, Take, Drop, Move, nodeVars, rows
<1>5. ProducerConsistent'
  BY DEF IInv, ProducerConsistent, QueueConsistent, Unfinished, Queued, Take, nodeVars
<1>6. CountConsistent'
  BY DEF IInv, TypeOK, CountConsistent, QueueConsistent, Writing, DownloadResults, Results,
         Take, Drop, Move, nodeVars
<1>7. QED
  BY <1>1, <1>2, <1>3, <1>4, <1>5, <1>6 DEF IInv

(* An intent at the gate becomes active.                                   *)
LEMMA ActivateStep ==
  ASSUME IInv, NEW m \in Messages, Activate(m)
  PROVE  IInv'
<1>1. TypeOK'
  BY NoSnapshotType DEF IInv, TypeOK, RowStatus, Steps, Activate, Move, nodeVars, rows, disk
<1>2. RowsAreBacked'
  BY DEF IInv, RowsAreBacked, Activate, rows, disk
<1>3. FilesConsistent'
  BY DEF IInv, TypeOK, FilesConsistent, Stored, Writing, BeforeUpload, UploadStates,
         Activate, Move, nodeVars, disk
<1>4. QueueConsistent'
  BY DEF IInv, QueueConsistent, Activate, Move
<1>5. ProducerConsistent'
  BY DEF IInv, ProducerConsistent, Unfinished, Busy, Activate, nodeVars
<1>6. CountConsistent'
  BY DEF IInv, TypeOK, CountConsistent, Writing, DownloadResults, Activate, Move, nodeVars
<1>7. QED
  BY <1>1, <1>2, <1>3, <1>4, <1>5, <1>6 DEF IInv

(* The first of the two calls of a transition writes nothing.              *)
LEMMA ReadTaskStep ==
  ASSUME IInv, NEW m \in Messages, ReadTask(m)
  PROVE  IInv'
<1>1. TypeOK'
  BY DEF IInv, TypeOK, Steps, ReadTask, nodeVars, rows, disk
<1>2. RowsAreBacked'
  BY DEF IInv, RowsAreBacked, ReadTask, rows, disk
<1>3. FilesConsistent'
  BY DEF IInv, FilesConsistent, Stored, Writing, BeforeUpload, ReadTask, nodeVars, disk
<1>4. QueueConsistent'
  BY DEF IInv, QueueConsistent, ReadTask
<1>5. ProducerConsistent'
  BY DEF IInv, ProducerConsistent, Unfinished, Busy, ReadTask, nodeVars
<1>6. CountConsistent'
  BY DEF IInv, CountConsistent, Writing, ReadTask, nodeVars
<1>7. QED
  BY <1>1, <1>2, <1>3, <1>4, <1>5, <1>6 DEF IInv

(* The second call: what FilesConsistent says of a pending write makes the *)
(* row backed, and the source goes only when the cloud has the file.       *)
LEMMA WriteRowStep ==
  ASSUME IInv, NEW m \in Messages, WriteRow(m)
  PROVE  IInv'
<1>1. TypeOK'
  <2>1. \E step \in Steps, status \in RowStatus : Move(m, step, status)
    <3>1. CASE goal[m] = "failed" /\ m \in handling
      BY <3>1 DEF WriteRow, Finish, Steps, RowStatus
    <3>2. CASE ~(goal[m] = "failed" /\ m \in handling)
      BY <3>2 DEF IInv, TypeOK, WriteRow, AfterWrite, Steps
    <3>3. QED
      BY <3>1, <3>2
  <2>2. at' \in [Messages -> Steps] /\ goal' \in [Messages -> RowStatus]
        /\ keep' \subseteq Messages /\ handling' \subseteq Messages
        /\ snap' \in [Messages -> Snapshots]
    BY <2>1, MoveType DEF IInv
  <2>3. permit' \in [Messages -> {"none", "waiting", "active", "released"}]
    BY DEF IInv, TypeOK, WriteRow, Finish
  <2>4. counted' \in [Messages -> Results \union {"none"}]
    BY DEF IInv, TypeOK, CountConsistent, WriteRow, Writing
  <2>5. local' \subseteq Messages /\ file' \in [Messages -> RowStatus]
        /\ task' \in Terminal \union {"live"}
    BY DEF IInv, TypeOK, WriteRow, Commit, SourceAfter
  <2>6. QED
    BY <2>2, <2>3, <2>4, <2>5 DEF IInv, TypeOK, WriteRow
<1>2. RowsAreBacked'
  BY DEF IInv, RowsAreBacked, FilesConsistent, Stored, Writing, WriteRow, Commit,
         SourceAfter
<1>3. FilesConsistent'
  BY DEF IInv, TypeOK, FilesConsistent, Stored, Writing, BeforeUpload, UploadStates,
         WriteRow, SourceAfter, AfterWrite, Finish, Move
<1>4. QueueConsistent'
  BY DEF IInv, TypeOK, QueueConsistent, WriteRow, Commit, AfterWrite, Finish, Move
<1>5. ProducerConsistent'
  BY DEF IInv, ProducerConsistent, Unfinished, Busy, WriteRow
<1>6. CountConsistent'
  BY DEF IInv, TypeOK, CountConsistent, QueueConsistent, Writing, DownloadResults, WriteRow,
         AfterWrite, Finish, Move
<1>7. QED
  BY <1>1, <1>2, <1>3, <1>4, <1>5, <1>6 DEF IInv

(* A write that raises leaves the rows; the failure is counted, or the     *)
(* upload is to be recorded as failed, or the lifecycle ends.              *)
LEMMA WriteRaisesStep ==
  ASSUME IInv, NEW m \in Messages, WriteRaises(m)
  PROVE  IInv'
<1>1. TypeOK'
  <2>1. \/ \E step \in Steps, status \in RowStatus : Move(m, step, status)
        \/ \E status \in RowStatus : Handle(m, status)
    BY DEF WriteRaises, Finish, Steps, RowStatus
  <2>2. at' \in [Messages -> Steps] /\ goal' \in [Messages -> RowStatus]
        /\ keep' \subseteq Messages /\ handling' \subseteq Messages
        /\ snap' \in [Messages -> Snapshots]
    BY <2>1, MoveType, HandleType DEF IInv
  <2>3. permit' \in [Messages -> {"none", "waiting", "active", "released"}]
    BY DEF IInv, TypeOK, WriteRaises, Finish
  <2>4. result' \in [Messages -> Results \union {"none", "Downloading"}]
        /\ counted' \in [Messages -> Results \union {"none"}]
    BY DEF IInv, TypeOK, WriteRaises, RecordFailure, Results
  <2>5. faults' \in 0 .. MaxFaults
    BY FileAssumption DEF IInv, TypeOK, WriteRaises
  <2>6. QED
    BY <2>2, <2>3, <2>4, <2>5 DEF IInv, TypeOK, WriteRaises, rows, disk
<1>2. RowsAreBacked'
  BY DEF IInv, RowsAreBacked, WriteRaises, rows, disk
<1>3. FilesConsistent'
  BY DEF IInv, TypeOK, FilesConsistent, Stored, Writing, BeforeUpload, UploadStates,
         WriteRaises, Handle, Finish, RecordFailure, Move, disk
<1>4. QueueConsistent'
  BY DEF IInv, TypeOK, QueueConsistent, WriteRaises, Handle, Finish, Move
<1>5. ProducerConsistent'
  <2>1. \A k \in Messages : result[k] \in Results => result'[k] \in Results
    BY DEF IInv, TypeOK, WriteRaises, RecordFailure, Results
  <2>2. Unfinished' \subseteq Unfinished
    BY DEF IInv, TypeOK, WriteRaises, Finish, Handle, Move, Unfinished, Queued, Busy
  <2>3. QED
    BY <2>1, <2>2 DEF IInv, ProducerConsistent, WriteRaises
<1>6. CountConsistent'
  <2>1. \A k \in Messages \ {m} :
          /\ at'[k] = at[k] /\ goal'[k] = goal[k]
          /\ result'[k] = result[k] /\ counted'[k] = counted[k]
    BY DEF IInv, TypeOK, WriteRaises, Finish, Handle, Move, RecordFailure
  <2>2. at[m] = "write" /\ producer' = producer /\ ~(m >= producer.next)
    BY DEF IInv, QueueConsistent, WriteRaises
  <2>3. CASE m \in handling
    BY <2>1, <2>2, <2>3
    DEF IInv, TypeOK, CountConsistent, WriteRaises, Finish, Move, Writing
  <2>4. CASE m \notin handling /\ goal[m] \in UploadStates
    BY <2>1, <2>2, <2>4
    DEF IInv, TypeOK, CountConsistent, WriteRaises, Handle, Writing, UploadStates,
        DownloadResults
  <2>5. CASE m \notin handling /\ goal[m] \notin UploadStates
    BY <2>1, <2>2, <2>5
    DEF IInv, TypeOK, CountConsistent, WriteRaises, Handle, RecordFailure, Writing, Results
  <2>6. QED
    BY <2>3, <2>4, <2>5
<1>7. QED
  BY <1>1, <1>2, <1>3, <1>4, <1>5, <1>6 DEF IInv

(* A success puts the file on the disk before its row can say so.          *)
LEMMA TransferStep ==
  ASSUME IInv, NEW m \in Messages, Transfer(m)
  PROVE  IInv'
<1>1. TypeOK'
  BY MappedType, NoSnapshotType DEF IInv, TypeOK, Steps, Transfer, Move, rows
<1>2. RowsAreBacked'
  BY DEF IInv, RowsAreBacked, Transfer, rows
<1>3. FilesConsistent'
  BY MappedType
  DEF IInv, TypeOK, FilesConsistent, Stored, Writing, BeforeUpload, UploadStates, Transfer,
      Move
<1>4. QueueConsistent'
  BY DEF IInv, QueueConsistent, Transfer, Move
<1>5. ProducerConsistent'
  BY DEF IInv, ProducerConsistent, Unfinished, Busy, Transfer
<1>6. CountConsistent'
  BY MappedType DEF IInv, TypeOK, CountConsistent, Writing, Transfer, Move
<1>7. QED
  BY <1>1, <1>2, <1>3, <1>4, <1>5, <1>6 DEF IInv

(* The permit goes back before the upload.                                 *)
LEMMA ReleasePermitStep ==
  ASSUME IInv, NEW m \in Messages, ReleasePermit(m)
  PROVE  IInv'
<1>1. TypeOK'
  <2>1. \E step \in Steps, status \in RowStatus : Move(m, step, status)
    BY DEF ReleasePermit, Steps, RowStatus
  <2>2. at' \in [Messages -> Steps] /\ goal' \in [Messages -> RowStatus]
        /\ keep' \subseteq Messages /\ handling' \subseteq Messages
        /\ snap' \in [Messages -> Snapshots]
    BY <2>1, MoveType DEF IInv
  <2>3. QED
    BY <2>2 DEF IInv, TypeOK, ReleasePermit, nodeVars, rows, disk
<1>2. RowsAreBacked'
  BY DEF IInv, RowsAreBacked, ReleasePermit, rows, disk
<1>3. FilesConsistent'
  BY DEF IInv, TypeOK, FilesConsistent, Stored, Writing, BeforeUpload, ReleasePermit, Move,
         nodeVars, disk
<1>4. QueueConsistent'
  BY DEF IInv, TypeOK, QueueConsistent, ReleasePermit, Move
<1>5. ProducerConsistent'
  BY DEF IInv, ProducerConsistent, Unfinished, Busy, ReleasePermit, nodeVars
<1>6. CountConsistent'
  BY DEF IInv, TypeOK, CountConsistent, Writing, ReleasePermit, Move, nodeVars
<1>7. QED
  BY <1>1, <1>2, <1>3, <1>4, <1>5, <1>6 DEF IInv

(* The file is in the cloud before its row can say so.                     *)
LEMMA UploadStep ==
  ASSUME IInv, NEW m \in Messages, Upload(m)
  PROVE  IInv'
<1>1. TypeOK'
  <2>1. \/ \E step \in Steps, status \in RowStatus : Move(m, step, status)
        \/ \E status \in RowStatus : Handle(m, status)
    BY DEF Upload, Steps, RowStatus
  <2>2. at' \in [Messages -> Steps] /\ goal' \in [Messages -> RowStatus]
        /\ keep' \subseteq Messages /\ handling' \subseteq Messages
        /\ snap' \in [Messages -> Snapshots]
    BY <2>1, MoveType, HandleType DEF IInv
  <2>3. cloud' \in [Messages -> {"none", "stored", "failed"}]
    BY DEF IInv, TypeOK, Upload
  <2>4. QED
    BY <2>2, <2>3 DEF IInv, TypeOK, Upload, nodeVars, rows
<1>2. RowsAreBacked'
  BY DEF IInv, TypeOK, RowsAreBacked, FilesConsistent, BeforeUpload, Upload, rows
<1>3. FilesConsistent'
  BY DEF IInv, TypeOK, FilesConsistent, Stored, Writing, BeforeUpload, Upload, Handle, Move,
         nodeVars
<1>4. QueueConsistent'
  BY DEF IInv, TypeOK, QueueConsistent, Upload, Handle, Move
<1>5. ProducerConsistent'
  BY DEF IInv, ProducerConsistent, Unfinished, Busy, Upload, nodeVars
<1>6. CountConsistent'
  BY DEF IInv, TypeOK, CountConsistent, Writing, DownloadResults, Upload, Handle, Move,
         nodeVars
<1>7. QED
  BY <1>1, <1>2, <1>3, <1>4, <1>5, <1>6 DEF IInv

(* A snapshot reads the status of the node.                                *)
LEMMA SnapshotStatusStep ==
  ASSUME IInv, NEW m \in Messages, SnapshotStatus(m)
  PROVE  IInv'
<1>1. TypeOK'
  <2>1. snap' \in [Messages -> Snapshots]
    BY StatusEffect DEF IInv
  <2>2. at' \in [Messages -> Steps]
    BY DEF IInv, TypeOK, SnapshotStatus, Steps
  <2>3. QED
    BY <2>1, <2>2 DEF IInv, TypeOK, SnapshotStatus, nodeVars, rows, disk
<1>2. RowsAreBacked'
  BY DEF IInv, RowsAreBacked, SnapshotStatus, rows, disk
<1>3. FilesConsistent'
  <2>1. /\ at[m] = "snapshot" /\ UNCHANGED <<goal, nodeVars, disk>>
        /\ \A k \in Messages \ {m} : snap'[k] = snap[k] /\ at'[k] = at[k]
    BY DEF SnapshotStatus
  <2>2. snap'[m].status # "none"
    BY StatusEffect DEF IInv, Terminal
  <2>3. at'[m] = "create"
    BY DEF IInv, TypeOK, SnapshotStatus
  <2>4. QED
    BY <2>1, <2>2, <2>3
    DEF IInv, FilesConsistent, Stored, Writing, BeforeUpload, nodeVars, disk
<1>4. QueueConsistent'
  BY DEF IInv, QueueConsistent, SnapshotStatus
<1>5. ProducerConsistent'
  BY DEF IInv, ProducerConsistent, Unfinished, Busy, SnapshotStatus, nodeVars
<1>6. CountConsistent'
  BY DEF IInv, CountConsistent, Writing, SnapshotStatus, nodeVars
<1>7. QED
  BY <1>1, <1>2, <1>3, <1>4, <1>5, <1>6 DEF IInv

(* A snapshot writes the task row and picks its first file row.            *)
LEMMA SnapshotTaskStep ==
  ASSUME IInv, NEW m \in Messages, SnapshotTask(m)
  PROVE  IInv'
<1>1. TypeOK'
  BY SnapshotTaskEffect DEF IInv, SnapshotGoesOn, TypeOK, SnapshotTask, nodeVars, disk
<1>2. RowsAreBacked'
  BY DEF IInv, RowsAreBacked, SnapshotTask, disk
<1>3. FilesConsistent'
  <2>1. at[m] = "create" /\ SnapshotGoesOn(m) /\ UNCHANGED <<nodeVars, disk>>
    BY SnapshotTaskEffect DEF SnapshotTask
  <2>2. QED
    BY <2>1, MappedType
    DEF IInv, TypeOK, FilesConsistent, SnapshotGoesOn, Stored, Writing, BeforeUpload,
        nodeVars, disk
<1>4. QueueConsistent'
  <2>1. at[m] = "create" /\ SnapshotGoesOn(m) /\ UNCHANGED <<producer, queue>>
    BY SnapshotTaskEffect DEF SnapshotTask
  <2>2. QED
    BY <2>1 DEF IInv, TypeOK, QueueConsistent, SnapshotGoesOn
<1>5. ProducerConsistent'
  BY DEF IInv, ProducerConsistent, Unfinished, Busy, SnapshotTask, nodeVars
<1>6. CountConsistent'
  BY SnapshotTaskEffect
  DEF IInv, CountConsistent, SnapshotGoesOn, Writing, SnapshotTask, nodeVars
<1>7. QED
  BY <1>1, <1>2, <1>3, <1>4, <1>5, <1>6 DEF IInv

(* A snapshot writes what it picked, which is still backed, and picks      *)
(* again.                                                                  *)
LEMMA SnapshotRowStep ==
  ASSUME IInv, NEW m \in Messages, SnapshotRow(m)
  PROVE  IInv'
<1>1. TypeOK'
  BY SnapshotRowEffect DEF IInv, SnapshotGoesOn, TypeOK, SnapshotRow, nodeVars, disk
<1>2. RowsAreBacked'
  BY DEF IInv, RowsAreBacked, FilesConsistent, Stored, SnapshotRow, UploadStates, disk
<1>3. FilesConsistent'
  <2>1. at[m] = "rows" /\ SnapshotGoesOn(m) /\ UNCHANGED <<nodeVars, disk>>
    BY SnapshotRowEffect DEF SnapshotRow
  <2>2. QED
    BY <2>1, MappedType
    DEF IInv, TypeOK, FilesConsistent, SnapshotGoesOn, Stored, Writing, BeforeUpload,
        nodeVars, disk
<1>4. QueueConsistent'
  <2>1. at[m] = "rows" /\ SnapshotGoesOn(m) /\ UNCHANGED <<producer, queue>>
    BY SnapshotRowEffect DEF SnapshotRow
  <2>2. QED
    BY <2>1 DEF IInv, TypeOK, QueueConsistent, SnapshotGoesOn
<1>5. ProducerConsistent'
  BY DEF IInv, ProducerConsistent, Unfinished, Busy, SnapshotRow, nodeVars
<1>6. CountConsistent'
  <2>1. at[m] = "rows" /\ SnapshotGoesOn(m) /\ UNCHANGED <<producer, nodeVars>>
    BY SnapshotRowEffect DEF SnapshotRow
  <2>2. QED
    BY <2>1 DEF IInv, CountConsistent, SnapshotGoesOn, Writing, nodeVars
<1>7. QED
  BY <1>1, <1>2, <1>3, <1>4, <1>5, <1>6 DEF IInv

(* The package task goes on; after the join no work is left.               *)
LEMMA WaitStep ==
  ASSUME IInv, Wait
  PROVE  IInv'
<1>1. TypeOK'
  BY DEF IInv, TypeOK, Wait, EndWait, Join, Settle, Abandon, life, nodeVars, rows, disk
<1>2. RowsAreBacked'
  BY DEF IInv, RowsAreBacked, Wait, rows, disk
<1>3. FilesConsistent'
  BY DEF IInv, FilesConsistent, Stored, Writing, BeforeUpload, Wait, life, nodeVars, disk
<1>4. QueueConsistent'
  <2>1. producer'.next = producer.next
    BY DEF IInv, TypeOK, Wait, EndWait, Join, Settle, Abandon
  <2>2. QED
    BY <2>1 DEF IInv, QueueConsistent, Wait, life
<1>5. ProducerConsistent'
  BY DEF IInv, TypeOK, ProducerConsistent, Unfinished, Queued, Busy, Wait, EndWait, Join,
         Settle, Abandon, life, nodeVars
<1>6. CountConsistent'
  BY MappedType
  DEF IInv, TypeOK, CountConsistent, Writing, Wait, EndWait, Join, Settle, Abandon, life,
      nodeVars
<1>7. QED
  BY <1>1, <1>2, <1>3, <1>4, <1>5, <1>6 DEF IInv

(* A stop changes neither results nor files.                               *)
LEMMA CancelStep ==
  ASSUME IInv, Cancel
  PROVE  IInv'
<1>1. TypeOK'
  BY DEF IInv, TypeOK, Terminal, Cancel, life, disk
<1>2. RowsAreBacked'
  BY DEF IInv, RowsAreBacked, Cancel, disk
<1>3. FilesConsistent'
  BY DEF IInv, FilesConsistent, Stored, Writing, BeforeUpload, Cancel, life, disk
<1>4. QueueConsistent'
  BY DEF IInv, QueueConsistent, Cancel, life
<1>5. ProducerConsistent'
  BY DEF IInv, ProducerConsistent, Unfinished, Queued, Busy, Cancel, life
<1>6. CountConsistent'
  BY DEF IInv, CountConsistent, Writing, Cancel, life
<1>7. QED
  BY <1>1, <1>2, <1>3, <1>4, <1>5, <1>6 DEF IInv
(* The package starts in the invariant, also when nothing is to be         *)
(* fetched.                                                                *)
LEMMA InitIInv ==
  ASSUME Init
  PROVE  IInv
<1>1. Last \in Nat /\ Missing \in Nat /\ Missing + 1 \in 1 .. Last + 1 /\ Missing \in 0 .. Last
      /\ (Fetched = 0 => Missing = Last)
  BY FileAssumption DEF Last
<1>2. TypeOK
  <2>1. producer \in [at : {"listing", "registering", "waiting", "joining", "settling",
                           "done", "abandoned"}, next : 1 .. Last + 1]
        /\ total \in 0 .. Last /\ faults \in 0 .. MaxFaults
    BY <1>1, FileAssumption DEF Init
  <2>2. result \in [Messages -> Results \union {"none"}] /\ counted = result
    BY DEF Init, Results
  <2>3. snap \in [Messages -> Snapshots]
    BY NoSnapshotType DEF Init
  <2>4. at \in [Messages -> Steps] /\ goal \in [Messages -> RowStatus]
        /\ file \in [Messages -> RowStatus]
    BY DEF Init, Steps, RowStatus
  <2>5. queue \in Seq(Messages)
    BY DEF Init
  <2>6. QED
    BY <2>1, <2>2, <2>3, <2>4, <2>5 DEF Init, TypeOK
<1>3. RowsAreBacked /\ FilesConsistent
  BY DEF Init, RowsAreBacked, FilesConsistent, Writing, UploadStates
<1>4. QueueConsistent
  BY DEF Init, QueueConsistent
<1>5. ProducerConsistent
  BY <1>1 DEF Init, ProducerConsistent
<1>6. CountConsistent
  BY <1>1 DEF Init, CountConsistent, Writing, Messages
<1>7. QED
  BY <1>2, <1>3, <1>4, <1>5, <1>6 DEF IInv

(* Every step keeps the invariant.                                         *)
LEMMA StepIInv ==
  ASSUME IInv, [Next]_vars
  PROVE  IInv'
<1>1. ASSUME NEW m \in Messages, Produce(m) PROVE IInv'
  BY <1>1, EnqueueRowStep, EnqueueFailsStep, EnqueueStep DEF Produce
<1>2. ASSUME NEW m \in Messages, Work(m) PROVE IInv'
  BY <1>2, TakeStep, ActivateStep, ReadTaskStep, WriteRowStep, WriteRaisesStep,
     TransferStep, ReleasePermitStep, UploadStep, SnapshotStatusStep, SnapshotTaskStep,
     SnapshotRowStep
  DEF Work
<1>3. CASE Wait
  BY <1>3, WaitStep
<1>4. CASE Cancel
  BY <1>4, CancelStep
<1>5. CASE UNCHANGED vars
  <2>1. TypeOK'
    BY <1>5 DEF IInv, TypeOK, vars, life, nodeVars, rows, disk
  <2>2. RowsAreBacked' /\ FilesConsistent'
    BY <1>5
    DEF IInv, RowsAreBacked, FilesConsistent, Stored, Writing, BeforeUpload, vars, life,
        nodeVars, rows, disk
  <2>3. QueueConsistent'
    BY <1>5 DEF IInv, QueueConsistent, vars, life
  <2>4. ProducerConsistent' /\ CountConsistent'
    BY <1>5
    DEF IInv, ProducerConsistent, CountConsistent, Unfinished, Queued, Busy, Writing, vars,
        life, nodeVars
  <2>5. QED
    BY <2>1, <2>2, <2>3, <2>4 DEF IInv
<1>6. QED
  BY <1>1, <1>2, <1>3, <1>4, <1>5 DEF Next

(* The rows, the snapshots under way, the queue, the package task and the  *)
(* counters agree in every reachable state.                                *)
THEOREM Invariant == Spec => []IInv
  BY InitIInv, StepIInv, PTL DEF Spec

(* Every variable keeps its type, the counters stay within the messages.   *)
THEOREM TypeCorrect == Spec => []TypeOK
<1>1. IInv => TypeOK
  BY DEF IInv
<1>2. QED
  BY <1>1, Invariant, PTL

(* No order of snapshots, failing writes and stops leaves a row that says  *)
(* more than the disk and the cloud hold (task_state.py, upload.py).       *)
THEOREM RowsBacked == Spec => []RowsAreBacked
<1>1. IInv => RowsAreBacked
  BY DEF IInv
<1>2. QED
  BY <1>1, Invariant, PTL

(* build_package_result runs when no file is queued or in work and no      *)
(* permit is out, whatever ended the wait: after the join nothing new      *)
(* starts.                                                                 *)
THEOREM ResultLast == Spec => []ResultAfterWork
<1>1. ASSUME IInv, producer.at = "done"
      PROVE  /\ Unfinished = {} /\ queue = <<>>
             /\ \A m \in Messages : permit[m] \in {"none", "released"}
  <2>1. Unfinished = {}
    BY <1>1 DEF IInv, ProducerConsistent
  <2>2. queue = <<>>
    <3>1. SUFFICES ASSUME queue # <<>> PROVE FALSE
      OBVIOUS
    <3>2. queue \in Seq(Messages) /\ Len(queue) \in Nat \ {0} /\ queue[1] \in Messages
      BY <1>1, <3>1 DEF IInv, TypeOK
    <3>3. at[queue[1]] = "queued"
      BY <1>1, <3>2 DEF IInv, QueueConsistent
    <3>4. QED
      BY <2>1, <3>2, <3>3 DEF Unfinished, Queued
  <2>3. ASSUME NEW m \in Messages PROVE permit[m] \in {"none", "released"}
    <3>1. at[m] \in {"absent", "over"}
      BY <1>1, <2>1 DEF Unfinished, Queued, Busy
    <3>2. QED
      BY <1>1, <3>1 DEF IInv, TypeOK, QueueConsistent
  <2>4. QED
    BY <2>1, <2>2, <2>3
<1>2. IInv => ResultAfterWork
  BY <1>1 DEF ResultAfterWork
<1>3. QED
  BY <1>2, Invariant, PTL

(* The numbers of the package result are those of download_status: no      *)
(* message is counted twice, and without a stop none is missed.            *)
THEOREM CountersCorrect == Spec => []CountersTellResults
<1>1. ASSUME IInv, producer.at = "done"
      PROVE  /\ \A m \in Messages : result[m] \in Results \/ counted[m] # "none"
                                        => counted[m] = result[m]
             /\ Cardinality(Counted) <= total
             /\ ~stop => Counted = Messages /\ total = Last
  <2>1. \A m \in Messages : at[m] \in {"absent", "over"}
    BY <1>1 DEF IInv, ProducerConsistent, Unfinished, Queued, Busy
  <2>2. \A m \in Messages : result[m] \in Results \/ counted[m] # "none"
                                => counted[m] = result[m]
    BY <1>1, <2>1 DEF IInv, CountConsistent, Writing
  <2>3. total = Last /\ Last \in Nat
    BY <1>1, MessagesFinite DEF IInv, ProducerConsistent
  <2>4. Cardinality(Counted) <= total
    BY <2>3, MessagesFinite DEF Counted
  <2>5. ~stop => Counted = Messages
    BY <1>1, <2>2 DEF IInv, ProducerConsistent, Counted, Results
  <2>6. QED
    BY <2>2, <2>3, <2>4, <2>5
<1>2. IInv => CountersTellResults
  BY <1>1 DEF CountersTellResults
<1>3. QED
  BY <1>2, Invariant, PTL

(* Each place that writes the task row leaves a terminal status alone:     *)
(* NodeStatus repeats it, a refused transition raises, a snapshot of       *)
(* another status ends, a cancel asks for a live task.                     *)
LEMMA TaskStep ==
  ASSUME TypeOK, task \in Terminal, [Next]_vars
  PROVE  task' = task
<1>1. NodeStatus = task
  BY DEF NodeStatus
<1>2. ASSUME NEW m \in Messages, Produce(m) PROVE task' = task
  BY <1>1, <1>2 DEF Produce, EnqueueRow, EnqueueFails, Enqueue, rows
<1>3. ASSUME NEW m \in Messages, WriteRow(m) PROVE task' = task
  BY <1>3 DEF WriteRow, Refused, Commit
<1>4. ASSUME NEW m \in Messages, SnapshotTask(m) PROVE task' = task
  BY <1>4 DEF SnapshotTask
<1>5. ASSUME NEW m \in Messages, Work(m) PROVE task' = task
  BY <1>3, <1>4, <1>5
  DEF Work, Take, Activate, ReadTask, WriteRaises, Transfer, ReleasePermit, Upload,
      SnapshotStatus, SnapshotRow, rows
<1>6. CASE Wait
  BY <1>6 DEF Wait, rows
<1>7. CASE Cancel
  BY <1>7 DEF Cancel, Terminal
<1>8. CASE UNCHANGED vars
  BY <1>8 DEF vars, rows
<1>9. QED
  BY <1>2, <1>5, <1>6, <1>7, <1>8 DEF Next

(* A status read before a cancel or a completion is never written after    *)
(* it (terminal_safe_task_updates, transition_file, create_task).          *)
THEOREM TerminalStays == Spec => TerminalTaskStays
<1>1. ASSUME TypeOK, [Next]_vars
      PROVE  [(task \in Terminal) => (task' = task)]_task
  BY <1>1, TaskStep
<1>2. QED
  BY <1>1, TypeCorrect, PTL DEF Spec, TerminalTaskStays
=============================================================================
