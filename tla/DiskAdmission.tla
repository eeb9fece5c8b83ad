---------------------------- MODULE DiskAdmission ----------------------------
(***************************************************************************)
(* DiskSpaceAdmission (module/download_admission.py): packages reserve     *)
(* disk space before any of their files is queued, in order of arrival,    *)
(* except that a package that fits may pass a head that does not. What a   *)
(* package reserves is computed by ChannelLibraryService: all its files,   *)
(* or the files that the workers can have in hand at once, when every file *)
(* is deleted after its upload.                                            *)
(*                                                                         *)
(* Every critical section of the class contains no await, so a section     *)
(* that runs to the next await is one action: Acquire is the registration  *)
(* and the first turn of the loop, Recheck is every later turn.            *)
(*                                                                         *)
(* The files of admitted packages pass through the workers (Write,        *)
(* LeavesDisk, Keep); KeptGoes, Reclaim and ForeignWrite are the rest of   *)
(* the disk.                                                               *)
(***************************************************************************)
EXTENDS Integers, FiniteSets, Sequences, SequencesExt, Functions

CONSTANTS
  Keys,        \* reservation ids, "<batch>:<package>"
  Workers,     \* the download workers, max_download_task of them
  Total,       \* Total[k]: the package's known total, in units of bytes
  Largest,     \* Largest[k]: the size of its largest file
  Streams,     \* packages whose files are deleted when they are uploaded
  Disk,        \* bytes of the disk
  MinFree,     \* minimum_free_bytes
  MaxForeign   \* bound: bytes other writers take over a behaviour

ASSUME DiskAssumption ==
  /\ IsFiniteSet(Keys)
  /\ IsFiniteSet(Workers)
  /\ Total \in [Keys -> Nat]
  /\ Largest \in [Keys -> Nat]
  /\ Streams \subseteq Keys
  /\ Disk \in Nat
  /\ MinFree \in Nat
  /\ MaxForeign \in Nat

VARIABLES
  pc,         \* pc[k]: where the caller of acquire(k) stands
  waiting,    \* _waiting: the deque of waiting keys
  requested,  \* keys of _requested_bytes
  reserved,   \* keys of _reserved_bytes
  timer,      \* timer[k]: over_capacity_since of k's call
  free,       \* free bytes of the disk
  left,       \* left[k]: bytes of the holder's files that are not downloaded
  hand,       \* hand[k][w]: bytes on the disk of the file worker w has in hand
  stored,     \* stored[k]: bytes of finished files that are there to stay
  kept,       \* bytes of files of Streams that stay: their upload failed
  foreign     \* bytes taken by writers that hold no reservation

admission == <<waiting, requested, reserved>>
files == <<left, hand, stored, kept>>
disk == <<free, files, foreign>>
vars == <<pc, admission, timer, disk>>

-----------------------------------------------------------------------------
(* The definitions named ...Ignoring, ...Keeping and so on are deliberate   *)
(* mistakes: the runs show that the properties notice them.                *)

ReservationOfOneFile(k) == IF k \in Streams THEN Largest[k] ELSE Total[k]

(* _package_reservation_bytes: a package that streams reserves a file for  *)
(* each worker, but not more than all its files. (Its other case, a        *)
(* largest file of 0 bytes, is that of a package without bytes: one of     *)
(* unknown size fails before it asks.)                                     *)
Reservation(k) ==
  IF k \in Streams
  THEN Max({Largest[k], Min({Total[k], Cardinality(Workers) * Largest[k]})})
  ELSE Total[k]

Size == [k \in Keys |-> Reservation(k)]

ReservedTotal == SumFunctionOnSet(Size, reserved)

CanAdmitIgnoringMinimum(k) == free - ReservedTotal >= Size[k]

CanAdmit(k) == free - ReservedTotal - Size[k] >= MinFree

(* What the code takes for the space there would be once every reservation *)
(* is released.                                                            *)
CapacityBytes == free + ReservedTotal

OverCapacityOfEmptyDisk(k) == Size[k] + MinFree > Disk

OverCapacity(k) == Size[k] + MinFree > CapacityBytes

(* The queue q is the one the loop sees; in the first turn k was just      *)
(* appended to it.                                                         *)
MayAdmit(k, q) == CanAdmit(k) /\ (Head(q) = k \/ ~CanAdmit(Head(q)))

(* _notify_all, with k itself left at `at`.                                *)
NotifyAll(k, at) ==
  pc' = [j \in Keys |-> IF j = k THEN at
                        ELSE IF pc[j] = "parked" THEN "ready" ELSE pc[j]]

DiscardKeepingRequest(k) ==
  /\ waiting' = RemoveFirst(waiting, k)
  /\ reserved' = reserved \ {k}
  /\ UNCHANGED requested

(* _discard: every trace of k's request is dropped.                        *)
Discard(k) ==
  /\ waiting' = RemoveFirst(waiting, k)
  /\ requested' = requested \ {k}
  /\ reserved' = reserved \ {k}

(* _wait_for_change: k waits for a notification or its poll timer.         *)
Park(k, q, t) ==
  /\ waiting' = q
  /\ requested' = requested \union {k}
  /\ timer' = [timer EXCEPT ![k] = t]
  /\ pc' = [pc EXCEPT ![k] = "parked"]
  /\ UNCHANGED reserved

(* The turn in which the grace period is over: DiskCapacityExceededError.  *)
Exceeded(k, q, t) ==
  /\ OverCapacity(k) /\ t = "elapsed"
  /\ Discard(k)
  /\ timer' = [timer EXCEPT ![k] = "off"]
  /\ NotifyAll(k, "idle")

OverCapacityTurn(k, q, t) ==
  /\ OverCapacity(k) /\ t # "elapsed"
  /\ Park(k, q, "running")

WaitTurn(k, q) ==
  /\ ~OverCapacity(k) /\ ~MayAdmit(k, q)
  /\ Park(k, q, "off")

Admit(k, q) ==
  /\ ~OverCapacity(k) /\ MayAdmit(k, q)
  /\ waiting' = RemoveFirst(q, k)
  /\ requested' = requested \ {k}
  /\ reserved' = reserved \union {k}
  /\ timer' = [timer EXCEPT ![k] = "off"]
  /\ NotifyAll(k, "held")

(* One turn of the loop of acquire().                                      *)
Turn(k, q, t) ==
  /\ \/ Exceeded(k, q, t) /\ UNCHANGED left
     \/ OverCapacityTurn(k, q, t) /\ UNCHANGED left
     \/ WaitTurn(k, q) /\ UNCHANGED left
     \/ Admit(k, q) /\ left' = [left EXCEPT ![k] = Total[k]]
  /\ UNCHANGED <<free, hand, stored, kept, foreign>>

(* A key that is already requested or reserved raises ValueError and       *)
(* changes nothing, so it is a guard here.                                 *)
Acquire(k) ==
  /\ pc[k] = "idle"
  /\ k \notin requested /\ k \notin reserved
  /\ Turn(k, Append(waiting, k), "off")

Recheck(k) ==
  /\ pc[k] = "ready"
  /\ Turn(k, waiting, timer[k])

(* The poll timer resolves the waiter's future.                            *)
Poll(k) ==
  /\ pc[k] = "parked"
  /\ pc' = [pc EXCEPT ![k] = "ready"]
  /\ UNCHANGED <<admission, timer, disk>>

(* The grace period of a request that is over capacity runs out.           *)
Elapse(k) ==
  /\ timer[k] = "running"
  /\ timer' = [timer EXCEPT ![k] = "elapsed"]
  /\ UNCHANGED <<pc, admission, disk>>

(* The caller is cancelled in _wait_for_change: the except BaseException   *)
(* branch runs without an await.                                           *)
Cancel(k) ==
  /\ pc[k] \in {"parked", "ready"}
  /\ Discard(k)
  /\ timer' = [timer EXCEPT ![k] = "off"]
  /\ NotifyAll(k, "idle")
  /\ UNCHANGED disk

(* DiskReservation.release, once, when the package's lifecycle has ended   *)
(* (also when it ended early, with bytes never written), or when what its  *)
(* failed uploads kept is uploaded or removed.                             *)
Release(k) ==
  /\ pc[k] = "held"
  /\ reserved' = reserved \ {k}
  /\ NotifyAll(k, "idle")
  /\ left' = [left EXCEPT ![k] = 0]
  /\ hand' = [hand EXCEPT ![k] = [w \in Workers |-> 0]]
  /\ stored' = [stored EXCEPT ![k] = 0]
  /\ UNCHANGED <<waiting, requested, timer, free, kept, foreign>>

-----------------------------------------------------------------------------
(* The files of a package that holds a reservation: a worker has one of    *)
(* them in hand, of at most Largest[k] bytes, until its lifecycle ends.    *)

WritePastSize(k, w) ==
  /\ pc[k] = "held" /\ hand[k][w] < Largest[k] /\ free > 0
  /\ left' = [left EXCEPT ![k] = @ - 1]
  /\ hand' = [hand EXCEPT ![k][w] = @ + 1]
  /\ free' = free - 1
  /\ UNCHANGED <<pc, admission, timer, stored, kept, foreign>>

Write(k, w) ==
  /\ pc[k] = "held" /\ left[k] > 0 /\ hand[k][w] < Largest[k] /\ free > 0
  /\ left' = [left EXCEPT ![k] = @ - 1]
  /\ hand' = [hand EXCEPT ![k][w] = @ + 1]
  /\ free' = free - 1
  /\ UNCHANGED <<pc, admission, timer, stored, kept, foreign>>

EmptyHand(k, w) == hand' = [hand EXCEPT ![k][w] = 0]

(* The file leaves the disk: it is uploaded and deleted, or an attempt to  *)
(* download it failed, and the next one starts from the beginning.         *)
LeavesDisk(k, w) ==
  /\ hand[k][w] > 0
  /\ EmptyHand(k, w)
  /\ left' \in {left, [left EXCEPT ![k] = @ + hand[k][w]]}
  /\ free' = free + hand[k][w]
  /\ UNCHANGED <<pc, admission, timer, stored, kept, foreign>>

(* The file stays: uploaded files are not deleted, or this one could not   *)
(* be uploaded, or not be deleted then. The worker takes the next one.     *)
Keep(k, w) ==
  /\ hand[k][w] > 0
  /\ EmptyHand(k, w)
  /\ IF k \in Streams THEN kept' = kept + hand[k][w] /\ UNCHANGED stored
     ELSE stored' = [stored EXCEPT ![k] = @ + hand[k][w]] /\ UNCHANGED kept
  /\ UNCHANGED <<pc, admission, timer, free, left, foreign>>

(* Such a file is uploaded later, or cleaned up.                           *)
KeptGoes ==
  \E n \in 1 .. kept :
    /\ kept' = kept - n /\ free' = free + n
    /\ UNCHANGED <<pc, admission, timer, left, hand, stored, foreign>>

(* The rest of the disk.                                                   *)
InUse(k) == stored[k] + SumFunctionOnSet(hand[k], Workers)

Reclaim ==
  \E n \in 1 .. Disk :
    /\ free + n + kept + SumFunctionOnSet([k \in Keys |-> InUse(k)], Keys) <= Disk
    /\ free' = free + n
    /\ UNCHANGED <<pc, admission, timer, files, foreign>>

ForeignWrite ==
  /\ free > 0 /\ foreign < MaxForeign
  /\ free' = free - 1
  /\ foreign' = foreign + 1
  /\ UNCHANGED <<pc, admission, timer, files>>

-----------------------------------------------------------------------------
Init ==
  /\ pc = [k \in Keys |-> "idle"]
  /\ waiting = <<>>
  /\ requested = {}
  /\ reserved = {}
  /\ timer = [k \in Keys |-> "off"]
  /\ free \in 0 .. Disk
  /\ left = [k \in Keys |-> 0]
  /\ hand = [k \in Keys |-> [w \in Workers |-> 0]]
  /\ stored = [k \in Keys |-> 0]
  /\ kept = 0
  /\ foreign = 0

Caller(k) == Acquire(k) \/ Recheck(k) \/ Poll(k) \/ Elapse(k) \/ Cancel(k) \/ Release(k)

Next ==
  \/ \E k \in Keys : Caller(k)
  \/ \E k \in Keys, w \in Workers : Write(k, w) \/ LeavesDisk(k, w) \/ Keep(k, w)
  \/ KeptGoes
  \/ Reclaim
  \/ ForeignWrite

Spec == Init /\ [][Next]_vars

(* The event loop runs every ready task and fires every timer. Nothing     *)
(* makes a caller ask or a disk empty itself, and a package whose upload   *)
(* failed may hold its reservation for ever.                               *)
Fairness ==
  \A k \in Keys : /\ WF_vars(Recheck(k))
                  /\ WF_vars(Poll(k))
                  /\ WF_vars(Elapse(k))

FairSpec == Spec /\ Fairness

-----------------------------------------------------------------------------
TypeOK ==
  /\ pc \in [Keys -> {"idle", "parked", "ready", "held"}]
  /\ waiting \in Seq(Keys)
  /\ requested \subseteq Keys
  /\ reserved \subseteq Keys
  /\ timer \in [Keys -> {"off", "running", "elapsed"}]
  /\ free \in Nat
  /\ left \in [Keys -> Nat]
  /\ hand \in [Keys -> [Workers -> Nat]]
  /\ stored \in [Keys -> Nat]
  /\ kept \in Nat
  /\ foreign \in 0 .. MaxForeign

(* acquire() either returns a reservation or leaves nothing behind: the    *)
(* deque, the requests and the reservations always agree with the callers, *)
(* so that no cancelled or failed call keeps a place in the queue or a     *)
(* share of the disk.                                                      *)
NothingLeftBehind ==
  \A k \in Keys :
    /\ k \in requested <=> pc[k] \in {"parked", "ready"}
    /\ k \in reserved <=> pc[k] = "held"
    /\ Cardinality({i \in 1 .. Len(waiting) : waiting[i] = k})
         = IF k \in requested THEN 1 ELSE 0

(* What a package may still put on the disk, as far as it has reserved it. *)
Outstanding == [k \in Keys |-> Size[k] - InUse(k)]

(* A package that streams reserves less than it downloads, and whole files *)
(* come and go inside of its reservation. No package has more on the disk  *)
(* than it reserved, and what all admitted packages may still put there    *)
(* fits above the minimum. Two things are not in the books and are taken   *)
(* out: what writers without a reservation took, and the files that stay   *)
(* because their upload failed.                                            *)
OutstandingFits ==
  /\ \A k \in reserved : InUse(k) <= Size[k]
  /\ reserved # {} =>
       SumFunctionOnSet(Outstanding, reserved) + MinFree <= free + kept + foreign

(* "Admit package lifecycles ... while preserving free space": while any   *)
(* package is admitted the free space stays above the minimum, in every    *)
(* interleaving of transfers, uploads, releases, cancellations and         *)
(* deletions -- up to what writers without a reservation took and what     *)
(* failed uploads left behind.                                             *)
FreeSpacePreserved == reserved # {} => free + kept + foreign >= MinFree

(* Rule 1 and 2 of the class comment: the queue is never dragged to a halt *)
(* by a request that cannot be met. A call that waits while nobody holds a *)
(* reservation ends, or somebody is admitted, whoever else comes and goes. *)
PipelineMoves ==
  \A k \in Keys :
    (k \in requested /\ reserved = {}) ~> (k \notin requested \/ reserved # {})
=============================================================================
