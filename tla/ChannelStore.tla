----------------------------- MODULE ChannelStore -----------------------------
(***************************************************************************)
(* The download tables of ChannelLibraryStore (channel_library_store.py):  *)
(* batches, the attempts of their packages, and the summary row of each    *)
(* package. Every operation is one BEGIN IMMEDIATE transaction and so one  *)
(* action. StoreNext lets anybody call any operation at any time: what is  *)
(* stated here holds whatever the callers do.                              *)
(*                                                                         *)
(* Left out: item snapshots, selections and revisions, and the columns no  *)
(* decision reads (timestamps, counters, titles).                          *)
(***************************************************************************)
EXTENDS FiniteSets

CONSTANTS
  Batches,    \* batches that may be created, one per idempotency key
  Packages,   \* packages of one library
  NoBatch,
  Outcomes    \* bound: the terminal statuses an attempt is given

VARIABLES
  batch,      \* batch[b]: status of the batch row, "absent" before it exists
  dispatch,   \* dispatch[b]: dispatch_status
  allow,      \* allow[b]: allow_redownload
  attempt,    \* attempt[b][p]: status of p's row in b, "none" without a row
  transient,  \* transient[b]: failed attempts whose last_error is a transient code
  current,    \* current[p]: current_download_status
  last,       \* last[p]: the batch of last_download_task_id
  succeeded   \* packages with has_successful_attempt

store == <<batch, dispatch, allow, attempt, transient, current, last, succeeded>>

-----------------------------------------------------------------------------
Active == {"queued", "downloading"}

AttemptTerminal ==
  {"completed", "completed_with_errors", "failed", "upload_failed", "cancelled", "not_found"}

ASSUME StoreAssumption ==
  /\ NoBatch \notin Batches
  /\ IsFiniteSet(Batches)
  /\ Outcomes \subseteq AttemptTerminal

RetryableAttempts == {"completed_with_errors", "failed", "not_found"}

RetryableBatches == {"completed_with_errors", "failed"}

(* Statuses that carry one of TRANSIENT_DOWNLOAD_ERROR_CODES at times.     *)
MayBeTransient == {"completed_with_errors", "failed"}

(* The status a batch gets from the statuses of all of its attempts.       *)
BatchStatusOf(statuses) ==
  CASE statuses = {"completed"} -> "completed"
    [] statuses # {"completed"} /\ statuses \subseteq {"completed", "cancelled"}
         -> "cancelled"
    [] ~(statuses \subseteq {"completed", "cancelled"})
         /\ statuses \cap {"completed", "completed_with_errors"} # {}
         -> "completed_with_errors"
    [] OTHER -> "failed"

(* What the package row says of an attempt.                                *)
SummaryOf(s) ==
  IF s \in Active \union {"completed", "cancelled"} THEN s ELSE "failed"

Members(b) == {p \in Packages : attempt[b][p] # "none"}

Unfinished(b) == {p \in Packages : attempt[b][p] \in Active}

(* Packages a batch other than b works on.                                 *)
Competing(b) ==
  {p \in Packages : \E c \in Batches \ {b} :
                      batch[c] \in Active /\ attempt[c][p] \in Active}

(* A mistake: any batch writes the package row.                            *)
LatestOfAny(b, P) == P

(* The package rows that belong to b and whose id is in P.                 *)
LatestOf(b, P) == {p \in P : last[p] = b}

SetSummary(P, s) == [p \in Packages |-> IF p \in P THEN s ELSE current[p]]

SetAttempts(b, P, s) ==
  [attempt EXCEPT ![b] = [p \in Packages |-> IF p \in P THEN s ELSE attempt[b][p]]]

-----------------------------------------------------------------------------
(* A package for which a full download asks for confirmation.              *)
NeedsConfirmation(p) == p \in succeeded \/ current[p] = "outdated"

(* A mistake: only the package row is asked, which an index can overwrite. *)
CreateBatchByRow(b, P) ==
  /\ batch[b] = "absent"
  /\ P # {}
  /\ \A p \in P : current[p] \notin Active
  /\ batch' = [batch EXCEPT ![b] = "queued"]
  /\ dispatch' = [dispatch EXCEPT ![b] = "pending"]
  /\ allow' = [allow EXCEPT ![b] = \E p \in P : NeedsConfirmation(p)]
  /\ attempt' = SetAttempts(b, P, "queued")
  /\ current' = SetSummary(P, "queued")
  /\ last' = [p \in Packages |-> IF p \in P THEN b ELSE last[p]]
  /\ UNCHANGED <<transient, succeeded>>

(* create_download_batch_result for a new key. The request confirms a      *)
(* redownload exactly when it has to; otherwise it is refused.             *)
CreateBatch(b, P) ==
  /\ batch[b] = "absent"
  /\ P # {}
  /\ P \cap Competing(b) = {}
  /\ \A p \in P : current[p] \notin Active
  /\ batch' = [batch EXCEPT ![b] = "queued"]
  /\ dispatch' = [dispatch EXCEPT ![b] = "pending"]
  /\ allow' = [allow EXCEPT ![b] = \E p \in P : NeedsConfirmation(p)]
  /\ attempt' = SetAttempts(b, P, "queued")
  /\ current' = SetSummary(P, "queued")
  /\ last' = [p \in Packages |-> IF p \in P THEN b ELSE last[p]]
  /\ UNCHANGED <<transient, succeeded>>

MarkDispatched(b) ==
  /\ batch[b] # "absent"
  /\ dispatch' = [dispatch EXCEPT ![b] = "dispatched"]
  /\ UNCHANGED <<batch, allow, attempt, transient, current, last, succeeded>>

(* mark_download_batch_package_started: anything but a queued attempt is a *)
(* state conflict.                                                         *)
PackageStarted(b, p) ==
  /\ attempt[b][p] = "queued"
  /\ attempt' = SetAttempts(b, {p}, "downloading")
  /\ current' = SetSummary(LatestOf(b, {p}), "downloading")
  /\ batch' = [batch EXCEPT ![b] = "downloading"]
  /\ UNCHANGED <<dispatch, allow, transient, last, succeeded>>

Resumable(b) == batch[b] \in Active

(* prepare_download_batch_for_run.                                         *)
PrepareForRun(b) ==
  /\ Resumable(b)
  /\ LET stale == {p \in Packages : attempt[b][p] = "downloading"} IN
       /\ attempt' = SetAttempts(b, stale, "queued")
       /\ current' = SetSummary(LatestOf(b, stale), "queued")
  /\ batch' = [batch EXCEPT ![b] = "queued"]
  /\ UNCHANGED <<dispatch, allow, transient, last, succeeded>>

Retryable(b) == {p \in Packages : attempt[b][p] \in RetryableAttempts}

(* A mistake: another batch may have taken the packages meanwhile.         *)
CanRetryIgnoringOthers(b) == batch[b] \in RetryableBatches /\ Retryable(b) # {}

CanRetry(b) ==
  /\ batch[b] \in RetryableBatches
  /\ Retryable(b) # {}
  /\ Retryable(b) \cap Competing(b) = {}

(* retry_download_batch.                                                   *)
RetryBatch(b) ==
  /\ CanRetry(b)
  /\ attempt' = SetAttempts(b, Retryable(b), "queued")
  /\ transient' = [transient EXCEPT ![b] = @ \ Retryable(b)]
  /\ current' = SetSummary(LatestOf(b, Retryable(b)), "queued")
  /\ batch' = [batch EXCEPT ![b] = "queued"]
  /\ UNCHANGED <<dispatch, allow, last, succeeded>>

(* A mistake: the batch is settled by the first of its packages.           *)
FinishPackageEarly(b, p, s, isTransient) ==
  /\ p \in Members(b)
  /\ attempt' = SetAttempts(b, {p}, s)
  /\ transient' = [transient EXCEPT ![b] = IF isTransient THEN @ \union {p} ELSE @ \ {p}]
  /\ current' = SetSummary(LatestOf(b, {p}), SummaryOf(s))
  /\ succeeded' = IF s = "completed" THEN succeeded \union LatestOf(b, {p}) ELSE succeeded
  /\ batch' = [batch EXCEPT ![b] = BatchStatusOf({attempt'[b][q] : q \in Members(b)})]
  /\ UNCHANGED <<dispatch, allow, last>>

(* finish_download_batch_package, whatever the attempt's status was. Only  *)
(* the package's latest batch writes the package row.                      *)
FinishPackage(b, p, s, isTransient) ==
  /\ p \in Members(b)
  /\ attempt' = SetAttempts(b, {p}, s)
  /\ transient' = [transient EXCEPT ![b] = IF isTransient THEN @ \union {p} ELSE @ \ {p}]
  /\ current' = SetSummary(LatestOf(b, {p}), SummaryOf(s))
  /\ succeeded' = IF s = "completed" THEN succeeded \union LatestOf(b, {p}) ELSE succeeded
  /\ batch' = IF Unfinished(b) \subseteq {p}
                THEN [batch EXCEPT ![b] = BatchStatusOf({attempt'[b][q] : q \in Members(b)})]
                ELSE batch
  /\ UNCHANGED <<dispatch, allow, last>>

(* A later index of the channel changes a package: its publication waits   *)
(* while the package is downloading, not while it is queued.               *)
PublishIndex(p) ==
  /\ current[p] # "downloading"
  /\ p \in succeeded
  /\ current' = SetSummary({p}, "outdated")
  /\ UNCHANGED <<batch, dispatch, allow, attempt, transient, last, succeeded>>

-----------------------------------------------------------------------------
StoreInit ==
  /\ batch = [b \in Batches |-> "absent"]
  /\ dispatch = [b \in Batches |-> "none"]
  /\ allow = [b \in Batches |-> FALSE]
  /\ attempt = [b \in Batches |-> [p \in Packages |-> "none"]]
  /\ transient = [b \in Batches |-> {}]
  /\ current = [p \in Packages |-> "never"]
  /\ last = [p \in Packages |-> NoBatch]
  /\ succeeded = {}

BatchOperation(b) ==
  \/ \E P \in SUBSET Packages : CreateBatch(b, P)
  \/ MarkDispatched(b)
  \/ PrepareForRun(b)
  \/ RetryBatch(b)

AttemptOperation(b, p) ==
  \/ PackageStarted(b, p)
  \/ \E s \in Outcomes : FinishPackage(b, p, s, FALSE)
  \/ \E s \in Outcomes \cap MayBeTransient : FinishPackage(b, p, s, TRUE)

StoreNext ==
  \/ \E b \in Batches : BatchOperation(b)
  \/ \E b \in Batches, p \in Packages : AttemptOperation(b, p)
  \/ \E p \in Packages : PublishIndex(p)

StoreSpec == StoreInit /\ [][StoreNext]_store

-----------------------------------------------------------------------------
StoreTypeOK ==
  /\ batch \in [Batches -> {"absent", "queued", "downloading", "completed",
                            "completed_with_errors", "failed", "cancelled"}]
  /\ dispatch \in [Batches -> {"none", "pending", "dispatched"}]
  /\ allow \in [Batches -> BOOLEAN]
  /\ attempt \in [Batches -> [Packages -> {"none"} \union Active \union AttemptTerminal]]
  /\ transient \in [Batches -> SUBSET Packages]
  /\ current \in [Packages -> {"never", "queued", "downloading", "completed",
                               "outdated", "failed", "cancelled"}]
  /\ last \in [Packages -> Batches \union {NoBatch}]
  /\ succeeded \subseteq Packages

(* "No package in another active batch": two batches never work on one     *)
(* package, however creations, retries and restarts interleave.            *)
OneActiveAttempt ==
  \A b, c \in Batches, p \in Packages :
    attempt[b][p] \in Active /\ attempt[c][p] \in Active => b = c

(* The batch row never disagrees with its attempts: it is active exactly   *)
(* while one of them is, and else it sums them up. A batch that is active  *)
(* without work would never end, one that is not would never be resumed.   *)
BatchMatchesAttempts ==
  \A b \in Batches :
    /\ Members(b) = {} <=> batch[b] = "absent"
    /\ Unfinished(b) # {} <=> batch[b] \in Active
    /\ batch[b] \notin Active \union {"absent"} =>
         batch[b] = BatchStatusOf({attempt[b][p] : p \in Members(b)})

(* The package row tells the story of the package's latest batch, whatever *)
(* its older batches still do: a row left at queued or downloading would   *)
(* keep the package from ever being downloaded again.                      *)
SummaryMatchesLatest ==
  \A p \in Packages :
    IF last[p] = NoBatch
      THEN current[p] = "never" /\ \A b \in Batches : attempt[b][p] = "none"
      ELSE \/ current[p] = SummaryOf(attempt[last[p]][p]) /\ p \in Members(last[p])
           \/ current[p] = "outdated" /\ p \in succeeded /\ p \in Members(last[p])

StoreInv ==
  StoreTypeOK /\ OneActiveAttempt /\ BatchMatchesAttempts /\ SummaryMatchesLatest

-----------------------------------------------------------------------------
Working(p) == {b \in Batches : attempt[b][p] \in Active}

OwnerOf ==
  [p \in Packages |-> IF Working(p) = {} THEN NoBatch ELSE CHOOSE b \in Batches : b \in Working(p)]

Lease == INSTANCE PackageLease WITH owner <- OwnerOf

(* The tables implement the lease: a package goes from one batch to        *)
(* another only after the first has given it back.                         *)
KeepsLease == Lease!Spec
=============================================================================
