------------------------ MODULE ChannelOutbox_proofs ------------------------
(***************************************************************************)
(* Proofs about the download tables and the service that writes them.      *)
(*                                                                         *)
(* First ChannelStore, for any sets of batches and packages and whoever    *)
(* calls its operations in whatever order: the rows agree with each other, *)
(* a package has one active attempt at most, and the tables implement the  *)
(* lease of PackageLease. These are statements about StoreSpec.            *)
(*                                                                         *)
(* Then ChannelOutbox: every commit of the service is an operation of      *)
(* ChannelStore, so that its invariants hold here; a completed attempt is  *)
(* never touched again; a restart keeps a cancellation; and the channel    *)
(* tables and the Web task rows agree whenever a batch is at rest.         *)
(***************************************************************************)
EXTENDS ChannelOutbox, TLAPS

-----------------------------------------------------------------------------
(* A package that succeeded belongs to some batch: without it an index     *)
(* publication could mark a package outdated that was never taken.         *)
SucceededWasTaken == \A p \in succeeded : last[p] # NoBatch

IInv == StoreInv /\ SucceededWasTaken

AttemptStatus == {"none"} \union Active \union AttemptTerminal

-----------------------------------------------------------------------------
(* What an update of the attempts of one batch does.                       *)
LEMMA AttemptsSet ==
  ASSUME StoreTypeOK, NEW b \in Batches, NEW P \in SUBSET Packages,
         NEW s \in AttemptStatus, attempt' = SetAttempts(b, P, s)
  PROVE  /\ attempt' \in [Batches -> [Packages -> AttemptStatus]]
         /\ \A p \in Packages : attempt'[b][p] = IF p \in P THEN s ELSE attempt[b][p]
         /\ \A c \in Batches \ {b} : attempt'[c] = attempt[c]
BY DEF StoreTypeOK, SetAttempts, AttemptStatus

(* Every set of statuses gives a batch one of the four terminal statuses.  *)
LEMMA BatchStatusTerminal ==
  ASSUME NEW statuses
  PROVE  BatchStatusOf(statuses) \in
           {"completed", "completed_with_errors", "failed", "cancelled"}
BY DEF BatchStatusOf

LEMMA StoreInitIInv == StoreInit => IInv
BY StoreAssumption
   DEF StoreInit, IInv, StoreInv, StoreTypeOK, OneActiveAttempt, BatchMatchesAttempts,
       SummaryMatchesLatest, SucceededWasTaken, Members, Unfinished, Active, AttemptTerminal

-----------------------------------------------------------------------------
(* Attempts of b that are queued or downloading are moved to s, one of the *)
(* two, or others of b are while no other batch works on them: no package  *)
(* gets a second active attempt, and b has work exactly when it is active. *)
LEMMA ActivateAttempts ==
  ASSUME IInv, NEW b \in Batches, NEW P \in SUBSET Packages, NEW s \in Active,
         P # {} \/ Unfinished(b) # {},
         P \cap Competing(b) = {},
         attempt' = SetAttempts(b, P, s), batch' = [batch EXCEPT ![b] = s]
  PROVE  OneActiveAttempt' /\ BatchMatchesAttempts'
<1> USE DEF IInv, StoreInv
<1>1. s \in AttemptStatus
  BY DEF AttemptStatus
<1>2. /\ \A p \in Packages : attempt'[b][p] = IF p \in P THEN s ELSE attempt[b][p]
      /\ \A c \in Batches \ {b} : attempt'[c] = attempt[c]
  BY <1>1, AttemptsSet
<1>3. \A c \in Batches \ {b}, p \in P : attempt[c][p] \notin Active
  BY DEF Competing, BatchMatchesAttempts, Unfinished
<1>4. OneActiveAttempt'
  <2> SUFFICES ASSUME NEW c \in Batches, NEW d \in Batches, NEW p \in Packages,
                      attempt'[c][p] \in Active, attempt'[d][p] \in Active
               PROVE  c = d
    BY DEF OneActiveAttempt
  <2>1. CASE p \in P
    BY <2>1, <1>2, <1>3
  <2>2. CASE p \notin P
    <3>1. attempt[c][p] \in Active /\ attempt[d][p] \in Active
      BY <2>2, <1>2
    <3>2. QED
      BY <3>1 DEF OneActiveAttempt
  <2>3. QED
    BY <2>1, <2>2
<1>5. BatchMatchesAttempts'
  <2> SUFFICES ASSUME NEW c \in Batches
               PROVE  /\ Members(c)' = {} <=> batch'[c] = "absent"
                      /\ Unfinished(c)' # {} <=> batch'[c] \in Active
                      /\ batch'[c] \notin Active \union {"absent"} =>
                           batch'[c] = BatchStatusOf({attempt'[c][p] : p \in Members(c)'})
    BY DEF BatchMatchesAttempts
  <2>1. CASE c = b
    <3>1. batch'[b] = s
      BY DEF StoreTypeOK
    <3>2. Members(b)' # {} /\ Unfinished(b)' # {}
      BY <1>2 DEF Members, Unfinished, Active
    <3>3. QED
      BY <2>1, <3>1, <3>2 DEF Active
  <2>2. CASE c # b
    <3>1. batch'[c] = batch[c] /\ attempt'[c] = attempt[c]
      BY <2>2, <1>2 DEF StoreTypeOK
    <3>2. Members(c)' = Members(c) /\ Unfinished(c)' = Unfinished(c)
      BY <3>1 DEF Members, Unfinished
    <3>3. {attempt'[c][p] : p \in Members(c)'} = {attempt[c][p] : p \in Members(c)}
      BY <3>1, <3>2
    <3>4. QED
      BY <3>1, <3>2, <3>3 DEF BatchMatchesAttempts
  <2>3. QED
    BY <2>1, <2>2
<1>6. QED
  BY <1>4, <1>5

(* The package rows of b's packages follow their attempts.                 *)
LEMMA SummaryFollows ==
  ASSUME IInv, NEW b \in Batches, NEW P \in SUBSET Members(b), NEW s \in AttemptStatus \ {"none"},
         attempt' = SetAttempts(b, P, s),
         current' = SetSummary(LatestOf(b, P), SummaryOf(s)),
         last' = last, succeeded \subseteq succeeded'
  PROVE  SummaryMatchesLatest'
<1> USE DEF IInv, StoreInv
<1>1. P \in SUBSET Packages
  BY DEF Members
<1>2. /\ \A p \in Packages : attempt'[b][p] = IF p \in P THEN s ELSE attempt[b][p]
      /\ \A c \in Batches \ {b} : attempt'[c] = attempt[c]
  BY <1>1, AttemptsSet DEF AttemptStatus
<1>3. \A p \in Packages :
        current'[p] = IF p \in P /\ last[p] = b THEN SummaryOf(s) ELSE current[p]
  BY DEF SetSummary, LatestOf
<1>4. \A c \in Batches, p \in Packages : p \in Members(c)' <=> p \in Members(c)
  BY <1>2 DEF Members
<1> SUFFICES ASSUME NEW p \in Packages
             PROVE  IF last[p] = NoBatch
                      THEN current'[p] = "never" /\ \A c \in Batches : attempt'[c][p] = "none"
                      ELSE \/ /\ current'[p] = SummaryOf(attempt'[last[p]][p])
                              /\ p \in Members(last[p])'
                           \/ /\ current'[p] = "outdated" /\ p \in succeeded'
                              /\ p \in Members(last[p])'
  BY DEF SummaryMatchesLatest
<1>5. last[p] \in Batches \union {NoBatch}
  BY DEF StoreTypeOK
<1>6. CASE last[p] = NoBatch
  <2>1. p \notin P
    BY <1>6 DEF SummaryMatchesLatest, Members
  <2>2. QED
    BY <1>6, <2>1, <1>2, <1>3 DEF SummaryMatchesLatest
<1>7. CASE last[p] = b
  <2>1. b # NoBatch
    BY StoreAssumption
  <2>2. CASE p \in P
    BY <1>7, <2>1, <2>2, <1>2, <1>3, <1>4
  <2>3. CASE p \notin P
    BY <1>7, <2>1, <2>3, <1>2, <1>3, <1>4 DEF SummaryMatchesLatest
  <2>4. QED
    BY <2>2, <2>3
<1>8. CASE last[p] \in Batches \ {b}
  <2>1. last[p] # NoBatch
    BY <1>8, StoreAssumption
  <2>2. attempt'[last[p]] = attempt[last[p]] /\ current'[p] = current[p]
    BY <1>8, <1>2, <1>3
  <2>3. QED
    BY <1>8, <2>1, <2>2, <1>4 DEF SummaryMatchesLatest
<1>9. QED
  BY <1>5, <1>6, <1>7, <1>8

-----------------------------------------------------------------------------
LEMMA CreateBatchIInv ==
  ASSUME IInv, NEW b \in Batches, NEW P \in SUBSET Packages, CreateBatch(b, P)
  PROVE  IInv'
<1> USE DEF IInv, StoreInv
<1>1. "queued" \in Active /\ "queued" \in AttemptStatus
  BY DEF Active, AttemptStatus
<1>2. OneActiveAttempt' /\ BatchMatchesAttempts'
  BY <1>1, ActivateAttempts DEF CreateBatch
<1>3. /\ attempt' \in [Batches -> [Packages -> AttemptStatus]]
      /\ \A p \in Packages : attempt'[b][p] = IF p \in P THEN "queued" ELSE attempt[b][p]
      /\ \A c \in Batches \ {b} : attempt'[c] = attempt[c]
  BY <1>1, AttemptsSet DEF CreateBatch
<1>4. StoreTypeOK'
  BY <1>3 DEF StoreTypeOK, CreateBatch, SetSummary, AttemptStatus
<1>5. \A p \in Packages : attempt[b][p] = "none"
  BY DEF CreateBatch, BatchMatchesAttempts, Members
<1>6. SummaryMatchesLatest'
  <2> SUFFICES ASSUME NEW p \in Packages
               PROVE  IF last'[p] = NoBatch
                        THEN /\ current'[p] = "never"
                             /\ \A c \in Batches : attempt'[c][p] = "none"
                        ELSE \/ /\ current'[p] = SummaryOf(attempt'[last'[p]][p])
                                /\ p \in Members(last[p])'
                             \/ /\ current'[p] = "outdated" /\ p \in succeeded'
                                /\ p \in Members(last[p])'
    BY DEF SummaryMatchesLatest
  <2>1. CASE p \in P
    <3>1. last'[p] = b /\ b # NoBatch /\ current'[p] = "queued" /\ attempt'[b][p] = "queued"
      BY <2>1, <1>3, StoreAssumption DEF CreateBatch, SetSummary
    <3>2. QED
      BY <3>1 DEF SummaryOf, Members, Active
  <2>2. CASE p \notin P
    <3>1. /\ last'[p] = last[p] /\ current'[p] = current[p] /\ succeeded' = succeeded
          /\ \A c \in Batches : attempt'[c][p] = attempt[c][p]
      BY <2>2, <1>3 DEF CreateBatch, SetSummary
    <3>2. last[p] # NoBatch => last[p] \in Batches
      BY DEF StoreTypeOK
    <3>3. QED
      BY <3>1, <3>2 DEF SummaryMatchesLatest, Members
  <2>3. QED
    BY <2>1, <2>2
<1>7. SucceededWasTaken'
  BY StoreAssumption DEF SucceededWasTaken, CreateBatch, StoreTypeOK
<1>8. QED
  BY <1>2, <1>4, <1>6, <1>7

(* The three operations that move attempts of b to an active status.       *)
LEMMA ActivateIInv ==
  ASSUME IInv, NEW b \in Batches, NEW P \in SUBSET Members(b), NEW s \in Active,
         P # {} \/ Unfinished(b) # {},
         P \cap Competing(b) = {},
         attempt' = SetAttempts(b, P, s), batch' = [batch EXCEPT ![b] = s],
         current' = SetSummary(LatestOf(b, P), s),
         transient' \in [Batches -> SUBSET Packages],
         UNCHANGED <<dispatch, allow, last, succeeded>>
  PROVE  IInv'
<1> USE DEF IInv, StoreInv
<1>1. P \in SUBSET Packages
  BY DEF Members
<1>2. s \in AttemptStatus \ {"none"} /\ SummaryOf(s) = s
  BY DEF AttemptStatus, Active, SummaryOf
<1>3. OneActiveAttempt' /\ BatchMatchesAttempts'
  BY <1>1, ActivateAttempts
<1>4. SummaryMatchesLatest'
  BY <1>2, SummaryFollows
<1>5. StoreTypeOK'
  <2>1. attempt' \in [Batches -> [Packages -> AttemptStatus]]
    BY <1>1, <1>2, AttemptsSet
  <2>2. QED
    BY <2>1 DEF StoreTypeOK, SetSummary, Active, AttemptStatus
<1>6. SucceededWasTaken'
  BY DEF SucceededWasTaken
<1>7. QED
  BY <1>3, <1>4, <1>5, <1>6

LEMMA PackageStartedIInv ==
  ASSUME IInv, NEW b \in Batches, NEW p \in Packages, PackageStarted(b, p)
  PROVE  IInv'
<1>1. {p} \in SUBSET Members(b) /\ "downloading" \in Active
  BY DEF PackageStarted, Members, Active
<1>2. {p} \cap Competing(b) = {}
  BY DEF PackageStarted, Competing, IInv, StoreInv, OneActiveAttempt, Active
<1>3. transient' \in [Batches -> SUBSET Packages]
  BY DEF PackageStarted, IInv, StoreInv, StoreTypeOK
<1>4. QED
  BY <1>1, <1>2, <1>3, ActivateIInv DEF PackageStarted

LEMMA RetryBatchIInv ==
  ASSUME IInv, NEW b \in Batches, RetryBatch(b)
  PROVE  IInv'
<1>1. Retryable(b) \in SUBSET Members(b) /\ "queued" \in Active
  BY DEF Retryable, RetryableAttempts, Members, Active
<1>2. transient' \in [Batches -> SUBSET Packages]
  BY DEF RetryBatch, IInv, StoreInv, StoreTypeOK
<1>3. QED
  BY <1>1, <1>2, ActivateIInv DEF RetryBatch, CanRetry

LEMMA PrepareForRunIInv ==
  ASSUME IInv, NEW b \in Batches, PrepareForRun(b)
  PROVE  IInv'
<1> DEFINE Stale == {p \in Packages : attempt[b][p] = "downloading"}
<1>1. Stale \in SUBSET Members(b) /\ "queued" \in Active
  BY DEF Members, Active
<1>2. Unfinished(b) # {}
  BY DEF PrepareForRun, Resumable, IInv, StoreInv, BatchMatchesAttempts
<1>3. Stale \cap Competing(b) = {}
  BY DEF Competing, IInv, StoreInv, OneActiveAttempt, Active
<1>4. transient' \in [Batches -> SUBSET Packages]
  BY DEF PrepareForRun, IInv, StoreInv, StoreTypeOK
<1>5. /\ attempt' = SetAttempts(b, Stale, "queued") /\ batch' = [batch EXCEPT ![b] = "queued"]
      /\ current' = SetSummary(LatestOf(b, Stale), "queued")
      /\ UNCHANGED <<dispatch, allow, last, succeeded>>
  BY DEF PrepareForRun
<1> HIDE DEF Stale
<1>6. QED
  BY <1>1, <1>2, <1>3, <1>4, <1>5, ActivateIInv

(* What finishing does to the attempts.                                    *)
LEMMA AttemptFinished ==
  ASSUME StoreTypeOK, NEW b \in Batches, NEW p \in Packages, NEW s \in AttemptTerminal,
         NEW isTransient \in BOOLEAN, FinishPackage(b, p, s, isTransient)
  PROVE  /\ s \in AttemptStatus \ {"none"} /\ s \notin Active
         /\ attempt' \in [Batches -> [Packages -> AttemptStatus]]
         /\ \A q \in Packages : attempt'[b][q] = IF q = p THEN s ELSE attempt[b][q]
         /\ \A c \in Batches \ {b} : attempt'[c] = attempt[c]
<1>1. s \in AttemptStatus \ {"none"} /\ s \notin Active
  BY DEF AttemptStatus, AttemptTerminal, Active
<1>2. attempt' = SetAttempts(b, {p}, s) /\ {p} \in SUBSET Packages
  BY DEF FinishPackage
<1>3. /\ attempt' \in [Batches -> [Packages -> AttemptStatus]]
      /\ \A q \in Packages : attempt'[b][q] = IF q \in {p} THEN s ELSE attempt[b][q]
      /\ \A c \in Batches \ {b} : attempt'[c] = attempt[c]
  BY <1>1, <1>2, AttemptsSet
<1>4. QED
  BY <1>1, <1>3

LEMMA FinishPackageIInv ==
  ASSUME IInv, NEW b \in Batches, NEW p \in Packages, NEW s \in AttemptTerminal,
         NEW isTransient \in BOOLEAN, FinishPackage(b, p, s, isTransient)
  PROVE  IInv'
<1> USE DEF IInv, StoreInv
<1>1. /\ p \in Members(b) /\ {p} \in SUBSET Members(b)
      /\ s \in AttemptStatus \ {"none"} /\ s \notin Active
  BY DEF FinishPackage, AttemptStatus, AttemptTerminal, Active
<1>2. /\ attempt' \in [Batches -> [Packages -> AttemptStatus]]
      /\ \A q \in Packages : attempt'[b][q] = IF q = p THEN s ELSE attempt[b][q]
      /\ \A c \in Batches \ {b} : attempt'[c] = attempt[c]
  BY AttemptFinished
<1>3. OneActiveAttempt'
  <2>1. \A c \in Batches, q \in Packages : attempt'[c][q] \in Active => attempt[c][q] \in Active
    BY <1>1, <1>2
  <2>2. QED
    BY <2>1 DEF OneActiveAttempt
<1>4. /\ Members(b)' = Members(b)
      /\ Unfinished(b)' = Unfinished(b) \ {p}
  BY <1>1, <1>2 DEF Members, Unfinished
<1> DEFINE Settled == BatchStatusOf({attempt'[b][q] : q \in Members(b)})
<1>5. batch' = IF Unfinished(b) \subseteq {p} THEN [batch EXCEPT ![b] = Settled] ELSE batch
  BY DEF FinishPackage
<1>6. Settled \in {"completed", "completed_with_errors", "failed", "cancelled"}
  BY BatchStatusTerminal
<1>7. Settled = BatchStatusOf({attempt'[b][q] : q \in Members(b)'})
  BY <1>4
<1> HIDE DEF Settled
<1>8. BatchMatchesAttempts'
  <2> SUFFICES ASSUME NEW c \in Batches
               PROVE  /\ Members(c)' = {} <=> batch'[c] = "absent"
                      /\ Unfinished(c)' # {} <=> batch'[c] \in Active
                      /\ batch'[c] \notin Active \union {"absent"} =>
                           batch'[c] = BatchStatusOf({attempt'[c][q] : q \in Members(c)'})
    BY DEF BatchMatchesAttempts
  <2>1. CASE c = b /\ Unfinished(b) \subseteq {p}
    <3>1. batch'[b] = Settled
      BY <2>1, <1>5 DEF StoreTypeOK
    <3>2. Unfinished(b)' = {} /\ Members(b)' # {}
      BY <2>1, <1>1, <1>4
    <3>3. QED
      BY <2>1, <3>1, <3>2, <1>6, <1>7 DEF Active
  <2>2. CASE c = b /\ ~(Unfinished(b) \subseteq {p})
    <3>1. batch'[b] = batch[b] /\ batch[b] \in Active
      BY <2>2, <1>5 DEF BatchMatchesAttempts
    <3>2. Unfinished(b)' # {} /\ Members(b)' # {}
      BY <2>2, <1>1, <1>4
    <3>3. QED
      BY <2>2, <3>1, <3>2 DEF Active
  <2>3. CASE c # b
    <3>1. batch'[c] = batch[c] /\ attempt'[c] = attempt[c]
      BY <2>3, <1>2, <1>5 DEF StoreTypeOK
    <3>2. Members(c)' = Members(c) /\ Unfinished(c)' = Unfinished(c)
      BY <3>1 DEF Members, Unfinished
    <3>3. {attempt'[c][q] : q \in Members(c)'} = {attempt[c][q] : q \in Members(c)}
      BY <3>1, <3>2
    <3>4. QED
      BY <3>1, <3>2, <3>3 DEF BatchMatchesAttempts
  <2>4. QED
    BY <2>1, <2>2, <2>3
<1>9. succeeded \subseteq succeeded' /\ succeeded' \subseteq succeeded \union LatestOf(b, {p})
  BY DEF FinishPackage
<1>10. SummaryMatchesLatest'
  BY <1>1, <1>9, SummaryFollows DEF FinishPackage
<1>11. SummaryOf(s) \in {"completed", "failed", "cancelled"}
  BY DEF SummaryOf, AttemptTerminal, Active
<1>12. StoreTypeOK'
  <2>1. current' \in [Packages -> {"never", "queued", "downloading", "completed",
                                   "outdated", "failed", "cancelled"}]
    BY <1>11 DEF FinishPackage, SetSummary, StoreTypeOK
  <2>2. transient' \in [Batches -> SUBSET Packages] /\ succeeded' \subseteq Packages
    BY <1>9 DEF FinishPackage, StoreTypeOK, LatestOf
  <2>3. batch' \in [Batches -> {"absent", "queued", "downloading", "completed",
                                "completed_with_errors", "failed", "cancelled"}]
    BY <1>5, <1>6 DEF StoreTypeOK
  <2>4. QED
    BY <1>2, <2>1, <2>2, <2>3 DEF StoreTypeOK, FinishPackage, AttemptStatus
<1>13. SucceededWasTaken'
  BY <1>9, StoreAssumption DEF SucceededWasTaken, LatestOf, FinishPackage
<1>14. QED
  BY <1>3, <1>8, <1>10, <1>12, <1>13

(* The rows the invariant relates are unchanged.                           *)
LEMMA RowsUnchangedIInv ==
  ASSUME IInv, UNCHANGED <<batch, allow, attempt, transient, current, last, succeeded>>,
         dispatch' \in [Batches -> {"none", "pending", "dispatched"}]
  PROVE  IInv'
<1> USE DEF IInv, StoreInv
<1>1. StoreTypeOK'
  BY DEF StoreTypeOK
<1>2. OneActiveAttempt' /\ SucceededWasTaken'
  BY DEF OneActiveAttempt, SucceededWasTaken
<1>3. BatchMatchesAttempts'
  <2>1. \A b \in Batches : Members(b)' = Members(b) /\ Unfinished(b)' = Unfinished(b)
    BY DEF Members, Unfinished
  <2>2. QED
    BY <2>1 DEF BatchMatchesAttempts
<1>4. SummaryMatchesLatest'
  BY DEF SummaryMatchesLatest, Members
<1>5. QED
  BY <1>1, <1>2, <1>3, <1>4

LEMMA MarkDispatchedIInv ==
  ASSUME IInv, NEW b \in Batches, MarkDispatched(b)
  PROVE  IInv'
<1>1. dispatch' \in [Batches -> {"none", "pending", "dispatched"}]
  BY DEF MarkDispatched, IInv, StoreInv, StoreTypeOK
<1>2. QED
  BY <1>1, RowsUnchangedIInv DEF MarkDispatched

LEMMA PublishIndexIInv ==
  ASSUME IInv, NEW p \in Packages, PublishIndex(p)
  PROVE  IInv'
<1> USE DEF IInv, StoreInv
<1>1. StoreTypeOK'
  BY DEF StoreTypeOK, PublishIndex, SetSummary
<1>2. OneActiveAttempt' /\ BatchMatchesAttempts' /\ SucceededWasTaken'
  BY DEF OneActiveAttempt, BatchMatchesAttempts, SucceededWasTaken, PublishIndex, Members,
         Unfinished
<1>3. last[p] # NoBatch
  BY DEF PublishIndex, SucceededWasTaken
<1>4. SummaryMatchesLatest'
  BY <1>3 DEF SummaryMatchesLatest, PublishIndex, SetSummary, Members
<1>5. QED
  BY <1>1, <1>2, <1>4

LEMMA NextIInv == IInv /\ [StoreNext]_store => IInv'
<1> SUFFICES ASSUME IInv, [StoreNext]_store PROVE IInv'
  OBVIOUS
<1>1. ASSUME NEW b \in Batches, BatchOperation(b) PROVE IInv'
  BY <1>1, CreateBatchIInv, MarkDispatchedIInv, PrepareForRunIInv, RetryBatchIInv
     DEF BatchOperation
<1>2. ASSUME NEW b \in Batches, NEW p \in Packages, AttemptOperation(b, p) PROVE IInv'
  <2>1. CASE PackageStarted(b, p)
    BY <2>1, PackageStartedIInv
  <2>2. ASSUME NEW s \in Outcomes, NEW t \in BOOLEAN, FinishPackage(b, p, s, t) PROVE IInv'
    BY <2>2, StoreAssumption, FinishPackageIInv
  <2>3. QED
    BY <1>2, <2>1, <2>2 DEF AttemptOperation
<1>3. ASSUME NEW p \in Packages, PublishIndex(p) PROVE IInv'
  BY <1>3, PublishIndexIInv
<1>4. CASE UNCHANGED store
  BY <1>4, RowsUnchangedIInv DEF store, IInv, StoreInv, StoreTypeOK
<1>5. QED
  BY <1>1, <1>2, <1>3, <1>4 DEF StoreNext

LEMMA StoreInvariant == StoreSpec => []IInv
BY StoreInitIInv, NextIInv, PTL DEF StoreSpec

(* Every row stays in its type, whoever calls the operations.              *)
THEOREM StoreTypeCorrect == StoreSpec => []StoreTypeOK
<1>1. IInv => StoreTypeOK
  BY DEF IInv, StoreInv
<1>2. QED
  BY <1>1, StoreInvariant, PTL

(* Two batches never work on one package.                                  *)
THEOREM OneAttemptPerPackage == StoreSpec => []OneActiveAttempt
<1>1. IInv => OneActiveAttempt
  BY DEF IInv, StoreInv
<1>2. QED
  BY <1>1, StoreInvariant, PTL

(* The batch row is active exactly while one of its attempts is.           *)
THEOREM BatchRowCorrect == StoreSpec => []BatchMatchesAttempts
<1>1. IInv => BatchMatchesAttempts
  BY DEF IInv, StoreInv
<1>2. QED
  BY <1>1, StoreInvariant, PTL

(* The package row tells of the package's latest batch.                    *)
THEOREM PackageRowCorrect == StoreSpec => []SummaryMatchesLatest
<1>1. IInv => SummaryMatchesLatest
  BY DEF IInv, StoreInv
<1>2. QED
  BY <1>1, StoreInvariant, PTL

-----------------------------------------------------------------------------
(* The owner of a package, without the choice in OwnerOf.                  *)
OwnerAgrees ==
  /\ OwnerOf = [p \in Packages |-> OwnerOf[p]]
  /\ \A p \in Packages :
       /\ \A b \in Batches : OwnerOf[p] = b <=> attempt[b][p] \in Active
       /\ OwnerOf[p] = NoBatch <=> \A b \in Batches : attempt[b][p] \notin Active

LEMMA OwnerIsWorking == OneActiveAttempt => OwnerAgrees
<1> SUFFICES ASSUME OneActiveAttempt PROVE OwnerAgrees
  OBVIOUS
<1>1. OwnerOf = [p \in Packages |-> OwnerOf[p]]
  BY DEF OwnerOf
<1> SUFFICES ASSUME NEW p \in Packages
             PROVE  /\ \A b \in Batches : OwnerOf[p] = b <=> attempt[b][p] \in Active
                    /\ OwnerOf[p] = NoBatch <=> \A b \in Batches : attempt[b][p] \notin Active
  BY <1>1 DEF OwnerAgrees
<1>2. CASE Working(p) = {}
  <2>1. OwnerOf[p] = NoBatch
    BY <1>2 DEF OwnerOf
  <2>2. \A b \in Batches : attempt[b][p] \notin Active
    BY <1>2 DEF Working
  <2>3. QED
    BY <2>1, <2>2, StoreAssumption
<1>3. CASE Working(p) # {}
  <2>1. PICK b \in Batches : attempt[b][p] \in Active
    BY <1>3 DEF Working
  <2>2. \A c \in Batches : c \in Working(p) <=> c = b
    BY <2>1 DEF Working, OneActiveAttempt
  <2>3. OwnerOf[p] = CHOOSE c \in Batches : c \in Working(p)
    BY <1>3 DEF OwnerOf
  <2>4. OwnerOf[p] \in Batches /\ OwnerOf[p] \in Working(p)
    BY <2>2, <2>3
  <2>5. OwnerOf[p] = b
    BY <2>2, <2>4
  <2>6. QED
    BY <2>1, <2>5, StoreAssumption DEF OneActiveAttempt
<1>4. QED
  BY <1>2, <1>3

(* A step that leaves every attempt as active as it was moves no lease.    *)
LEMMA NoLeaseMoves ==
  ASSUME OwnerAgrees, OwnerAgrees',
         \A b \in Batches, p \in Packages : attempt'[b][p] \in Active <=> attempt[b][p] \in Active
  PROVE  UNCHANGED OwnerOf
<1>1. \A p \in Packages : OwnerOf'[p] = OwnerOf[p]
  <2> SUFFICES ASSUME NEW p \in Packages PROVE OwnerOf'[p] = OwnerOf[p]
    OBVIOUS
  <2>1. CASE \E b \in Batches : attempt[b][p] \in Active
    BY <2>1 DEF OwnerAgrees
  <2>2. CASE \A b \in Batches : attempt[b][p] \notin Active
    BY <2>2 DEF OwnerAgrees
  <2>3. QED
    BY <2>1, <2>2
<1>2. QED
  BY <1>1 DEF OwnerAgrees

(* Inactive attempts of b become active: b takes their packages.           *)
LEMMA LeaseTaken ==
  ASSUME StoreTypeOK, OwnerAgrees, OwnerAgrees', NEW b \in Batches,
         NEW P \in SUBSET Packages, P # {},
         attempt' = SetAttempts(b, P, "queued"),
         P \cap Unfinished(b) = {},
         \A c \in Batches \ {b}, p \in P : attempt[c][p] \notin Active
  PROVE  Lease!Next
<1>1. /\ \A p \in Packages : attempt'[b][p] = IF p \in P THEN "queued" ELSE attempt[b][p]
      /\ \A c \in Batches \ {b} : attempt'[c] = attempt[c]
  BY AttemptsSet DEF AttemptStatus, Active
<1>2. \A p \in P : OwnerOf[p] = NoBatch
  BY DEF OwnerAgrees, Unfinished
<1>3. \A p \in P : OwnerOf'[p] = b
  BY <1>1 DEF OwnerAgrees, Active
<1>4. \A p \in Packages \ P : OwnerOf'[p] = OwnerOf[p]
  <2> SUFFICES ASSUME NEW p \in Packages \ P PROVE OwnerOf'[p] = OwnerOf[p]
    OBVIOUS
  <2>1. \A c \in Batches : attempt'[c][p] = attempt[c][p]
    BY <1>1
  <2>2. CASE \E c \in Batches : attempt[c][p] \in Active
    BY <2>1, <2>2 DEF OwnerAgrees
  <2>3. CASE \A c \in Batches : attempt[c][p] \notin Active
    BY <2>1, <2>3 DEF OwnerAgrees
  <2>4. QED
    BY <2>2, <2>3
<1>5. OwnerOf' = [p \in Packages |-> IF p \in P THEN b ELSE OwnerOf[p]]
  BY <1>3, <1>4 DEF OwnerAgrees
<1>6. Lease!Take(b, P)
  BY <1>2, <1>5 DEF Lease!Take
<1>7. QED
  BY <1>6 DEF Lease!Next

LEMMA CreateTakes ==
  ASSUME IInv, OwnerAgrees, OwnerAgrees', NEW b \in Batches, NEW P \in SUBSET Packages,
         CreateBatch(b, P)
  PROVE  Lease!Next
<1> USE DEF IInv, StoreInv
<1>1. \A c \in Batches \ {b}, p \in P : attempt[c][p] \notin Active
  BY DEF CreateBatch, Competing, BatchMatchesAttempts, Unfinished
<1>2. Unfinished(b) = {}
  BY DEF CreateBatch, BatchMatchesAttempts, Members, Unfinished, Active
<1>3. QED
  BY <1>1, <1>2, LeaseTaken DEF CreateBatch

LEMMA RetryTakes ==
  ASSUME IInv, OwnerAgrees, OwnerAgrees', NEW b \in Batches, RetryBatch(b)
  PROVE  Lease!Next
<1> USE DEF IInv, StoreInv
<1>1. \A c \in Batches \ {b}, p \in Retryable(b) : attempt[c][p] \notin Active
  BY DEF RetryBatch, CanRetry, Competing, BatchMatchesAttempts, Unfinished, Retryable
<1>2. Retryable(b) \cap Unfinished(b) = {}
  BY DEF Retryable, RetryableAttempts, Unfinished, Active
<1>3. Retryable(b) \in SUBSET Packages /\ Retryable(b) # {}
  BY DEF Retryable, RetryBatch, CanRetry
<1>4. QED
  BY <1>1, <1>2, <1>3, LeaseTaken DEF RetryBatch

(* Attempts that move between queued and downloading keep their lease.     *)
LEMMA ActiveMoveKeeps ==
  ASSUME IInv, OwnerAgrees, OwnerAgrees', NEW b \in Batches, NEW P \in SUBSET Unfinished(b),
         NEW s \in Active, attempt' = SetAttempts(b, P, s)
  PROVE  UNCHANGED OwnerOf
<1>1. P \in SUBSET Packages /\ s \in AttemptStatus
  BY DEF Unfinished, AttemptStatus
<1>2. /\ \A p \in Packages : attempt'[b][p] = IF p \in P THEN s ELSE attempt[b][p]
      /\ \A c \in Batches \ {b} : attempt'[c] = attempt[c]
  BY <1>1, AttemptsSet DEF IInv, StoreInv
<1>3. QED
  BY <1>2, NoLeaseMoves DEF Unfinished

LEMMA FinishGives ==
  ASSUME IInv, OwnerAgrees, OwnerAgrees', NEW b \in Batches, NEW p \in Packages,
         NEW s \in AttemptTerminal, NEW isTransient \in BOOLEAN,
         FinishPackage(b, p, s, isTransient)
  PROVE  Lease!Next \/ UNCHANGED OwnerOf
<1>1. StoreTypeOK
  BY DEF IInv, StoreInv
<1>2. /\ s \notin Active
      /\ \A q \in Packages : attempt'[b][q] = IF q = p THEN s ELSE attempt[b][q]
      /\ \A c \in Batches \ {b} : attempt'[c] = attempt[c]
  BY <1>1, AttemptFinished
<1>3. CASE attempt[b][p] \notin Active
  BY <1>2, <1>3, NoLeaseMoves
<1>4. CASE attempt[b][p] \in Active
  <2>1. OwnerOf[p] = b
    BY <1>4 DEF OwnerAgrees
  <2>2. \A c \in Batches : attempt'[c][p] \notin Active
    BY <1>2, <1>4 DEF IInv, StoreInv, OneActiveAttempt
  <2>3. OwnerOf'[p] = NoBatch
    BY <2>2 DEF OwnerAgrees
  <2>4. \A q \in Packages \ {p} : OwnerOf'[q] = OwnerOf[q]
    <3> SUFFICES ASSUME NEW q \in Packages \ {p} PROVE OwnerOf'[q] = OwnerOf[q]
      OBVIOUS
    <3>1. \A c \in Batches : attempt'[c][q] = attempt[c][q]
      BY <1>2
    <3>2. CASE \E c \in Batches : attempt[c][q] \in Active
      BY <3>1, <3>2 DEF OwnerAgrees
    <3>3. CASE \A c \in Batches : attempt[c][q] \notin Active
      BY <3>1, <3>3 DEF OwnerAgrees
    <3>4. QED
      BY <3>2, <3>3
  <2>5. OwnerOf' = [OwnerOf EXCEPT ![p] = NoBatch]
    BY <2>3, <2>4 DEF OwnerAgrees
  <2>6. Lease!Give(b, p)
    BY <2>1, <2>5 DEF Lease!Give
  <2>7. QED
    BY <2>6 DEF Lease!Next
<1>5. QED
  BY <1>3, <1>4

LEMMA StepKeepsLease ==
  ASSUME IInv, OwnerAgrees, OwnerAgrees', [StoreNext]_store
  PROVE  Lease!Next \/ UNCHANGED OwnerOf
<1>1. ASSUME NEW b \in Batches, BatchOperation(b) PROVE Lease!Next \/ UNCHANGED OwnerOf
  <2>1. CASE MarkDispatched(b)
    BY <2>1, NoLeaseMoves DEF MarkDispatched
  <2>2. CASE PrepareForRun(b)
    <3>1. PICK P \in SUBSET Unfinished(b) : attempt' = SetAttempts(b, P, "queued")
      BY <2>2 DEF PrepareForRun, Unfinished, Active
    <3>2. QED
      BY <3>1, ActiveMoveKeeps DEF Active
  <2>3. QED
    BY <1>1, <2>1, <2>2, CreateTakes, RetryTakes DEF BatchOperation
<1>2. ASSUME NEW b \in Batches, NEW p \in Packages, AttemptOperation(b, p)
      PROVE  Lease!Next \/ UNCHANGED OwnerOf
  <2>1. CASE PackageStarted(b, p)
    <3>1. {p} \in SUBSET Unfinished(b) /\ attempt' = SetAttempts(b, {p}, "downloading")
      BY <2>1 DEF PackageStarted, Unfinished, Active
    <3>2. QED
      BY <3>1, ActiveMoveKeeps DEF Active
  <2>2. ASSUME NEW s \in Outcomes, NEW t \in BOOLEAN, FinishPackage(b, p, s, t)
        PROVE  Lease!Next \/ UNCHANGED OwnerOf
    BY <2>2, StoreAssumption, FinishGives
  <2>3. QED
    BY <1>2, <2>1, <2>2 DEF AttemptOperation
<1>3. ASSUME NEW p \in Packages, PublishIndex(p) PROVE UNCHANGED OwnerOf
  BY <1>3, NoLeaseMoves DEF PublishIndex
<1>4. CASE UNCHANGED store
  BY <1>4, NoLeaseMoves DEF store
<1>5. QED
  BY <1>1, <1>2, <1>3, <1>4 DEF StoreNext

(* The tables implement the lease: whoever calls the operations, a package *)
(* goes to another batch only after the first has given it back.           *)
THEOREM StoreKeepsLease == StoreSpec => KeepsLease
<1>1. StoreInit => Lease!Init
  BY DEF StoreInit, Lease!Init, OwnerOf, Working, Active
<1>2. IInv => OwnerAgrees
  BY OwnerIsWorking DEF IInv, StoreInv
<1>3. IInv /\ OwnerAgrees /\ OwnerAgrees' /\ [StoreNext]_store => [Lease!Next]_OwnerOf
  BY StepKeepsLease
<1>4. QED
  BY <1>1, <1>2, <1>3, StoreInvariant, PTL DEF StoreSpec, KeepsLease, Lease!Spec

-----------------------------------------------------------------------------
(* The inductive invariant.                                                *)

RunPc == {"none", "waiting", "preparing", "admitting", "transfer", "ending"}

Working3 == {"preparing", "admitting", "transfer"}

(* What the loop is doing, between two commits.                            *)
Claiming(b) == Doing("claim", b) \/ Doing("sizes", b)

Rejecting(b) == Doing("reject", b) \/ Doing("rejected", b)

Cancelling(b) == Doing("cancel", b) \/ Doing("timeout", b)

LoopOf(b) ==
  /\ Claiming(b) => run[b] = [NoRun EXCEPT !.pc = "preparing"]
  /\ Rejecting(b) => /\ run[b].pc \in {"preparing", "admitting"}
                     /\ attempt[b][run[b].package] = "failed"
                     /\ loop.status \in AttemptTerminal
  /\ Doing("leftover", b) => run[b].pc = "ending" /\ run[b].fault = "no"
  /\ Doing("abort", b) => run[b].pc = "ending" /\ run[b].fault # "no"
  /\ Doing("timeout", b) => HasNode(b)
  /\ Doing("cancel", b) => run[b].pc = "none"
  /\ Doing("retry", b) => run[b].pc = "none" /\ batch[b] \in Active
  /\ Doing("requeue", b) \/ Doing("requeued", b) => phase = "stopping"

(* Packages a run still answers for are the unfinished ones of its batch.  *)
TodoOf(b) ==
  /\ HasNode(b) /\ ~Claiming(b) /\ ~Doing("timeout", b) /\ run[b].fault = "no" =>
       Unfinished(b) = IF Rejecting(b) THEN run[b].todo \ {run[b].package} ELSE run[b].todo
  /\ run[b].pc \in Working3 /\ ~Claiming(b) =>
       run[b].package \in run[b].todo /\ run[b].fault = "no"
  /\ run[b].pc = "ending" /\ run[b].fault = "no" => run[b].stop \/ run[b].todo = {}
  /\ HasNode(b) => b \notin callback

(* While the process is up somebody answers for every active batch, and    *)
(* only a node or the loop may leave the task of an ended one active.      *)
WorkOf(b) ==
  phase = "up" =>
    /\ dispatch[b] = "pending" => request[b] \in {"ensure", "mark"}
    /\ batch[b] \in Active => run[b].pc # "none" \/ request[b] # "no" \/ loop.batch = b
    /\ task[b] = "active" => batch[b] \in Active \/ HasNode(b) \/ loop.batch = b
    /\ task[b] = "active" /\ Doing("leftover", b) => run[b].stop

(* Nothing exists for a batch before the request that creates it.          *)
OriginOf(b) ==
  /\ batch[b] = "absent" <=> dispatch[b] = "none"
  /\ batch[b] = "absent" =>
       task[b] = "absent" /\ run[b].pc = "none" /\ request[b] = "no" /\ loop.batch # b

(* Startup works its way through the databases with nothing running.       *)
StartupOf(b) ==
  /\ phase \notin {"up", "stopping"} => run[b] = NoRun /\ request[b] = "no" /\ loop.batch # b
  /\ phase = "tasks" /\ b \in recheck => task[b] \in TaskLive
  /\ phase \in {"tasks", "batches"} =>
       /\ dispatch[b] # "pending"
       /\ task[b] = "active" => b \in recheck \/ batch[b] \in Active

LoopIdle ==
  /\ loop.batch = NoBatch <=> loop = Idle
  /\ phase = "batches" => recheck = {}

BatchInv(b) ==
  LoopOf(b) /\ TodoOf(b) /\ WorkOf(b) /\ OriginOf(b) /\ StartupOf(b)

(* What TypeOK says of the variables of the service.                       *)
RunRecord ==
  [pc : {"none", "waiting", "preparing", "admitting", "transfer", "ending"},
   package : Packages \union {NoPackage},
   todo : SUBSET Packages,
   stop : BOOLEAN,
   fault : {"no", "callback", "download"}]

LoopRecord ==
  [op : {"idle", "claim", "sizes", "reject", "rejected", "leftover", "abort",
         "cancel", "timeout", "retry", "requeue", "requeued"},
   batch : Batches \union {NoBatch},
   status : {"none"} \union AttemptTerminal]

RowTypes ==
  /\ task \in [Batches -> {"absent"} \union TaskLive \union TaskTerminal]
  /\ evidence \in [Batches -> [Packages -> Evidence]]

ProcessTypes ==
  /\ phase \in {"down", "dispatch", "tasks", "batches", "up", "stopping"}
  /\ recheck \subseteq Batches
  /\ callback \subseteq Batches
  /\ retried \subseteq Batches
  /\ loop \in LoopRecord
  /\ request \in [Batches -> {"no", "ensure", "mark", "schedule"}]
  /\ restarts \in 0 .. MaxRestarts
  /\ requests \in 0 .. MaxRequests

RunTypes == run \in [Batches -> RunRecord]

ServiceTypes == RowTypes /\ ProcessTypes /\ RunTypes

LEMMA TypesSplit == TypeOK <=> StoreTypeOK /\ ServiceTypes
BY DEF TypeOK, ServiceTypes, RowTypes, ProcessTypes, RunTypes, RunRecord, LoopRecord

-----------------------------------------------------------------------------
(* What the operations of the store do to the rows of batch b.             *)

OtherRows(b) ==
  \A c \in Batches \ {b} : /\ batch'[c] = batch[c]
                           /\ attempt'[c] = attempt[c]
                           /\ dispatch'[c] = dispatch[c]

(* Attempts outside P that are not active stay what they are.              *)
SettledOutside(b, P) ==
  \A q \in Packages \ P : attempt[b][q] \notin Active => attempt'[b][q] = attempt[b][q]

LEMMA FinishRows ==
  ASSUME IInv, NEW b \in Batches, NEW p, NEW s \in AttemptTerminal,
         NEW isTransient \in BOOLEAN, FinishPackage(b, p, s, isTransient)
  PROVE  /\ IInv'
         /\ p \in Packages /\ attempt'[b][p] = s
         /\ Unfinished(b)' = Unfinished(b) \ {p}
         /\ batch[b] # "absent" /\ batch'[b] # "absent"
         /\ dispatch' = dispatch
         /\ OtherRows(b) /\ SettledOutside(b, {p})
<1>1. p \in Packages /\ p \in Members(b)
  BY DEF FinishPackage, Members
<1>2. IInv'
  BY <1>1, FinishPackageIInv
<1>3. /\ s \notin Active
      /\ \A q \in Packages : attempt'[b][q] = IF q = p THEN s ELSE attempt[b][q]
      /\ \A c \in Batches \ {b} : attempt'[c] = attempt[c]
  BY <1>1, AttemptFinished DEF IInv, StoreInv
<1>4. Unfinished(b)' = Unfinished(b) \ {p}
  BY <1>1, <1>3 DEF Unfinished
<1>5. dispatch' = dispatch /\ \A c \in Batches \ {b} : batch'[c] = batch[c]
  BY DEF FinishPackage, IInv, StoreInv, StoreTypeOK
<1>6. batch[b] # "absent"
  BY <1>1 DEF IInv, StoreInv, BatchMatchesAttempts
<1>7. batch'[b] # "absent"
  <2>1. p \in Members(b)'
    BY <1>1, <1>3 DEF Members, AttemptTerminal
  <2> QED BY <1>2, <2>1 DEF IInv, StoreInv, BatchMatchesAttempts
<1> QED BY <1>1, <1>2, <1>3, <1>4, <1>5, <1>6, <1>7 DEF OtherRows, SettledOutside

Finishes(b, p, s) == \E t \in BOOLEAN : FinishPackage(b, p, s, t)

LEMMA FinishedRows ==
  ASSUME IInv, NEW b \in Batches, NEW p, NEW s \in AttemptTerminal, Finishes(b, p, s)
  PROVE  /\ IInv'
         /\ p \in Packages /\ attempt'[b][p] = s
         /\ Unfinished(b)' = Unfinished(b) \ {p}
         /\ batch[b] # "absent" /\ batch'[b] # "absent"
         /\ dispatch' = dispatch
         /\ OtherRows(b) /\ SettledOutside(b, {p})
<1>1. CASE FinishPackage(b, p, s, TRUE)
  BY <1>1, FinishRows
<1>2. CASE FinishPackage(b, p, s, FALSE)
  BY <1>2, FinishRows
<1> QED BY <1>1, <1>2 DEF Finishes

LEMMA PrepareRows ==
  ASSUME IInv, NEW b \in Batches, PrepareForRun(b)
  PROVE  /\ IInv'
         /\ Unfinished(b)' = Unfinished(b)
         /\ batch[b] # "absent" /\ batch'[b] = "queued"
         /\ dispatch' = dispatch
         /\ OtherRows(b) /\ SettledOutside(b, {})
<1> DEFINE stale == {p \in Packages : attempt[b][p] = "downloading"}
<1>1. IInv'
  BY PrepareForRunIInv
<1>2. attempt' = SetAttempts(b, stale, "queued") /\ stale \in SUBSET Packages
  BY DEF PrepareForRun
<1>3. "queued" \in AttemptStatus
  BY DEF AttemptStatus, Active
<1> HIDE DEF stale
<1>4. /\ \A p \in Packages : attempt'[b][p] = IF p \in stale THEN "queued" ELSE attempt[b][p]
      /\ \A c \in Batches \ {b} : attempt'[c] = attempt[c]
  BY <1>2, <1>3, AttemptsSet DEF IInv, StoreInv
<1>5. Unfinished(b)' = Unfinished(b) /\ SettledOutside(b, {})
  BY <1>4 DEF Unfinished, Active, SettledOutside, stale
<1>6. /\ batch[b] # "absent" /\ batch'[b] = "queued" /\ dispatch' = dispatch
      /\ \A c \in Batches \ {b} : batch'[c] = batch[c]
  BY DEF PrepareForRun, Resumable, Active, IInv, StoreInv, StoreTypeOK
<1> QED BY <1>1, <1>4, <1>5, <1>6 DEF OtherRows

LEMMA StartedRows ==
  ASSUME IInv, NEW b \in Batches, NEW p \in Packages, PackageStarted(b, p)
  PROVE  /\ IInv'
         /\ Unfinished(b)' = Unfinished(b)
         /\ batch[b] # "absent" /\ batch'[b] = "downloading"
         /\ dispatch' = dispatch
         /\ OtherRows(b) /\ SettledOutside(b, {})
<1>1. IInv'
  BY PackageStartedIInv
<1>2. attempt' = SetAttempts(b, {p}, "downloading") /\ attempt[b][p] = "queued"
  BY DEF PackageStarted
<1>3. "downloading" \in AttemptStatus
  BY DEF AttemptStatus, Active
<1>4. /\ \A q \in Packages : attempt'[b][q] = IF q \in {p} THEN "downloading" ELSE attempt[b][q]
      /\ \A c \in Batches \ {b} : attempt'[c] = attempt[c]
  BY <1>2, <1>3, AttemptsSet DEF IInv, StoreInv
<1>5. Unfinished(b)' = Unfinished(b) /\ SettledOutside(b, {})
  BY <1>2, <1>4 DEF Unfinished, Active, SettledOutside
<1>6. /\ batch'[b] = "downloading" /\ dispatch' = dispatch
      /\ \A c \in Batches \ {b} : batch'[c] = batch[c]
  BY DEF PackageStarted, IInv, StoreInv, StoreTypeOK
<1>7. batch[b] # "absent"
  BY <1>2 DEF IInv, StoreInv, BatchMatchesAttempts, Members
<1> QED BY <1>1, <1>4, <1>5, <1>6, <1>7 DEF OtherRows

LEMMA RetryRows ==
  ASSUME IInv, NEW b \in Batches, RetryBatch(b)
  PROVE  /\ IInv'
         /\ Unfinished(b) = {}
         /\ batch[b] # "absent" /\ batch[b] \notin Active /\ batch'[b] = "queued"
         /\ dispatch' = dispatch
         /\ OtherRows(b)
         /\ \A q \in Packages : attempt[b][q] = "completed" => attempt'[b][q] = "completed"
<1>1. IInv'
  BY RetryBatchIInv
<1>2. attempt' = SetAttempts(b, Retryable(b), "queued") /\ Retryable(b) \in SUBSET Packages
  BY DEF RetryBatch, Retryable
<1>3. "queued" \in AttemptStatus
  BY DEF AttemptStatus, Active
<1>4. /\ \A q \in Packages : attempt'[b][q] = IF q \in Retryable(b) THEN "queued" ELSE attempt[b][q]
      /\ \A c \in Batches \ {b} : attempt'[c] = attempt[c]
  BY <1>2, <1>3, AttemptsSet DEF IInv, StoreInv
<1>5. /\ batch[b] \in RetryableBatches
      /\ batch'[b] = "queued" /\ dispatch' = dispatch
      /\ \A c \in Batches \ {b} : batch'[c] = batch[c]
  BY DEF RetryBatch, CanRetry, IInv, StoreInv, StoreTypeOK
<1>6. batch[b] # "absent" /\ batch[b] \notin Active /\ Unfinished(b) = {}
  BY <1>5 DEF RetryableBatches, Active, IInv, StoreInv, BatchMatchesAttempts
<1>7. \A q \in Packages : attempt[b][q] = "completed" => attempt'[b][q] = "completed"
  BY <1>4 DEF Retryable, RetryableAttempts
<1> QED BY <1>1, <1>4, <1>5, <1>6, <1>7 DEF OtherRows

LEMMA CreateRows ==
  ASSUME IInv, NEW b \in Batches, NEW P \in SUBSET Packages, CreateBatch(b, P)
  PROVE  /\ IInv'
         /\ Members(b) = {}
         /\ batch[b] = "absent" /\ batch'[b] = "queued" /\ dispatch'[b] = "pending"
         /\ OtherRows(b)
<1>1. IInv'
  BY CreateBatchIInv
<1>2. attempt' = SetAttempts(b, P, "queued")
  BY DEF CreateBatch
<1>3. "queued" \in AttemptStatus
  BY DEF AttemptStatus, Active
<1>4. \A c \in Batches \ {b} : attempt'[c] = attempt[c]
  BY <1>2, <1>3, AttemptsSet DEF IInv, StoreInv
<1>5. /\ batch[b] = "absent" /\ batch'[b] = "queued" /\ dispatch'[b] = "pending"
      /\ \A c \in Batches \ {b} : batch'[c] = batch[c] /\ dispatch'[c] = dispatch[c]
  BY DEF CreateBatch, IInv, StoreInv, StoreTypeOK
<1>6. Members(b) = {}
  BY <1>5 DEF IInv, StoreInv, BatchMatchesAttempts
<1> QED BY <1>1, <1>4, <1>5, <1>6 DEF OtherRows

LEMMA MarkRows ==
  ASSUME IInv, NEW b \in Batches, MarkDispatched(b)
  PROVE  /\ IInv'
         /\ batch' = batch /\ attempt' = attempt
         /\ batch[b] # "absent" /\ dispatch'[b] = "dispatched"
         /\ OtherRows(b)
<1>1. IInv'
  BY MarkDispatchedIInv
<1> QED BY <1>1 DEF MarkDispatched, OtherRows, IInv, StoreInv, StoreTypeOK

-----------------------------------------------------------------------------
(* Every commit of the service is an operation of the store.               *)

LEMMA FinishIsOperation ==
  ASSUME NEW b \in Batches, NEW p, NEW s \in AttemptTerminal, NEW t \in BOOLEAN,
         t => s \in MayBeTransient, FinishPackage(b, p, s, t)
  PROVE  StoreNext
<1>1. p \in Packages
  BY DEF FinishPackage, Members
<1>2. s \in Outcomes
  BY OutboxAssumption
<1>3. CASE t
  <2>1. FinishPackage(b, p, s, TRUE) /\ s \in MayBeTransient
    BY <1>3
  <2> QED BY <1>1, <1>2, <2>1 DEF StoreNext, AttemptOperation
<1>4. CASE ~t
  <2>1. FinishPackage(b, p, s, FALSE)
    BY <1>4
  <2> QED BY <1>1, <1>2, <2>1 DEF StoreNext, AttemptOperation
<1> QED BY <1>3, <1>4

LEMMA BatchOperationIsOperation ==
  ASSUME NEW b \in Batches,
         \/ \E P \in SUBSET Packages : CreateBatch(b, P)
         \/ MarkDispatched(b)
         \/ PrepareForRun(b)
         \/ RetryBatch(b)
  PROVE  StoreNext
BY DEF StoreNext, BatchOperation

LEMMA StatusesAreTerminal ==
  /\ \A e, stop : Outcome(e, stop) \subseteq AttemptTerminal
  /\ \A e, stop : OutcomeOfRejected(e, stop) \subseteq AttemptTerminal
  /\ \A b, p : Proven(b, p) \in AttemptTerminal
  /\ \A stop : Unstarted(stop) \in AttemptTerminal
  /\ {"failed", "cancelled"} \subseteq AttemptTerminal
<1>1. \A stop : Unstarted(stop) \in AttemptTerminal
  BY DEF Unstarted, AttemptTerminal
<1>2. \A e, stop : Outcome(e, stop) \subseteq AttemptTerminal
  BY <1>1 DEF Outcome, AttemptTerminal
<1>3. \A e, stop : OutcomeOfRejected(e, stop) \subseteq AttemptTerminal
  BY <1>1 DEF OutcomeOfRejected, AttemptTerminal
<1>4. \A b, p : Proven(b, p) \in AttemptTerminal
  BY DEF Proven, AttemptTerminal
<1> QED BY <1>1, <1>2, <1>3, <1>4 DEF AttemptTerminal

LEMMA WebIsOperation ==
  ASSUME NEW b \in Batches, Web(b)
  PROVE  [StoreNext]_store
<1>1. CASE EnsureTask(b) \/ Schedule(b)
  BY <1>1 DEF EnsureTask, Schedule
<1>2. CASE MarkOutbox(b)
  BY <1>2, BatchOperationIsOperation DEF MarkOutbox
<1> QED BY <1>1, <1>2 DEF Web

LEMMA RunIsOperation ==
  ASSUME NEW b \in Batches, ServiceTypes, LoopIdle, LoopOf(b), TodoOf(b), Run(b)
  PROVE  [StoreNext]_store
<1>1. CASE StartRun(b) \/ RequeueBatch(b)
  BY <1>1, BatchOperationIsOperation DEF StartRun, RequeueBatch
<1>2. CASE \/ ClaimTask(b) \/ ActivateNode(b) \/ RequestDisk(b) \/ RejectFiles(b)
           \/ EndPackages(b) \/ EndNormally(b) \/ EndAborted(b) \/ EndCancelled(b)
           \/ RetryTask(b) \/ StopRun(b) \/ RequeueTask(b)
  BY <1>2 DEF ClaimTask, ActivateNode, RequestDisk, RejectFiles, EndPackages, EndNormally,
              EndAborted, EndCancelled, RetryTask, StopRun, RequeueTask
<1>3. CASE FailUnknownSize(b)
  BY <1>3, FinishIsOperation, StatusesAreTerminal DEF FailUnknownSize
<1>4. CASE StartPackage(b)
  <2>1. CASE UNCHANGED store
    BY <2>1
  <2>2. CASE PackageStarted(b, run[b].package)
    <3>1. run[b].package \in run[b].todo
      BY <1>4, StoreAssumption
         DEF StartPackage, Ready, Idle, TodoOf, Working3, Claiming, Doing
    <3>2. run[b].package \in Packages
      BY <3>1 DEF ServiceTypes, RunTypes, RunRecord
    <3> QED BY <2>2, <3>2 DEF StoreNext, AttemptOperation
  <2> QED BY <1>4, <2>1, <2>2 DEF StartPackage
<1>5. CASE FinishTransfer(b)
  <2>1. PICK s \in Outcome(evidence[b][run[b].package], run[b].stop) :
          \/ FinishPackage(b, run[b].package, s, FALSE)
          \/ s \in MayBeTransient /\ FinishPackage(b, run[b].package, s, TRUE)
    BY <1>5 DEF FinishTransfer
  <2> QED BY <2>1, FinishIsOperation, StatusesAreTerminal
<1>6. CASE FinishRejected(b)
  BY <1>6, FinishIsOperation DEF FinishRejected, LoopOf, Rejecting
<1>7. CASE FinishLeftover(b)
  <2>1. PICK p \in run[b].todo :
          FinishPackage(b, p, Unstarted(run[b].stop), ~run[b].stop)
    BY <1>7 DEF FinishLeftover
  <2>2. (~run[b].stop) \in BOOLEAN /\ Unstarted(run[b].stop) \in AttemptTerminal
    BY StatusesAreTerminal
  <2>3. ~run[b].stop => Unstarted(run[b].stop) \in MayBeTransient
    BY DEF Unstarted, MayBeTransient
  <2> QED BY <2>1, <2>2, <2>3, FinishIsOperation
<1>8. CASE AbortPackage(b)
  <2>1. PICK p \in Unfinished(b) : FinishPackage(b, p, "failed", run[b].fault = "download")
    BY <1>8 DEF AbortPackage
  <2>2. (run[b].fault = "download") \in BOOLEAN /\ "failed" \in MayBeTransient
    BY DEF MayBeTransient
  <2> QED BY <2>1, <2>2, FinishIsOperation, StatusesAreTerminal
<1>9. CASE DoneCallback(b)
  BY <1>9, BatchOperationIsOperation DEF DoneCallback
<1>10. CASE CancelPackage(b)
  BY <1>10, FinishIsOperation, StatusesAreTerminal DEF CancelPackage
<1> QED BY <1>1, <1>2, <1>3, <1>4, <1>5, <1>6, <1>7, <1>8, <1>9, <1>10 DEF Run

LEMMA RecoverIsOperation ==
  ASSUME NEW b \in Batches, Recover(b)
  PROVE  [StoreNext]_store
<1>1. CASE DispatchPending(b)
  BY <1>1, BatchOperationIsOperation DEF DispatchPending
<1>2. CASE ReconcileRestart(b)
  BY <1>2 DEF ReconcileRestart
<1>3. CASE ReconcilePackage(b)
  <2>1. PICK p \in Unfinished(b) :
          FinishPackage(b, p, Proven(b, p), Proven(b, p) \in MayBeTransient)
    BY <1>3 DEF ReconcilePackage
  <2>2. (Proven(b, p) \in MayBeTransient) \in BOOLEAN /\ Proven(b, p) \in AttemptTerminal
    BY StatusesAreTerminal
  <2> QED BY <2>1, <2>2, FinishIsOperation
<1> QED BY <1>1, <1>2, <1>3 DEF Recover

LEMMA EnvironmentIsOperation ==
  ASSUME NEW b \in Batches, Environment(b)
  PROVE  [StoreNext]_store
<1>1. CASE \E P \in SUBSET Packages : Create(b, P)
  BY <1>1, BatchOperationIsOperation DEF Create
<1>2. CASE Replay(b) \/ ClearTask(b) \/ Cancel(b) \/ Break(b) \/ TimeOut(b)
  BY <1>2 DEF Replay, ClearTask, Cancel, Break, TimeOut
<1>3. CASE RetryDownload(b)
  BY <1>3, BatchOperationIsOperation DEF RetryDownload
<1>4. CASE RejectPackage(b)
  BY <1>4, FinishIsOperation, StatusesAreTerminal DEF RejectPackage
<1>5. CASE \E e \in Evidence : FileProgress(b, e)
  BY <1>5 DEF FileProgress
<1> QED BY <1>1, <1>2, <1>3, <1>4, <1>5 DEF Environment

LEMMA ProcessIsOperation ==
  ASSUME Process \/ Crash \/ Stop
  PROVE  UNCHANGED store
BY DEF Process, Start, EndDispatch, EndRestarts, GoUp, Exit, Crash, Stop

LEMMA CommitsAreOperations ==
  ASSUME ServiceTypes, LoopIdle, \A b \in Batches : LoopOf(b) /\ TodoOf(b), [Next]_vars
  PROVE  [StoreNext]_store
<1>1. CASE \E b \in Batches : Web(b) \/ Run(b) \/ Recover(b) \/ Environment(b)
  BY <1>1, WebIsOperation, RunIsOperation, RecoverIsOperation, EnvironmentIsOperation
<1>2. CASE \E p \in Packages : Publish(p)
  BY <1>2 DEF Publish, StoreNext
<1>3. CASE Process \/ Crash \/ Stop
  BY <1>3, ProcessIsOperation
<1>4. CASE UNCHANGED vars
  BY <1>4 DEF vars
<1> QED BY <1>1, <1>2, <1>3, <1>4 DEF Next

-----------------------------------------------------------------------------
(* The steps, one lemma per action. Kept is what each has to show; a step  *)
(* on behalf of batch b leaves every other batch as it is (Frame).         *)

ServiceInv == IInv /\ ServiceTypes /\ LoopIdle /\ \A b \in Batches : BatchInv(b)

Kept == ServiceTypes' /\ LoopIdle' /\ \A b \in Batches : BatchInv(b)'

Frame(b) ==
  /\ phase' = phase
  /\ \A c \in Batches \ {b} : /\ run'[c] = run[c]
                              /\ task'[c] = task[c]
                              /\ request'[c] = request[c]
                              /\ c \in callback' <=> c \in callback
                              /\ c \in recheck' <=> c \in recheck
  /\ \/ loop' = loop
     \/ loop.batch \in {NoBatch, b} /\ loop'.batch \in {NoBatch, b}
  /\ OtherRows(b)

LEMMA Framed ==
  ASSUME ServiceInv, NEW b \in Batches, Frame(b), NEW c \in Batches \ {b}
  PROVE  BatchInv(c)'
<1>1. /\ BatchInv(c) /\ phase' = phase
      /\ run'[c] = run[c] /\ task'[c] = task[c] /\ request'[c] = request[c]
      /\ c \in callback' <=> c \in callback
      /\ c \in recheck' <=> c \in recheck
      /\ batch'[c] = batch[c] /\ attempt'[c] = attempt[c] /\ dispatch'[c] = dispatch[c]
  BY DEF ServiceInv, Frame, OtherRows
<1>2. Unfinished(c)' = Unfinished(c) /\ (HasNode(c)' <=> HasNode(c))
  BY <1>1 DEF Unfinished, HasNode
<1>3. \/ loop' = loop
      \/ loop.batch # c /\ loop'.batch # c
  BY StoreAssumption DEF Frame
<1>4. /\ \A op : Doing(op, c)' <=> Doing(op, c)
      /\ loop'.batch = c <=> loop.batch = c
      /\ loop' = loop \/ ~Rejecting(c)
  BY <1>3 DEF Doing, Rejecting
<1>5. (Claiming(c)' <=> Claiming(c)) /\ (Rejecting(c)' <=> Rejecting(c))
  BY <1>4 DEF Claiming, Rejecting
<1>6. LoopOf(c)'
  BY <1>1, <1>2, <1>4, <1>5 DEF BatchInv, LoopOf
<1>7. TodoOf(c)'
  BY <1>1, <1>2, <1>4, <1>5 DEF BatchInv, TodoOf
<1>8. WorkOf(c)'
  BY <1>1, <1>2, <1>4, <1>5 DEF BatchInv, WorkOf
<1>9. StartupOf(c)'
  BY <1>1, <1>2, <1>4, <1>5 DEF BatchInv, StartupOf
<1>10. OriginOf(c)'
  BY <1>1, <1>2, <1>4, <1>5 DEF BatchInv, OriginOf
<1> QED BY <1>6, <1>7, <1>8, <1>9, <1>10 DEF BatchInv

LEMMA KeptByFrame ==
  ASSUME ServiceInv, NEW b \in Batches, Frame(b), ServiceTypes', LoopIdle', BatchInv(b)'
  PROVE  Kept
BY Framed DEF Kept

-----------------------------------------------------------------------------
(* What the helpers do to the run, the task row and the loop of batch b.   *)

LEMMA RunFields ==
  ASSUME RunTypes, NEW b \in Batches
  PROVE  /\ \A at \in RunPc : [run EXCEPT ![b].pc = at] \in [Batches -> RunRecord]
         /\ \A stop \in BOOLEAN : [run EXCEPT ![b].stop = stop] \in [Batches -> RunRecord]
         /\ \A T \in SUBSET Packages : [run EXCEPT ![b].todo = T] \in [Batches -> RunRecord]
<1>1. run[b] \in RunRecord
  BY DEF RunTypes
<1>2. /\ \A at \in RunPc : [run[b] EXCEPT !.pc = at] \in RunRecord
      /\ \A stop \in BOOLEAN : [run[b] EXCEPT !.stop = stop] \in RunRecord
      /\ \A T \in SUBSET Packages : [run[b] EXCEPT !.todo = T] \in RunRecord
  BY <1>1 DEF RunRecord, RunPc
<1> QED BY <1>2 DEF RunTypes

LEMMA FaultFields ==
  ASSUME RunTypes, NEW b \in Batches, NEW at \in RunPc,
         NEW cause \in {"no", "callback", "download"}
  PROVE  [run EXCEPT ![b].pc = at, ![b].fault = cause] \in [Batches -> RunRecord]
<1> DEFINE r == [run[b] EXCEPT !.pc = at, !.fault = cause]
<1>1. run[b] \in RunRecord
  BY DEF RunTypes
<1>2. r \in RunRecord
  BY <1>1 DEF RunRecord, RunPc
<1>3. [run EXCEPT ![b].pc = at, ![b].fault = cause] = [run EXCEPT ![b] = r]
  BY DEF RunTypes
<1> HIDE DEF r
<1> QED BY <1>2, <1>3 DEF RunTypes

LEMMA ContinueFields ==
  ASSUME RunTypes, NEW b \in Batches, NEW at \in RunPc,
         NEW p \in Packages \union {NoPackage}, NEW T \in SUBSET Packages,
         NEW stop \in BOOLEAN
  PROVE  [run EXCEPT ![b].pc = at, ![b].package = p, ![b].todo = T, ![b].stop = stop]
           \in [Batches -> RunRecord]
<1> DEFINE r == [run[b] EXCEPT !.pc = at, !.package = p, !.todo = T, !.stop = stop]
<1>1. run[b] \in RunRecord
  BY DEF RunTypes
<1>2. r \in RunRecord
  BY <1>1 DEF RunRecord, RunPc
<1>3. [run EXCEPT ![b].pc = at, ![b].package = p, ![b].todo = T, ![b].stop = stop]
        = [run EXCEPT ![b] = r]
  BY DEF RunTypes
<1> HIDE DEF r
<1> QED BY <1>2, <1>3 DEF RunTypes

LEMMA EndFields ==
  ASSUME RunTypes, NEW b \in Batches
  PROVE  [run EXCEPT ![b].pc = "none", ![b].package = NoPackage, ![b].todo = {},
                     ![b].fault = "no"] \in [Batches -> RunRecord]
<1> DEFINE r == [run[b] EXCEPT !.pc = "none", !.package = NoPackage, !.todo = {}, !.fault = "no"]
<1>1. run[b] \in RunRecord
  BY DEF RunTypes
<1>2. r \in RunRecord
  BY <1>1 DEF RunRecord
<1>3. [run EXCEPT ![b].pc = "none", ![b].package = NoPackage, ![b].todo = {},
                  ![b].fault = "no"] = [run EXCEPT ![b] = r]
  BY DEF RunTypes
<1> HIDE DEF r
<1> QED BY <1>2, <1>3 DEF RunTypes

(* The record of b becomes r and every other record stays.                 *)
RunBecomes(b, r) ==
  /\ RunTypes' /\ run'[b] = r
  /\ \A c \in Batches \ {b} : run'[c] = run[c]

LEMMA EndRunSets ==
  ASSUME RunTypes, NEW b \in Batches, EndRun(b)
  PROVE  /\ \E r \in RunRecord : r.pc = "none" /\ RunBecomes(b, r)
         /\ callback' = callback \union {b}
<1>1. RunTypes'
  BY EndFields DEF EndRun, RunTypes
<1>2. run'[b].pc = "none" /\ \A c \in Batches \ {b} : run'[c] = run[c]
  BY DEF EndRun, RunTypes, RunRecord
<1>3. run'[b] \in RunRecord
  BY <1>1 DEF RunTypes
<1> QED BY <1>1, <1>2, <1>3 DEF RunBecomes, EndRun

LEMMA ContinueSets ==
  ASSUME RunTypes, NEW b \in Batches, NEW left \in SUBSET Packages, NEW stop \in BOOLEAN,
         Continue(b, left, stop)
  PROVE  \E r \in RunRecord :
           /\ RunBecomes(b, r)
           /\ r.todo = left /\ r.stop = stop /\ r.fault = run[b].fault
           /\ \/ r.pc = "preparing" /\ r.package \in left
              \/ r.pc = "ending" /\ (stop \/ left = {})
<1>1. PICK at \in {"preparing", "ending"}, p \in Packages \union {NoPackage} :
        /\ run' = [run EXCEPT ![b].pc = at, ![b].package = p, ![b].todo = left, ![b].stop = stop]
        /\ \/ at = "preparing" /\ p \in left
           \/ at = "ending" /\ (stop \/ left = {})
  <2>1. CASE stop \/ left = {}
    BY <2>1 DEF Continue
  <2>2. CASE ~(stop \/ left = {})
    <3>1. PICK p \in left : run' = [run EXCEPT ![b].pc = "preparing", ![b].package = p,
                                               ![b].todo = left, ![b].stop = stop]
      BY <2>2 DEF Continue
    <3> QED BY <3>1
  <2> QED BY <2>1, <2>2
<1>2. RunTypes'
  <2>1. at \in RunPc
    BY DEF RunPc
  <2> QED BY <1>1, <2>1, ContinueFields DEF RunTypes
<1>3. /\ run'[b].pc = at /\ run'[b].package = p
      /\ run'[b].todo = left /\ run'[b].stop = stop /\ run'[b].fault = run[b].fault
      /\ \A c \in Batches \ {b} : run'[c] = run[c]
  BY <1>1 DEF RunTypes, RunRecord
<1>4. run'[b] \in RunRecord
  BY <1>2 DEF RunTypes
<1> QED BY <1>1, <1>2, <1>3, <1>4 DEF RunBecomes

LEMMA FaultSets ==
  ASSUME RunTypes, NEW b \in Batches, NEW cause \in {"callback", "download"}, Fault(b, cause)
  PROVE  \E r \in RunRecord : /\ RunBecomes(b, r)
                              /\ r.pc = "ending" /\ r.fault = cause
<1>1. RunTypes'
  <2>1. "ending" \in RunPc /\ cause \in {"no", "callback", "download"}
    BY DEF RunPc
  <2> QED BY <2>1, FaultFields DEF Fault, RunTypes
<1>2. /\ run'[b].pc = "ending" /\ run'[b].fault = cause
      /\ \A c \in Batches \ {b} : run'[c] = run[c]
  BY DEF Fault, RunTypes, RunRecord
<1>3. run'[b] \in RunRecord
  BY <1>1 DEF RunTypes
<1> QED BY <1>1, <1>2, <1>3 DEF RunBecomes

LEMMA PcSets ==
  ASSUME RunTypes, NEW b \in Batches, NEW at \in RunPc, run' = [run EXCEPT ![b].pc = at]
  PROVE  \E r \in RunRecord :
           /\ RunBecomes(b, r)
           /\ r.pc = at /\ r.package = run[b].package /\ r.todo = run[b].todo
           /\ r.stop = run[b].stop /\ r.fault = run[b].fault
<1>1. RunTypes'
  BY RunFields DEF RunTypes
<1>2. /\ run'[b].pc = at /\ run'[b].package = run[b].package /\ run'[b].todo = run[b].todo
      /\ run'[b].stop = run[b].stop /\ run'[b].fault = run[b].fault
      /\ \A c \in Batches \ {b} : run'[c] = run[c]
  BY DEF RunTypes, RunRecord
<1>3. run'[b] \in RunRecord
  BY <1>1 DEF RunTypes
<1> QED BY <1>1, <1>2, <1>3 DEF RunBecomes

LEMMA ScheduledSets ==
  ASSUME RunTypes, NEW b \in Batches, run' = Scheduled(b)
  PROVE  \E r \in RunRecord :
           /\ RunBecomes(b, r)
           /\ r.pc = IF run[b].pc = "none" THEN "waiting" ELSE run[b].pc
           /\ r.package = run[b].package /\ r.todo = run[b].todo
           /\ r.stop = run[b].stop /\ r.fault = run[b].fault
<1>1. CASE run[b].pc = "none"
  BY <1>1, PcSets DEF Scheduled, RunPc
<1>2. CASE run[b].pc # "none"
  <2>1. run' = run /\ run[b] \in RunRecord
    BY <1>2 DEF Scheduled, RunTypes
  <2> QED BY <1>2, <2>1 DEF RunBecomes, RunTypes
<1> QED BY <1>1, <1>2

LEMMA RecordSets ==
  ASSUME RunTypes, NEW b \in Batches, NEW r \in RunRecord, run' = [run EXCEPT ![b] = r]
  PROVE  RunBecomes(b, r)
BY DEF RunTypes, RunBecomes

(* The task row of b becomes s and every other row stays.                  *)
TaskStatus == {"absent"} \union TaskLive \union TaskTerminal

TaskBecomes(b, s) ==
  /\ task' \in [Batches -> TaskStatus] /\ task'[b] = s
  /\ \A c \in Batches \ {b} : task'[c] = task[c]

LEMMA TaskSets ==
  ASSUME RowTypes, NEW b \in Batches
  PROVE  /\ \A s \in TaskStatus : UpdateTask(b, s) =>
              TaskBecomes(b, IF task[b] \in TaskLive THEN s ELSE task[b])
         /\ \A s \in TaskStatus : ReconcileTask(b, s) =>
              TaskBecomes(b, IF task[b] = "absent" THEN "absent" ELSE s)
         /\ task' = Ensured(b) =>
              TaskBecomes(b, IF task[b] # "absent" THEN task[b]
                             ELSE IF batch[b] \in Active THEN "active" ELSE "zombie")
         /\ RemoveNode(b) => \E s \in TaskTerminal : TaskBecomes(b, s)
         /\ UNCHANGED task => TaskBecomes(b, task[b])
<1> USE DEF RowTypes, TaskBecomes, TaskStatus
<1>1. \A s \in TaskStatus : UpdateTask(b, s) =>
        TaskBecomes(b, IF task[b] \in TaskLive THEN s ELSE task[b])
  BY DEF UpdateTask
<1>2. \A s \in TaskStatus : ReconcileTask(b, s) =>
        TaskBecomes(b, IF task[b] = "absent" THEN "absent" ELSE s)
  BY DEF ReconcileTask
<1>3. task' = Ensured(b) =>
        TaskBecomes(b, IF task[b] # "absent" THEN task[b]
                       ELSE IF batch[b] \in Active THEN "active" ELSE "zombie")
  BY DEF Ensured, TaskLive
<1>4. RemoveNode(b) => \E s \in TaskTerminal : TaskBecomes(b, s)
  <2>1. NodeStatus(b) \subseteq TaskTerminal
    BY DEF NodeStatus, Completed, TaskTerminal
  <2> SUFFICES ASSUME RemoveNode(b) PROVE \E s \in TaskTerminal : TaskBecomes(b, s)
    OBVIOUS
  <2>2. PICK s \in TaskTerminal :
          task' = [task EXCEPT ![b] = IF @ \in TaskTerminal THEN @ ELSE s]
    BY <2>1 DEF RemoveNode
  <2>3. TaskBecomes(b, IF task[b] \in TaskTerminal THEN task[b] ELSE s)
    BY <2>2
  <2> QED BY <2>3
<1>5. UNCHANGED task => TaskBecomes(b, task[b])
  OBVIOUS
<1> QED BY <1>1, <1>2, <1>3, <1>4, <1>5

LEMMA EvidenceSets ==
  ASSUME RowTypes, NEW b \in Batches, NEW p, NEW e \in Evidence, WriteEvidence(b, p, e)
  PROVE  /\ evidence' \in [Batches -> [Packages -> Evidence]]
         /\ TaskBecomes(b, IF task[b] = "absent" THEN "active" ELSE task[b])
BY DEF RowTypes, WriteEvidence, TaskBecomes, TaskStatus, TaskLive

LEMMA LoopSets ==
  ASSUME NEW b \in Batches
  PROVE  /\ \A op \in {"claim", "sizes", "reject", "rejected", "leftover", "abort",
                      "cancel", "timeout", "retry", "requeue", "requeued"},
            s \in {"none"} \union AttemptTerminal :
              Begin(op, b, s) => /\ loop' \in LoopRecord
                                 /\ loop'.op = op /\ loop'.batch = b /\ loop'.status = s
                                 /\ loop' # Idle
         /\ loop' = Idle => /\ loop' \in LoopRecord
                            /\ loop'.op = "idle" /\ loop'.batch = NoBatch
BY StoreAssumption DEF Begin, LoopRecord, Idle

LEMMA TodoSets ==
  ASSUME RunTypes, NEW b \in Batches, NEW T \in SUBSET Packages,
         run' = [run EXCEPT ![b].todo = T]
  PROVE  \E r \in RunRecord :
           /\ RunBecomes(b, r)
           /\ r.todo = T /\ r.pc = run[b].pc /\ r.package = run[b].package
           /\ r.stop = run[b].stop /\ r.fault = run[b].fault
<1>1. RunTypes'
  BY RunFields DEF RunTypes
<1>2. /\ run'[b].pc = run[b].pc /\ run'[b].package = run[b].package /\ run'[b].todo = T
      /\ run'[b].stop = run[b].stop /\ run'[b].fault = run[b].fault
      /\ \A c \in Batches \ {b} : run'[c] = run[c]
  BY DEF RunTypes, RunRecord
<1>3. run'[b] \in RunRecord
  BY <1>1 DEF RunTypes
<1> QED BY <1>1, <1>2, <1>3 DEF RunBecomes

LEMMA StopSets ==
  ASSUME RunTypes, NEW b \in Batches, run' = [run EXCEPT ![b].stop = TRUE]
  PROVE  \E r \in RunRecord :
           /\ RunBecomes(b, r)
           /\ r.stop = TRUE /\ r.pc = run[b].pc /\ r.package = run[b].package
           /\ r.todo = run[b].todo /\ r.fault = run[b].fault
<1>1. RunTypes'
  BY RunFields DEF RunTypes
<1>2. /\ run'[b].pc = run[b].pc /\ run'[b].package = run[b].package
      /\ run'[b].todo = run[b].todo
      /\ run'[b].stop = TRUE /\ run'[b].fault = run[b].fault
      /\ \A c \in Batches \ {b} : run'[c] = run[c]
  BY DEF RunTypes, RunRecord
<1>3. run'[b] \in RunRecord
  BY <1>1 DEF RunTypes
<1> QED BY <1>1, <1>2, <1>3 DEF RunBecomes

-----------------------------------------------------------------------------
(* The run of a batch.                                                     *)

LEMMA ActiveHasWork ==
  ASSUME IInv, NEW b \in Batches
  PROVE  batch[b] \in Active <=> Unfinished(b) # {}
BY DEF IInv, StoreInv, BatchMatchesAttempts

LEMMA TypesKept ==
  ASSUME ServiceTypes, NEW b \in Batches,
         \/ UNCHANGED run
         \/ \E r : RunBecomes(b, r),
         \/ UNCHANGED task
         \/ \E s : TaskBecomes(b, s),
         evidence' \in [Batches -> [Packages -> Evidence]],
         loop' = loop \/ loop' \in LoopRecord,
         callback' \subseteq callback \union {b}, retried' \subseteq retried \union {b},
         UNCHANGED <<phase, recheck, restarts>>,
         request' \in [Batches -> {"no", "ensure", "mark", "schedule"}],
         requests' \in 0 .. MaxRequests
  PROVE  ServiceTypes'
<1>1. RunTypes'
  BY DEF ServiceTypes, RunTypes, RunBecomes
<1>2. RowTypes'
  BY DEF ServiceTypes, RowTypes, TaskBecomes, TaskStatus
<1>3. ProcessTypes'
  BY DEF ServiceTypes, ProcessTypes
<1> QED BY <1>1, <1>2, <1>3 DEF ServiceTypes

LEMMA IdleLoop ==
  ASSUME loop = Idle
  PROVE  /\ loop.batch = NoBatch /\ loop.op = "idle"
         /\ \A b \in Batches : loop.batch # b
         /\ \A b \in Batches : ~Claiming(b) /\ ~Rejecting(b) /\ ~Cancelling(b)
         /\ \A op : op # "idle" => \A b \in Batches : ~Doing(op, b)
BY StoreAssumption DEF Idle, Claiming, Rejecting, Cancelling, Doing

(* A step on behalf of batch b, whichever of the rows of b it changes.      *)
LEMMA StepKeeps ==
  ASSUME ServiceInv, NEW b \in Batches,
         \/ UNCHANGED run
         \/ \E r : RunBecomes(b, r),
         \/ UNCHANGED task
         \/ \E s : TaskBecomes(b, s),
         evidence' \in [Batches -> [Packages -> Evidence]],
         \/ UNCHANGED loop
         \/ /\ loop = Idle \/ loop.batch = b
            /\ \/ loop' = Idle
               \/ loop' \in LoopRecord /\ loop'.batch = b,
         callback' \in {callback, callback \union {b}, callback \ {b}},
         retried' \subseteq retried \union {b},
         UNCHANGED <<phase, recheck, restarts>>,
         request' \in [Batches -> {"no", "ensure", "mark", "schedule"}],
         \A c \in Batches \ {b} : request'[c] = request[c],
         requests' \in 0 .. MaxRequests,
         OtherRows(b), BatchInv(b)'
  PROVE  Kept
<1>1. ServiceTypes
  BY DEF ServiceInv
<1>2. loop' = loop \/ loop' \in LoopRecord
  BY DEF LoopRecord, Idle
<1>3. ServiceTypes'
  BY <1>1, <1>2, TypesKept
<1>4. \/ loop' = loop
      \/ loop.batch \in {NoBatch, b} /\ loop'.batch \in {NoBatch, b}
  BY DEF Idle
<1>5. Frame(b)
  BY <1>4 DEF Frame, RunBecomes, TaskBecomes
<1>6. LoopIdle'
  BY StoreAssumption DEF ServiceInv, LoopIdle, Idle
<1> QED BY <1>3, <1>5, <1>6, KeptByFrame

(* The same for the steps that only change the run, the task, the evidence *)
(* and the loop.                                                           *)
LEMMA RestKeeps ==
  ASSUME ServiceInv, NEW b \in Batches, Rest,
         \/ UNCHANGED run
         \/ \E r : RunBecomes(b, r),
         \/ UNCHANGED task
         \/ \E s : TaskBecomes(b, s),
         evidence' \in [Batches -> [Packages -> Evidence]],
         \/ UNCHANGED loop
         \/ /\ loop = Idle \/ loop.batch = b
            /\ \/ loop' = Idle
               \/ loop' \in LoopRecord /\ loop'.batch = b,
         callback' \in {callback, callback \union {b}},
         UNCHANGED store \/ OtherRows(b), BatchInv(b)'
  PROVE  Kept
<1>1. /\ UNCHANGED <<phase, recheck, retried, request, restarts, requests>>
      /\ request \in [Batches -> {"no", "ensure", "mark", "schedule"}]
      /\ requests \in 0 .. MaxRequests
  BY DEF ServiceInv, ServiceTypes, ProcessTypes, Rest, bounds
<1>2. OtherRows(b)
  BY DEF OtherRows, store
<1> QED BY <1>1, <1>2, StepKeeps

LEMMA StartRunKeeps ==
  ASSUME ServiceInv, IInv', NEW b \in Batches, StartRun(b)
  PROVE  Kept
<1>1. /\ RunTypes /\ BatchInv(b) /\ IInv
      /\ evidence' \in [Batches -> [Packages -> Evidence]]
      /\ UNCHANGED <<task, evidence>> /\ Rest
      /\ UNCHANGED <<phase, recheck, request>>
      /\ run[b].pc = "waiting" /\ b \notin callback /\ phase = "up" /\ loop = Idle
  BY DEF ServiceInv, ServiceTypes, RowTypes, StartRun, Rest, Ready, tasks
<1>2. CASE PrepareForRun(b)
  <2>1. /\ run' = [run EXCEPT ![b] = [NoRun EXCEPT !.pc = "preparing"]]
        /\ Begin("claim", b, "none") /\ UNCHANGED callback
    BY <1>2 DEF StartRun, Resumable, PrepareForRun
  <2>2. [NoRun EXCEPT !.pc = "preparing"] \in RunRecord
    BY DEF NoRun, RunRecord
  <2>3. RunBecomes(b, [NoRun EXCEPT !.pc = "preparing"])
    BY <1>1, <2>1, <2>2, RecordSets
  <2>4. loop' \in LoopRecord /\ loop'.op = "claim" /\ loop'.batch = b
    BY <2>1, LoopSets
  <2>5. OtherRows(b) /\ UNCHANGED dispatch /\ batch[b] # "absent" /\ batch'[b] = "queued"
    BY <1>1, <1>2, PrepareRows
  <2>6. BatchInv(b)'
    BY <1>1, <2>1, <2>3, <2>4, <2>5
       DEF BatchInv, LoopOf, TodoOf, WorkOf, OriginOf, StartupOf, Claiming, Rejecting, Doing, HasNode,
           Working3, RunBecomes, NoRun, Active
  <2> QED BY <1>1, <2>1, <2>3, <2>4, <2>5, <2>6, RestKeeps
<1>3. CASE ~Resumable(b) /\ EndRun(b) /\ UNCHANGED <<store, loop>>
  <2>1. PICK r \in RunRecord : r.pc = "none" /\ RunBecomes(b, r)
    BY <1>1, <1>3, EndRunSets
  <2>2. callback' = callback \union {b}
    BY <1>1, <1>3, EndRunSets
  <2>3. BatchInv(b)'
    BY <1>1, <1>3, <2>1, <2>2, IdleLoop
       DEF BatchInv, LoopOf, TodoOf, WorkOf, OriginOf, StartupOf, Claiming, Rejecting, Doing, HasNode,
           Working3, Resumable, RunBecomes, store
  <2> QED BY <1>1, <1>3, <2>1, <2>2, <2>3, RestKeeps
<1> QED BY <1>2, <1>3 DEF StartRun, Resumable, PrepareForRun

(* What a step on behalf of b may assume.                                  *)
LEMMA Served ==
  ASSUME ServiceInv, NEW b \in Batches
  PROVE  /\ IInv /\ RunTypes /\ RowTypes /\ BatchInv(b)
         /\ run[b] \in RunRecord /\ task[b] \in TaskStatus
         /\ evidence \in [Batches -> [Packages -> Evidence]]
BY DEF ServiceInv, ServiceTypes, RowTypes, RunTypes, TaskStatus

LEMMA StoreSame ==
  ASSUME UNCHANGED store, NEW b \in Batches
  PROVE  /\ Unfinished(b)' = Unfinished(b) /\ batch' = batch
         /\ attempt' = attempt /\ dispatch' = dispatch /\ OtherRows(b)
BY DEF store, Unfinished, OtherRows

(* While the loop works for b the process is up or stops.                  *)
LEMMA OnTheLoop ==
  ASSUME ServiceInv, NEW b \in Batches, loop.batch = b
  PROVE  phase \in {"up", "stopping"}
BY Served DEF BatchInv, StartupOf

LEMMA Claimed ==
  ASSUME ServiceInv, NEW b \in Batches, Claiming(b)
  PROVE  /\ run[b].pc = "preparing" /\ run[b].fault = "no" /\ run[b].todo = {}
         /\ HasNode(b) /\ b \notin callback
         /\ phase \in {"up", "stopping"} /\ loop.batch = b
         /\ dispatch[b] = "pending" /\ phase = "up" => request[b] \in {"ensure", "mark"}
         /\ batch[b] # "absent" /\ dispatch[b] # "none"
<1>1. run[b] = [NoRun EXCEPT !.pc = "preparing"]
  BY Served DEF BatchInv, LoopOf
<1>2. run[b].pc = "preparing" /\ run[b].fault = "no" /\ run[b].todo = {}
  BY <1>1 DEF NoRun
<1>3. HasNode(b) /\ b \notin callback
  BY <1>2, Served DEF BatchInv, TodoOf, HasNode
<1>4. loop.batch = b
  BY DEF Claiming, Doing
<1> QED BY <1>2, <1>3, <1>4, Served, OnTheLoop DEF BatchInv, WorkOf, OriginOf, StartupOf

LEMMA ClaimTaskKeeps ==
  ASSUME ServiceInv, IInv', NEW b \in Batches, ClaimTask(b)
  PROVE  Kept
<1>1. /\ Doing("claim", b) /\ ReconcileTask(b, "active") /\ Begin("sizes", b, "none")
      /\ UNCHANGED <<store, evidence, run, callback>> /\ Rest
      /\ UNCHANGED <<phase, recheck, request>>
  BY DEF ClaimTask, Rest
<1>2. PICK t : TaskBecomes(b, t) /\ t \in {"absent", "active"}
  BY <1>1, Served, TaskSets DEF TaskStatus, TaskLive
<1>3. loop' \in LoopRecord /\ loop'.op = "sizes" /\ loop'.batch = b
  BY <1>1, LoopSets
<1>4. Claiming(b) /\ Claiming(b)' /\ loop' # Idle
  BY <1>1, <1>3 DEF Claiming, Doing, Idle
<1>5. run[b] = [NoRun EXCEPT !.pc = "preparing"]
  BY <1>4, Served DEF BatchInv, LoopOf
<1>6. LoopOf(b)'
  BY <1>1, <1>3, <1>5 DEF LoopOf, Claiming, Rejecting, Doing
<1>7. TodoOf(b)'
  BY <1>1, <1>3, <1>4, Claimed DEF TodoOf, HasNode, Claiming, Rejecting, Doing, Working3
<1>8. WorkOf(b)' /\ OriginOf(b)' /\ StartupOf(b)'
  BY <1>1, <1>3, <1>4, Claimed, StoreSame DEF WorkOf, OriginOf, StartupOf, HasNode, Doing
<1> QED BY <1>1, <1>2, <1>3, <1>4, <1>6, <1>7, <1>8, Served, RestKeeps DEF Doing, BatchInv

LEMMA FailUnknownSizeKeeps ==
  ASSUME ServiceInv, IInv', NEW b \in Batches, FailUnknownSize(b)
  PROVE  Kept
<1>1. /\ Doing("sizes", b) /\ UNCHANGED <<run, callback, loop>> /\ Rest
      /\ UNCHANGED <<phase, recheck, request>>
  BY DEF FailUnknownSize, Rest
<1>2. PICK p \in Packages : FinishPackage(b, p, "failed", FALSE) /\ WriteEvidence(b, p, "failed")
  BY DEF FailUnknownSize, Unfinished
<1>3. OtherRows(b) /\ batch[b] # "absent" /\ batch'[b] # "absent" /\ dispatch' = dispatch
  BY <1>2, Served, FinishRows, StatusesAreTerminal
<1>4. "failed" \in Evidence
  BY DEF Evidence
<1>5. /\ evidence' \in [Batches -> [Packages -> Evidence]]
      /\ \E t : TaskBecomes(b, t)
  BY <1>2, <1>4, Served, EvidenceSets
<1>6. BatchInv(b)'
  BY <1>1, <1>3, Served, OnTheLoop
     DEF BatchInv, LoopOf, TodoOf, WorkOf, OriginOf, StartupOf, Claiming, Rejecting, Doing,
         HasNode, Working3, NoRun
<1> QED BY <1>1, <1>3, <1>5, <1>6, RestKeeps

LEMMA ActivateNodeKeeps ==
  ASSUME ServiceInv, IInv', NEW b \in Batches, ActivateNode(b)
  PROVE  Kept
<1>1. /\ loop.batch = b /\ loop' = Idle /\ UNCHANGED <<store, evidence>> /\ Rest
      /\ UNCHANGED <<phase, recheck, request>>
      /\ evidence' \in [Batches -> [Packages -> Evidence]]
  BY Served DEF ActivateNode, Rest, Doing
<1>6. loop'.op = "idle" /\ loop'.batch # b
  BY <1>1, StoreAssumption DEF Idle
<1>2. /\ run[b].fault = "no" /\ b \notin callback /\ phase \in {"up", "stopping"}
      /\ dispatch[b] = "pending" /\ phase = "up" => request[b] \in {"ensure", "mark"}
      /\ batch[b] # "absent" /\ dispatch[b] # "none"
  BY Claimed DEF ActivateNode, Claiming
<1>3. batch' = batch /\ dispatch' = dispatch /\ Unfinished(b)' = Unfinished(b) /\ OtherRows(b)
  BY <1>1, StoreSame
<1>4. CASE Unfinished(b) = {}
  <2>1. CompleteTask(b) /\ EndRun(b)
    BY <1>4 DEF ActivateNode
  <2>2. PICK r \in RunRecord : r.pc = "none" /\ RunBecomes(b, r)
    BY <2>1, Served, EndRunSets
  <2>3. callback' = callback \union {b}
    BY <2>1, Served, EndRunSets
  <2>4. PICK t : TaskBecomes(b, t) /\ t # "active"
    BY <2>1, Served, TaskSets DEF CompleteTask, Completed, TaskStatus, TaskLive, TaskTerminal
  <2>5. batch[b] \notin Active
    BY <1>4, Served, ActiveHasWork
  <2>6. BatchInv(b)'
    BY <1>1, <1>2, <1>3, <1>6, <2>2, <2>3, <2>4, <2>5
       DEF BatchInv, LoopOf, TodoOf, WorkOf, OriginOf, StartupOf, Claiming, Rejecting,
           Doing, HasNode, Working3, RunBecomes, TaskBecomes
  <2> QED BY <1>1, <1>3, <2>2, <2>3, <2>4, <2>6, RestKeeps
<1>5. CASE Unfinished(b) # {}
  <2>1. /\ task' = [task EXCEPT ![b] = IF @ = "absent" THEN "active" ELSE @]
        /\ Continue(b, Unfinished(b), FALSE) /\ UNCHANGED callback
    BY <1>5 DEF ActivateNode
  <2>2. Unfinished(b) \in SUBSET Packages
    BY DEF Unfinished
  <2>3. PICK r \in RunRecord :
          /\ RunBecomes(b, r) /\ r.todo = Unfinished(b) /\ r.fault = run[b].fault
          /\ r.pc = "preparing" /\ r.package \in r.todo
    <3>1. PICK r \in RunRecord :
           /\ RunBecomes(b, r)
           /\ r.todo = Unfinished(b) /\ r.stop = FALSE /\ r.fault = run[b].fault
           /\ \/ r.pc = "preparing" /\ r.package \in Unfinished(b)
              \/ r.pc = "ending" /\ (FALSE \/ Unfinished(b) = {})
      BY <2>1, <2>2, Served, ContinueSets
    <3> QED BY <1>5, <3>1
  <2>4. \E t : TaskBecomes(b, t)
    BY <2>1, Served DEF TaskBecomes, RowTypes, TaskStatus, TaskLive
  <2>5. BatchInv(b)'
    BY <1>1, <1>2, <1>3, <1>6, <2>1, <2>3
       DEF BatchInv, LoopOf, TodoOf, WorkOf, OriginOf, StartupOf, Claiming, Rejecting,
           Doing, HasNode, Working3, RunBecomes
  <2> QED BY <1>1, <1>3, <2>1, <2>3, <2>4, <2>5, RestKeeps
<1> QED BY <1>4, <1>5

LEMMA RequestDiskKeeps ==
  ASSUME ServiceInv, IInv', NEW b \in Batches, RequestDisk(b)
  PROVE  Kept
<1>1. /\ phase = "up" /\ loop = Idle /\ run[b].pc = "preparing"
      /\ UNCHANGED <<store, task, evidence, callback, loop>> /\ Rest
      /\ UNCHANGED <<phase, recheck, request>>
  BY DEF RequestDisk, Rest, Ready, tasks
<1>2. CASE Fault(b, "callback")
  <2>1. PICK r \in RunRecord : RunBecomes(b, r) /\ r.pc = "ending" /\ r.fault = "callback"
    BY <1>2, Served, FaultSets
  <2>2. BatchInv(b)'
    BY <1>1, <2>1, Served, StoreSame, IdleLoop
       DEF BatchInv, LoopOf, TodoOf, WorkOf, OriginOf, StartupOf, Claiming, Rejecting,
           Doing, HasNode, Working3, RunBecomes
  <2> QED BY <1>1, <2>1, <2>2, Served, RestKeeps
<1>3. CASE run' = [run EXCEPT ![b].pc = "admitting"]
  <2>1. PICK r \in RunRecord :
          /\ RunBecomes(b, r)
          /\ r.pc = "admitting" /\ r.package = run[b].package /\ r.todo = run[b].todo
          /\ r.fault = run[b].fault
    BY <1>3, Served, PcSets DEF RunPc
  <2>2. BatchInv(b)'
    BY <1>1, <2>1, Served, StoreSame, IdleLoop
       DEF BatchInv, LoopOf, TodoOf, WorkOf, OriginOf, StartupOf, Claiming, Rejecting,
           Doing, HasNode, Working3, RunBecomes
  <2> QED BY <1>1, <2>1, <2>2, Served, RestKeeps
<1> QED BY <1>2, <1>3 DEF RequestDisk

LEMMA StartPackageKeeps ==
  ASSUME ServiceInv, IInv', NEW b \in Batches, StartPackage(b)
  PROVE  Kept
<1>1. /\ phase = "up" /\ loop = Idle /\ run[b].pc = "admitting"
      /\ UNCHANGED <<task, evidence, callback, loop>> /\ Rest
      /\ UNCHANGED <<phase, recheck, request>>
  BY DEF StartPackage, Rest, Ready, tasks
<1>2. CASE Fault(b, "callback") /\ UNCHANGED store
  <2>1. PICK r \in RunRecord : RunBecomes(b, r) /\ r.pc = "ending" /\ r.fault = "callback"
    BY <1>2, Served, FaultSets
  <2>2. BatchInv(b)'
    BY <1>1, <1>2, <2>1, Served, StoreSame, IdleLoop
       DEF BatchInv, LoopOf, TodoOf, WorkOf, OriginOf, StartupOf, Claiming, Rejecting,
           Doing, HasNode, Working3, RunBecomes
  <2> QED BY <1>1, <1>2, <2>1, <2>2, Served, RestKeeps
<1>3. CASE PackageStarted(b, run[b].package) /\ run' = [run EXCEPT ![b].pc = "transfer"]
  <2>1. PICK r \in RunRecord :
          /\ RunBecomes(b, r)
          /\ r.pc = "transfer" /\ r.package = run[b].package /\ r.todo = run[b].todo
          /\ r.fault = run[b].fault
    BY <1>3, Served, PcSets DEF RunPc
  <2>2. run[b].package \in run[b].todo
    BY <1>1, Served, IdleLoop DEF BatchInv, LoopOf, TodoOf, WorkOf, OriginOf, StartupOf,
                                  Claiming, Rejecting, Doing, HasNode, Working3
  <2>3. run[b].package \in Packages
    BY <2>2, Served DEF RunRecord
  <2>4. /\ Unfinished(b)' = Unfinished(b) /\ batch[b] # "absent" /\ batch'[b] # "absent"
        /\ dispatch' = dispatch /\ OtherRows(b)
    BY <1>3, <2>3, Served, StartedRows
  <2>5. BatchInv(b)'
    BY <1>1, <2>1, <2>4, Served, IdleLoop
       DEF BatchInv, LoopOf, TodoOf, WorkOf, OriginOf, StartupOf, Claiming, Rejecting,
           Doing, HasNode, Working3, RunBecomes
  <2> QED BY <1>1, <2>1, <2>4, <2>5, Served, RestKeeps
<1> QED BY <1>2, <1>3 DEF StartPackage

(* A node that works on a package.                                         *)
LEMMA AtWork ==
  ASSUME ServiceInv, NEW b \in Batches, run[b].pc \in Working3, ~Claiming(b)
  PROVE  /\ run[b].package \in run[b].todo /\ run[b].package \in Packages
         /\ run[b].todo \in SUBSET Packages
         /\ run[b].fault = "no" /\ HasNode(b) /\ b \notin callback
         /\ ~Doing("timeout", b) =>
              Unfinished(b) = IF Rejecting(b) THEN run[b].todo \ {run[b].package}
                              ELSE run[b].todo
<1>1. HasNode(b) /\ run[b].todo \in SUBSET Packages
  BY Served DEF HasNode, Working3, RunRecord
<1>2. TodoOf(b)
  BY Served DEF BatchInv
<1> QED BY <1>1, <1>2 DEF TodoOf

LEMMA RejectPackageKeeps ==
  ASSUME ServiceInv, IInv', NEW b \in Batches, RejectPackage(b)
  PROVE  Kept
<1> DEFINE p == run[b].package
<1>1. /\ phase = "up" /\ loop = Idle /\ run[b].pc \in {"preparing", "admitting"}
      /\ FinishPackage(b, p, "failed", FALSE)
      /\ UNCHANGED <<task, evidence, run, callback>> /\ Rest
      /\ UNCHANGED <<phase, recheck, request>>
  BY DEF RejectPackage, Rest, Ready, tasks
<1>2. PICK s \in AttemptTerminal : Begin("reject", b, s)
  BY StatusesAreTerminal DEF RejectPackage
<1>3. loop' \in LoopRecord /\ loop'.op = "reject" /\ loop'.batch = b /\ loop'.status = s
  BY <1>2 DEF Begin, LoopRecord
<1>4. /\ p \in run[b].todo /\ run[b].fault = "no" /\ HasNode(b) /\ b \notin callback
      /\ Unfinished(b) = run[b].todo
  BY <1>1, AtWork, IdleLoop DEF Working3, Rejecting, Doing
<1>5. /\ attempt'[b][p] = "failed" /\ Unfinished(b)' = run[b].todo \ {p}
      /\ batch[b] # "absent" /\ batch'[b] # "absent"
      /\ dispatch' = dispatch /\ OtherRows(b)
  <2>1. IInv /\ "failed" \in AttemptTerminal /\ Unfinished(b) \ {p} = run[b].todo \ {p}
    BY <1>4, Served, StatusesAreTerminal
  <2> HIDE DEF p
  <2> QED BY <1>1, <2>1, FinishRows
<1> HIDE DEF p
<1>6. p = run[b].package
  BY DEF p
<1>7. BatchInv(b)'
  BY <1>1, <1>3, <1>4, <1>5, <1>6, Served
     DEF BatchInv, LoopOf, TodoOf, WorkOf, OriginOf, StartupOf, Claiming, Rejecting, Doing,
         HasNode, Working3
<1> QED BY <1>1, <1>3, <1>5, <1>7, Served, RestKeeps

LEMMA RejectFilesKeeps ==
  ASSUME ServiceInv, IInv', NEW b \in Batches, RejectFiles(b)
  PROVE  Kept
<1>1. /\ Doing("reject", b) /\ loop.batch = b /\ Rejecting(b) /\ ~Claiming(b)
      /\ ~Doing("timeout", b)
      /\ run[b].pc \in Working3
      /\ UNCHANGED <<store, callback>> /\ Rest
      /\ UNCHANGED <<phase, recheck, request>> /\ phase \in {"up", "stopping"}
      /\ loop.status \in AttemptTerminal
  BY Served, OnTheLoop
     DEF RejectFiles, Rest, Rejecting, Claiming, Doing, BatchInv, LoopOf, Working3
<1>2. /\ run[b].fault = "no" /\ HasNode(b) /\ b \notin callback
      /\ Unfinished(b) = run[b].todo \ {run[b].package}
  BY <1>1, AtWork
<1>3. /\ batch' = batch /\ attempt' = attempt /\ dispatch' = dispatch
      /\ Unfinished(b)' = Unfinished(b) /\ OtherRows(b)
  BY <1>1, StoreSame
<1>4. CASE task[b] \in TaskTerminal
  <2>1. Fault(b, "callback") /\ loop' = Idle /\ UNCHANGED <<task, evidence>>
    BY <1>4 DEF RejectFiles, tasks
  <2>2. PICK r \in RunRecord : RunBecomes(b, r) /\ r.pc = "ending" /\ r.fault = "callback"
    BY <2>1, Served, FaultSets
  <2>3. loop'.op = "idle" /\ loop'.batch # b
    BY <2>1, StoreAssumption DEF Idle
  <2>4. BatchInv(b)'
    BY <1>1, <1>2, <1>3, <2>1, <2>2, <2>3, Served
       DEF BatchInv, LoopOf, TodoOf, WorkOf, OriginOf, StartupOf, Claiming, Rejecting,
           Doing, HasNode, Working3, RunBecomes
  <2> QED BY <1>1, <1>3, <2>1, <2>2, <2>4, Served, RestKeeps
<1>5. CASE task[b] \notin TaskTerminal
  <2>1. /\ WriteEvidence(b, run[b].package, "failed") /\ Begin("rejected", b, loop.status)
        /\ UNCHANGED run
    BY <1>5 DEF RejectFiles
  <2>2. /\ loop' \in LoopRecord /\ loop'.op = "rejected" /\ loop'.batch = b
        /\ loop'.status = loop.status
    BY <1>1, <2>1, LoopSets
  <2>3. "failed" \in Evidence
    BY DEF Evidence
  <2>4. /\ evidence' \in [Batches -> [Packages -> Evidence]]
        /\ \E t : TaskBecomes(b, t)
    BY <2>1, <2>3, Served, EvidenceSets
  <2>5. BatchInv(b)'
    BY <1>1, <1>2, <1>3, <2>1, <2>2, Served
       DEF BatchInv, LoopOf, TodoOf, WorkOf, OriginOf, StartupOf, Claiming, Rejecting,
           Doing, HasNode, Working3
  <2> QED BY <1>1, <1>3, <2>1, <2>2, <2>4, <2>5, RestKeeps
<1> QED BY <1>4, <1>5

(* The run has finished with a package and goes on to the next.            *)
LEMMA PackageDone ==
  ASSUME ServiceInv, NEW b \in Batches, NEW s \in AttemptTerminal,
         Rest, UNCHANGED <<task, evidence, callback>>, phase \in {"up", "stopping"},
         loop = Idle \/ loop.batch = b, ~Claiming(b), ~Doing("timeout", b),
         run[b].pc \in Working3,
         Finishes(b, run[b].package, s),
         Continue(b, run[b].todo \ {run[b].package}, run[b].stop),
         loop' = Idle
  PROVE  Kept
<1> DEFINE p == run[b].package
<1>1. /\ p \in run[b].todo /\ run[b].fault = "no" /\ HasNode(b) /\ b \notin callback
      /\ run[b].todo \ {p} \in SUBSET Packages /\ run[b].stop \in BOOLEAN
      /\ Unfinished(b) \ {p} = run[b].todo \ {p}
  BY AtWork, Served DEF RunRecord
<1>2. Continue(b, run[b].todo \ {p}, run[b].stop)
  OBVIOUS
<1>3. PICK r \in RunRecord :
        /\ RunBecomes(b, r)
        /\ r.todo = run[b].todo \ {p} /\ r.stop = run[b].stop /\ r.fault = run[b].fault
        /\ \/ r.pc = "preparing" /\ r.package \in run[b].todo \ {p}
           \/ r.pc = "ending" /\ (run[b].stop \/ run[b].todo \ {p} = {})
  <2>1. RunTypes
    BY Served
  <2> HIDE DEF p
  <2> QED BY <1>1, <1>2, <2>1, ContinueSets
<1>4. /\ Unfinished(b)' = run[b].todo \ {p}
      /\ batch[b] # "absent" /\ batch'[b] # "absent"
      /\ dispatch' = dispatch /\ OtherRows(b)
  <2>1. IInv /\ Finishes(b, p, s)
    BY Served
  <2> HIDE DEF p
  <2> QED BY <1>1, <2>1, FinishedRows
<1>5. loop'.op = "idle" /\ loop'.batch # b
  BY StoreAssumption DEF Idle
<1>6. /\ evidence' \in [Batches -> [Packages -> Evidence]]
      /\ UNCHANGED <<phase, recheck, request>>
  BY Served DEF Rest
<1> HIDE DEF p
<1>7. BatchInv(b)'
  BY <1>1, <1>3, <1>4, <1>5, <1>6, Served
     DEF BatchInv, LoopOf, TodoOf, WorkOf, OriginOf, StartupOf, Claiming, Rejecting, Doing,
         HasNode, Working3, RunBecomes
<1> QED BY <1>3, <1>4, <1>6, <1>7, RestKeeps

LEMMA FinishRejectedKeeps ==
  ASSUME ServiceInv, IInv', NEW b \in Batches, FinishRejected(b)
  PROVE  Kept
<1>1. /\ Doing("rejected", b) /\ loop.batch = b
      /\ FinishPackage(b, run[b].package, loop.status, FALSE)
      /\ Continue(b, run[b].todo \ {run[b].package}, run[b].stop)
      /\ loop' = Idle /\ UNCHANGED <<task, evidence, callback>> /\ Rest
  BY DEF FinishRejected, Doing, tasks
<1>2. /\ ~Claiming(b) /\ ~Doing("timeout", b)
      /\ run[b].pc \in Working3 /\ loop.status \in AttemptTerminal
  BY <1>1, Served DEF BatchInv, LoopOf, Rejecting, Claiming, Doing, Working3
<1>3. phase \in {"up", "stopping"}
  BY <1>1, OnTheLoop
<1>4. Finishes(b, run[b].package, loop.status)
  BY <1>1 DEF Finishes
<1> QED BY <1>1, <1>2, <1>3, <1>4, PackageDone

LEMMA FinishTransferKeeps ==
  ASSUME ServiceInv, IInv', NEW b \in Batches, FinishTransfer(b)
  PROVE  Kept
<1>1. /\ phase = "up" /\ loop = Idle /\ run[b].pc \in Working3
      /\ Continue(b, run[b].todo \ {run[b].package}, run[b].stop)
      /\ loop' = Idle /\ UNCHANGED <<task, evidence, callback>> /\ Rest
  BY DEF FinishTransfer, Ready, tasks, Working3
<1>2. PICK s \in AttemptTerminal : Finishes(b, run[b].package, s)
  BY StatusesAreTerminal DEF FinishTransfer, Finishes
<1>3. ~Claiming(b) /\ ~Doing("timeout", b)
  BY <1>1, IdleLoop
<1> QED BY <1>1, <1>2, <1>3, PackageDone

LEMMA BreakKeeps ==
  ASSUME ServiceInv, IInv', NEW b \in Batches, Break(b)
  PROVE  Kept
<1>1. /\ phase = "up" /\ loop = Idle /\ run[b].pc \in {"preparing", "transfer"}
      /\ Fault(b, "download")
      /\ UNCHANGED <<store, task, evidence, callback, loop>> /\ Rest
      /\ UNCHANGED <<phase, recheck, request>>
  BY DEF Break, Rest, Ready, tasks
<1>2. PICK r \in RunRecord : RunBecomes(b, r) /\ r.pc = "ending" /\ r.fault = "download"
  BY <1>1, Served, FaultSets
<1>3. BatchInv(b)'
  BY <1>1, <1>2, Served, StoreSame, IdleLoop
     DEF BatchInv, LoopOf, TodoOf, WorkOf, OriginOf, StartupOf, Claiming, Rejecting, Doing,
         HasNode, Working3, RunBecomes
<1> QED BY <1>1, <1>2, <1>3, Served, RestKeeps

LEMMA EndPackagesKeeps ==
  ASSUME ServiceInv, IInv', NEW b \in Batches, EndPackages(b)
  PROVE  Kept
<1>1. /\ phase = "up" /\ loop = Idle /\ run[b].pc = "ending" /\ RemoveNode(b)
      /\ UNCHANGED <<store, evidence, run, callback>> /\ Rest
      /\ UNCHANGED <<phase, recheck, request>>
  BY DEF EndPackages, Rest, Ready
<1>2. PICK t \in TaskTerminal : TaskBecomes(b, t)
  BY <1>1, Served, TaskSets
<1>3. /\ loop' \in LoopRecord /\ loop'.batch = b
      /\ loop'.op = IF run[b].fault = "no" THEN "leftover" ELSE "abort"
  <2>1. CASE Begin("leftover", b, "none") /\ run[b].fault = "no"
    BY <2>1, LoopSets
  <2>2. CASE Begin("abort", b, "none") /\ run[b].fault # "no"
    BY <2>2, LoopSets
  <2> QED BY <2>1, <2>2 DEF EndPackages
<1>4. t # "active" /\ task'[b] = t
  BY <1>2 DEF TaskTerminal, TaskBecomes
<1>5. BatchInv(b)'
  BY <1>1, <1>3, <1>4, Served, StoreSame, IdleLoop
     DEF BatchInv, LoopOf, TodoOf, WorkOf, OriginOf, StartupOf, Claiming, Rejecting, Doing,
         HasNode, Working3
<1> QED BY <1>1, <1>2, <1>3, <1>5, Served, RestKeeps

LEMMA FinishLeftoverKeeps ==
  ASSUME ServiceInv, IInv', NEW b \in Batches, FinishLeftover(b)
  PROVE  Kept
<1>1. /\ Doing("leftover", b) /\ UNCHANGED <<task, evidence, callback, loop>> /\ Rest
      /\ UNCHANGED <<phase, recheck, request>>
      /\ ~Claiming(b) /\ ~Rejecting(b) /\ ~Doing("timeout", b)
      /\ ~Claiming(b)' /\ ~Rejecting(b)' /\ ~Doing("timeout", b)'
      /\ phase \in {"up", "stopping"} /\ loop.batch = b /\ loop.op = "leftover"
  BY OnTheLoop DEF FinishLeftover, Rest, tasks, Claiming, Rejecting, Doing
<1>2. PICK p \in run[b].todo :
        /\ FinishPackage(b, p, Unstarted(run[b].stop), ~run[b].stop)
        /\ run' = [run EXCEPT ![b].todo = @ \ {p}]
  BY DEF FinishLeftover
<1>3. /\ run[b].pc = "ending" /\ run[b].fault = "no" /\ b \notin callback
      /\ run[b].stop = TRUE /\ Unfinished(b) = run[b].todo
      /\ run[b].todo \ {p} \in SUBSET Packages
  BY <1>1, <1>2, Served DEF BatchInv, LoopOf, TodoOf, HasNode, Working3, RunRecord
<1>4. /\ Unfinished(b)' = run[b].todo \ {p}
      /\ batch[b] # "absent" /\ batch'[b] # "absent"
      /\ dispatch' = dispatch /\ OtherRows(b)
  <2>1. Unstarted(run[b].stop) \in AttemptTerminal
    BY StatusesAreTerminal
  <2>2. Finishes(b, p, Unstarted(run[b].stop))
    BY <1>2 DEF Finishes
  <2> QED BY <1>3, <2>1, <2>2, Served, FinishedRows
<1>5. PICK r \in RunRecord :
        /\ RunBecomes(b, r)
        /\ r.todo = run[b].todo \ {p} /\ r.pc = run[b].pc
        /\ r.stop = run[b].stop /\ r.fault = run[b].fault
  BY <1>2, <1>3, Served, TodoSets
<1>6. BatchInv(b)'
  BY <1>1, <1>3, <1>4, <1>5, Served
     DEF BatchInv, LoopOf, TodoOf, WorkOf, OriginOf, StartupOf, Claiming, Rejecting, Doing,
         HasNode, Working3, RunBecomes
<1> QED BY <1>1, <1>4, <1>5, <1>6, Served, RestKeeps

(* The run ends with its batch settled and its task not active.            *)
LEMMA RunEnds ==
  ASSUME ServiceInv, NEW b \in Batches, loop.batch = b, EndRun(b), loop' = Idle,
         UNCHANGED <<store, evidence>>, Rest, Unfinished(b) = {},
         NEW t, TaskBecomes(b, t), phase = "up" => t # "active"
  PROVE  Kept
<1>1. PICK r \in RunRecord : r.pc = "none" /\ RunBecomes(b, r)
  BY Served, EndRunSets
<1>2. callback' = callback \union {b}
  BY Served, EndRunSets
<1>3. batch[b] \notin Active
  BY Served, ActiveHasWork
<1>4. /\ batch' = batch /\ dispatch' = dispatch /\ Unfinished(b)' = Unfinished(b)
      /\ OtherRows(b)
  BY StoreSame
<1>5. loop'.op = "idle" /\ loop'.batch # b
  BY StoreAssumption DEF Idle
<1>6. UNCHANGED <<phase, recheck, request>> /\ phase \in {"up", "stopping"} /\ task'[b] = t
  BY OnTheLoop DEF Rest, TaskBecomes
<1>7. BatchInv(b)'
  BY <1>1, <1>2, <1>3, <1>4, <1>5, <1>6, Served
     DEF BatchInv, LoopOf, TodoOf, WorkOf, OriginOf, StartupOf, Claiming, Rejecting, Doing,
         HasNode, Working3, RunBecomes
<1> QED BY <1>1, <1>2, <1>4, <1>7, Served, RestKeeps

LEMMA EndNormallyKeeps ==
  ASSUME ServiceInv, IInv', NEW b \in Batches, EndNormally(b)
  PROVE  Kept
<1>1. /\ Doing("leftover", b) /\ loop.batch = b /\ run[b].todo = {} /\ EndRun(b)
      /\ loop' = Idle /\ UNCHANGED <<store, evidence>> /\ Rest
  BY DEF EndNormally, Doing
<1>2. Unfinished(b) = {} /\ (phase = "up" /\ task[b] = "active" => run[b].stop)
  BY <1>1, Served DEF BatchInv, LoopOf, TodoOf, WorkOf, HasNode, Working3, Claiming, Rejecting, Doing
<1>3. \E t : TaskBecomes(b, t) /\ (phase = "up" => t # "active")
  <2>1. CASE run[b].stop
    <3>1. ReconcileTask(b, "cancelled")
      BY <2>1 DEF EndNormally
    <3> QED BY <3>1, Served, TaskSets DEF TaskStatus, TaskTerminal
  <2>2. CASE ~run[b].stop
    <3>1. UNCHANGED task
      BY <2>2 DEF EndNormally
    <3> QED BY <1>2, <2>2, <3>1, Served, TaskSets
  <2> QED BY <2>1, <2>2
<1> QED BY <1>1, <1>2, <1>3, RunEnds

(* The packages that are left are settled one by one.                      *)
LEMMA SettleKeeps ==
  ASSUME ServiceInv, NEW b \in Batches, NEW p, NEW s \in AttemptTerminal,
         Finishes(b, p, s),
         loop.batch = b, loop.op \in {"abort", "cancel", "timeout"},
         UNCHANGED <<task, evidence, run, callback, loop>>, Rest
  PROVE  Kept
<1>1. /\ batch[b] # "absent" /\ batch'[b] # "absent"
      /\ dispatch' = dispatch /\ OtherRows(b)
  BY Served, FinishedRows
<1>2. UNCHANGED <<phase, recheck, request>> /\ phase \in {"up", "stopping"}
  BY OnTheLoop DEF Rest
<1>3. BatchInv(b)'
  BY <1>1, <1>2, Served
     DEF BatchInv, LoopOf, TodoOf, WorkOf, OriginOf, StartupOf, Claiming, Rejecting, Doing,
         HasNode, Working3
<1> QED BY <1>1, <1>3, Served, RestKeeps

LEMMA AbortPackageKeeps ==
  ASSUME ServiceInv, IInv', NEW b \in Batches, AbortPackage(b)
  PROVE  Kept
<1>1. /\ loop.batch = b /\ loop.op = "abort"
      /\ UNCHANGED <<task, evidence, run, callback, loop>> /\ Rest
  BY DEF AbortPackage, Doing, tasks
<1>2. PICK p : Finishes(b, p, "failed")
  BY DEF AbortPackage, Finishes
<1> QED BY <1>1, <1>2, SettleKeeps, StatusesAreTerminal

LEMMA EndAbortedKeeps ==
  ASSUME ServiceInv, IInv', NEW b \in Batches, EndAborted(b)
  PROVE  Kept
<1>1. /\ loop.batch = b /\ Unfinished(b) = {} /\ UpdateTask(b, "failed") /\ EndRun(b)
      /\ loop' = Idle /\ UNCHANGED <<store, evidence>> /\ Rest
  BY DEF EndAborted, Doing
<1>2. \E t : TaskBecomes(b, t) /\ t # "active"
  BY <1>1, Served, TaskSets DEF TaskStatus, TaskLive, TaskTerminal
<1> QED BY <1>1, <1>2, RunEnds

LEMMA CancelPackageKeeps ==
  ASSUME ServiceInv, IInv', NEW b \in Batches, CancelPackage(b)
  PROVE  Kept
<1>1. /\ loop.batch = b /\ loop.op \in {"cancel", "timeout"}
      /\ UNCHANGED <<task, evidence, run, callback, loop>> /\ Rest
  BY DEF CancelPackage, Doing, tasks
<1>2. PICK p : Finishes(b, p, "cancelled")
  BY DEF CancelPackage, Finishes
<1> QED BY <1>1, <1>2, SettleKeeps, StatusesAreTerminal

LEMMA EndCancelledKeeps ==
  ASSUME ServiceInv, IInv', NEW b \in Batches, EndCancelled(b)
  PROVE  Kept
<1>1. /\ loop.batch = b /\ Unfinished(b) = {} /\ UpdateTask(b, "cancelled")
      /\ loop' = Idle /\ UNCHANGED <<store, evidence>> /\ Rest
  BY DEF EndCancelled, Doing
<1>2. PICK t : TaskBecomes(b, t) /\ t # "active"
  BY <1>1, Served, TaskSets DEF TaskStatus, TaskLive, TaskTerminal
<1>3. CASE loop.op = "timeout"
  BY <1>1, <1>2, <1>3, RunEnds DEF EndCancelled
<1>4. CASE loop.op # "timeout"
  <2>1. UNCHANGED <<run, callback>> /\ Doing("cancel", b)
    BY <1>4 DEF EndCancelled, Doing
  <2>2. batch[b] \notin Active
    BY <1>1, Served, ActiveHasWork
  <2>3. loop'.op = "idle" /\ loop'.batch # b
    BY <1>1, StoreAssumption DEF Idle
  <2>4. UNCHANGED <<phase, recheck, request>> /\ phase \in {"up", "stopping"} /\ task'[b] = t
    BY <1>1, <1>2, OnTheLoop DEF Rest, TaskBecomes
  <2>5. /\ batch' = batch /\ dispatch' = dispatch /\ Unfinished(b)' = Unfinished(b)
        /\ OtherRows(b)
    BY <1>1, StoreSame
  <2>6. BatchInv(b)'
    BY <1>2, <2>1, <2>2, <2>3, <2>4, <2>5, Served
       DEF BatchInv, LoopOf, TodoOf, WorkOf, OriginOf, StartupOf, Claiming, Rejecting,
           Doing, HasNode, Working3
  <2> QED BY <1>1, <1>2, <2>1, <2>5, <2>6, Served, RestKeeps
<1> QED BY <1>3, <1>4

LEMMA TimeOutKeeps ==
  ASSUME ServiceInv, IInv', NEW b \in Batches, TimeOut(b)
  PROVE  Kept
<1>1. /\ phase = "up" /\ loop = Idle /\ HasNode(b) /\ RemoveNode(b)
      /\ UNCHANGED <<store, evidence, run, callback>> /\ Rest
      /\ UNCHANGED <<phase, recheck, request>>
  BY DEF TimeOut, Rest, Ready
<1>2. PICK t \in TaskTerminal : TaskBecomes(b, t)
  BY <1>1, Served, TaskSets
<1>3. loop' \in LoopRecord /\ loop'.batch = b /\ loop'.op = "timeout"
  BY LoopSets DEF TimeOut
<1>4. t # "active" /\ task'[b] = t
  BY <1>2 DEF TaskTerminal, TaskBecomes
<1>5. BatchInv(b)'
  BY <1>1, <1>3, <1>4, Served, StoreSame, IdleLoop
     DEF BatchInv, LoopOf, TodoOf, WorkOf, OriginOf, StartupOf, Claiming, Rejecting, Doing,
         HasNode, Working3
<1> QED BY <1>1, <1>2, <1>3, <1>5, Served, RestKeeps

LEMMA DoneCallbackKeeps ==
  ASSUME ServiceInv, IInv', NEW b \in Batches, DoneCallback(b)
  PROVE  Kept
<1>1. /\ phase = "up" /\ loop = Idle /\ b \in callback /\ callback' = callback \ {b}
      /\ UNCHANGED <<task, evidence, recheck, request, phase, loop, restarts, requests>>
      /\ evidence' \in [Batches -> [Packages -> Evidence]]
  BY Served DEF DoneCallback, Ready, tasks, bounds
<1>2. ~HasNode(b) /\ run[b].pc \in {"none", "waiting"}
  BY <1>1, Served DEF BatchInv, TodoOf, HasNode, RunRecord
<1>3. /\ request' \in [Batches -> {"no", "ensure", "mark", "schedule"}]
      /\ requests' \in 0 .. MaxRequests
  BY <1>1 DEF ServiceInv, ServiceTypes, ProcessTypes
<1>4. CASE RetryBatch(b) /\ retried' = retried \union {b} /\ run' = Scheduled(b)
  <2>1. PICK r \in RunRecord : RunBecomes(b, r) /\ r.pc = "waiting"
    BY <1>2, <1>4, Served, ScheduledSets
  <2>2. /\ batch[b] # "absent" /\ batch'[b] = "queued" /\ dispatch' = dispatch /\ OtherRows(b)
    BY <1>4, Served, RetryRows
  <2>3. BatchInv(b)'
    BY <1>1, <1>2, <2>1, <2>2, Served, IdleLoop
       DEF BatchInv, LoopOf, TodoOf, WorkOf, OriginOf, StartupOf, Claiming, Rejecting,
           Doing, HasNode, Working3, RunBecomes, Active
  <2> QED BY <1>1, <1>3, <1>4, <2>1, <2>2, <2>3, StepKeeps
<1>5. CASE UNCHANGED <<store, retried, run>>
  <2>1. UNCHANGED retried /\ UNCHANGED store
    BY <1>5
  <2>2. BatchInv(b)'
    BY <1>1, <1>2, <1>5, <2>1, Served, StoreSame, IdleLoop
       DEF BatchInv, LoopOf, TodoOf, WorkOf, OriginOf, StartupOf, Claiming, Rejecting,
           Doing, HasNode, Working3
  <2> QED BY <1>1, <1>3, <1>5, <2>1, <2>2, StoreSame, StepKeeps
<1> QED BY <1>4, <1>5 DEF DoneCallback

LEMMA RequestCounted ==
  ASSUME ServiceInv, Requested
  PROVE  requests' \in 0 .. MaxRequests
<1>1. requests \in 0 .. MaxRequests /\ MaxRequests \in Nat
  BY OutboxAssumption DEF ServiceInv, ServiceTypes, ProcessTypes
<1> QED BY <1>1 DEF Requested

LEMMA CancelKeeps ==
  ASSUME ServiceInv, IInv', NEW b \in Batches, Cancel(b)
  PROVE  Kept
<1>1. /\ phase = "up" /\ loop = Idle /\ task[b] # "absent"
      /\ UNCHANGED <<evidence, callback, phase, recheck, retried, request, restarts>>
      /\ UNCHANGED store
      /\ evidence' \in [Batches -> [Packages -> Evidence]]
      /\ requests' \in 0 .. MaxRequests
  BY Served, RequestCounted DEF Cancel, Ready
<1>2. request' \in [Batches -> {"no", "ensure", "mark", "schedule"}]
  BY <1>1 DEF ServiceInv, ServiceTypes, ProcessTypes
<1>3. /\ batch' = batch /\ dispatch' = dispatch /\ Unfinished(b)' = Unfinished(b)
      /\ OtherRows(b) /\ batch[b] # "absent"
  BY <1>1, Served, StoreSame DEF BatchInv, OriginOf
<1>4. CASE HasNode(b)
  <2>1. run' = [run EXCEPT ![b].stop = TRUE] /\ UpdateTask(b, "cancelled") /\ UNCHANGED loop
    BY <1>4 DEF Cancel
  <2>2. PICK r \in RunRecord :
          /\ RunBecomes(b, r)
          /\ r.stop = TRUE /\ r.pc = run[b].pc /\ r.package = run[b].package
          /\ r.todo = run[b].todo /\ r.fault = run[b].fault
    BY <2>1, Served, StopSets
  <2>3. \E t : TaskBecomes(b, t)
    BY <2>1, Served, TaskSets DEF TaskStatus, TaskTerminal
  <2>4. BatchInv(b)'
    BY <1>1, <1>3, <1>4, <2>1, <2>2, Served, IdleLoop
       DEF BatchInv, LoopOf, TodoOf, WorkOf, OriginOf, StartupOf, Claiming, Rejecting,
           Doing, HasNode, Working3, RunBecomes
  <2> QED BY <1>1, <1>2, <1>3, <2>1, <2>2, <2>3, <2>4, StepKeeps
<1>5. CASE ~HasNode(b)
  <2>1. run' = [run EXCEPT ![b].pc = "none"] /\ Begin("cancel", b, "none") /\ UNCHANGED task
    BY <1>5 DEF Cancel
  <2>2. PICK r \in RunRecord : RunBecomes(b, r) /\ r.pc = "none"
    <3>1. "none" \in RunPc
      BY DEF RunPc
    <3> QED BY <2>1, <3>1, Served, PcSets
  <2>3. loop' \in LoopRecord /\ loop'.op = "cancel" /\ loop'.batch = b
    BY <2>1, LoopSets
  <2>4. BatchInv(b)'
    BY <1>1, <1>3, <2>1, <2>2, <2>3, Served
       DEF BatchInv, LoopOf, TodoOf, WorkOf, OriginOf, StartupOf, Claiming, Rejecting,
           Doing, HasNode, Working3, RunBecomes
  <2> QED BY <1>1, <1>2, <1>3, <2>1, <2>2, <2>3, <2>4, StepKeeps
<1> QED BY <1>4, <1>5

LEMMA RetryDownloadKeeps ==
  ASSUME ServiceInv, IInv', NEW b \in Batches, RetryDownload(b)
  PROVE  Kept
<1>1. /\ phase = "up" /\ loop = Idle /\ run[b].pc = "none"
      /\ RetryBatch(b) /\ Begin("retry", b, "none")
      /\ UNCHANGED <<task, evidence, run, callback, phase, recheck, retried, request, restarts>>
      /\ evidence' \in [Batches -> [Packages -> Evidence]]
      /\ requests' \in 0 .. MaxRequests
  BY Served, RequestCounted DEF RetryDownload, Ready, tasks
<1>2. request' \in [Batches -> {"no", "ensure", "mark", "schedule"}]
  BY <1>1 DEF ServiceInv, ServiceTypes, ProcessTypes
<1>3. /\ batch[b] # "absent" /\ batch'[b] = "queued" /\ dispatch' = dispatch /\ OtherRows(b)
  BY <1>1, Served, RetryRows
<1>4. loop' \in LoopRecord /\ loop'.op = "retry" /\ loop'.batch = b
  BY <1>1, LoopSets
<1>5. BatchInv(b)'
  BY <1>1, <1>3, <1>4, Served
     DEF BatchInv, LoopOf, TodoOf, WorkOf, OriginOf, StartupOf, Claiming, Rejecting, Doing,
         HasNode, Working3, Active
<1> QED BY <1>1, <1>2, <1>3, <1>4, <1>5, StepKeeps

LEMMA RetryTaskKeeps ==
  ASSUME ServiceInv, IInv', NEW b \in Batches, RetryTask(b)
  PROVE  Kept
<1>1. /\ Doing("retry", b) /\ loop.batch = b /\ run' = Scheduled(b) /\ loop' = Idle
      /\ UNCHANGED <<evidence, callback>> /\ UNCHANGED store /\ Rest
      /\ UNCHANGED <<phase, recheck, request>> /\ phase \in {"up", "stopping"}
  BY OnTheLoop DEF RetryTask, Rest, Doing
<1>2. run[b].pc = "none" /\ batch[b] \in Active /\ batch[b] # "absent"
  BY <1>1, Served DEF BatchInv, LoopOf, Active
<1>3. PICK r \in RunRecord : RunBecomes(b, r) /\ r.pc = "waiting"
  BY <1>1, <1>2, Served, ScheduledSets
<1>4. \E t : TaskBecomes(b, t)
  BY Served DEF RetryTask, Ensured, TaskBecomes, TaskStatus, TaskLive, RowTypes
<1>5. loop'.op = "idle" /\ loop'.batch # b
  BY <1>1, StoreAssumption DEF Idle
<1>6. /\ batch' = batch /\ dispatch' = dispatch /\ Unfinished(b)' = Unfinished(b)
      /\ OtherRows(b)
  BY <1>1, StoreSame
<1>7. BatchInv(b)'
  BY <1>1, <1>2, <1>3, <1>5, <1>6, Served
     DEF BatchInv, LoopOf, TodoOf, WorkOf, OriginOf, StartupOf, Claiming, Rejecting, Doing,
         HasNode, Working3, RunBecomes
<1> QED BY <1>1, <1>3, <1>4, <1>6, <1>7, Served, RestKeeps

(* A runner that stops leaves no run.                                      *)
LEMMA RunGone ==
  ASSUME ServiceInv, NEW b \in Batches, phase = "stopping", batch[b] # "absent",
         run' = [run EXCEPT ![b] = NoRun], loop = Idle \/ loop.batch = b, loop' = Idle,
         \/ UNCHANGED task
         \/ \E t : TaskBecomes(b, t),
         UNCHANGED <<evidence, callback>>, UNCHANGED store, Rest
  PROVE  Kept
<1>1. RunBecomes(b, NoRun)
  <2>1. NoRun \in RunRecord
    BY DEF NoRun, RunRecord
  <2> QED BY <2>1, Served, RecordSets
<1>2. run'[b].pc = "none"
  BY <1>1 DEF RunBecomes, NoRun
<1>3. loop'.op = "idle" /\ loop'.batch # b
  BY StoreAssumption DEF Idle
<1>4. /\ batch' = batch /\ dispatch' = dispatch /\ OtherRows(b) /\ phase' = phase
  BY StoreSame DEF Rest
<1>5. BatchInv(b)'
  BY <1>2, <1>3, <1>4, Served
     DEF BatchInv, LoopOf, TodoOf, WorkOf, OriginOf, StartupOf, Claiming, Rejecting, Doing,
         HasNode, Working3
<1> QED BY <1>1, <1>4, <1>5, Served, RestKeeps

LEMMA StopRunKeeps ==
  ASSUME ServiceInv, IInv', NEW b \in Batches, StopRun(b)
  PROVE  Kept
<1>1. /\ phase = "stopping" /\ loop = Idle /\ run[b].pc # "none"
      /\ UNCHANGED <<evidence, callback>> /\ UNCHANGED store /\ Rest
      /\ UNCHANGED <<phase, recheck, request>>
  BY DEF StopRun, Rest
<1>2. batch[b] # "absent"
  BY <1>1, Served DEF BatchInv, OriginOf
<1>3. CASE run[b].pc = "waiting"
  BY <1>1, <1>2, <1>3, RunGone DEF StopRun
<1>4. CASE run[b].pc # "waiting"
  <2>1. RemoveNode(b) /\ Begin("requeue", b, "none") /\ UNCHANGED run
    BY <1>4 DEF StopRun
  <2>2. \E t : TaskBecomes(b, t)
    BY <2>1, Served, TaskSets
  <2>3. loop' \in LoopRecord /\ loop'.op = "requeue" /\ loop'.batch = b
    BY <2>1, LoopSets
  <2>4. BatchInv(b)'
    BY <1>1, <1>2, <2>1, <2>3, Served, StoreSame, IdleLoop
       DEF BatchInv, LoopOf, TodoOf, WorkOf, OriginOf, StartupOf, Claiming, Rejecting,
           Doing, HasNode, Working3
  <2> QED BY <1>1, <2>1, <2>2, <2>3, <2>4, Served, RestKeeps
<1> QED BY <1>3, <1>4

LEMMA RequeueBatchKeeps ==
  ASSUME ServiceInv, IInv', NEW b \in Batches, RequeueBatch(b)
  PROVE  Kept
<1>1. /\ Doing("requeue", b) /\ loop.batch = b /\ phase = "stopping"
      /\ UNCHANGED <<task, evidence, callback>> /\ Rest
      /\ UNCHANGED <<phase, recheck, request>> /\ batch[b] # "absent"
  BY Served DEF RequeueBatch, Rest, Doing, BatchInv, LoopOf, OriginOf, tasks
<1>2. CASE PrepareForRun(b) /\ Begin("requeued", b, "none") /\ UNCHANGED run
  <2>1. /\ Unfinished(b)' = Unfinished(b) /\ batch'[b] = "queued"
        /\ dispatch' = dispatch /\ OtherRows(b)
    BY <1>2, Served, PrepareRows
  <2>2. loop' \in LoopRecord /\ loop'.op = "requeued" /\ loop'.batch = b
    BY <1>2, LoopSets
  <2>3. BatchInv(b)'
    BY <1>1, <1>2, <2>1, <2>2, Served
       DEF BatchInv, LoopOf, TodoOf, WorkOf, OriginOf, StartupOf, Claiming, Rejecting,
           Doing, HasNode, Working3
  <2> QED BY <1>1, <1>2, <2>1, <2>2, <2>3, Served, RestKeeps
<1>3. CASE run' = [run EXCEPT ![b] = NoRun] /\ loop' = Idle /\ UNCHANGED store
  BY <1>1, <1>3, RunGone
<1> QED BY <1>2, <1>3 DEF RequeueBatch

LEMMA RequeueTaskKeeps ==
  ASSUME ServiceInv, IInv', NEW b \in Batches, RequeueTask(b)
  PROVE  Kept
<1>1. /\ loop.batch = b /\ phase = "stopping" /\ batch[b] # "absent"
      /\ run' = [run EXCEPT ![b] = NoRun] /\ loop' = Idle
      /\ UNCHANGED <<evidence, callback>> /\ UNCHANGED store /\ Rest
  BY Served DEF RequeueTask, Doing, BatchInv, LoopOf, OriginOf
<1>2. \E t : TaskBecomes(b, t)
  BY Served, TaskSets DEF RequeueTask, TaskStatus, TaskLive
<1> QED BY <1>1, <1>2, RunGone

-----------------------------------------------------------------------------
(* Web threads.                                                            *)

(* A step that leaves the rows of the batches, the loop and the process    *)
(* alone: only requests, task rows and evidence change, for b.             *)
LEMMA RequestTypes ==
  ASSUME ServiceInv, NEW b \in Batches, NEW step \in {"no", "ensure", "mark", "schedule"},
         request' = [request EXCEPT ![b] = step]
  PROVE  /\ request' \in [Batches -> {"no", "ensure", "mark", "schedule"}]
         /\ request'[b] = step
         /\ \A c \in Batches \ {b} : request'[c] = request[c]
BY DEF ServiceInv, ServiceTypes, ProcessTypes

LEMMA RequestsBounded ==
  ASSUME ServiceInv
  PROVE  /\ requests \in 0 .. MaxRequests
         /\ request \in [Batches -> {"no", "ensure", "mark", "schedule"}]
BY DEF ServiceInv, ServiceTypes, ProcessTypes

LEMMA CreateKeeps ==
  ASSUME ServiceInv, IInv', NEW b \in Batches, NEW P \in SUBSET Packages, Create(b, P)
  PROVE  Kept
<1>1. /\ phase = "up" /\ CreateBatch(b, P)
      /\ UNCHANGED <<task, evidence, phase, recheck, run, callback, retried, loop>>
      /\ UNCHANGED <<restarts, requests>>
      /\ evidence' \in [Batches -> [Packages -> Evidence]]
      /\ requests' \in 0 .. MaxRequests
  BY Served, RequestsBounded DEF Create, tasks, bounds
<1>2. /\ request' \in [Batches -> {"no", "ensure", "mark", "schedule"}]
      /\ request'[b] = "ensure"
      /\ \A c \in Batches \ {b} : request'[c] = request[c]
  BY RequestTypes DEF Create
<1>3. /\ batch[b] = "absent" /\ batch'[b] = "queued" /\ dispatch'[b] = "pending"
      /\ OtherRows(b)
  BY <1>1, Served, CreateRows
<1>4. task[b] = "absent" /\ run[b].pc = "none" /\ loop.batch # b
  BY <1>3, Served DEF BatchInv, OriginOf
<1>5. BatchInv(b)'
  BY <1>1, <1>2, <1>3, <1>4
     DEF BatchInv, LoopOf, TodoOf, WorkOf, OriginOf, StartupOf, Claiming, Rejecting, Doing,
         HasNode, Working3
<1> QED BY <1>1, <1>2, <1>3, <1>5, StepKeeps

LEMMA ReplayKeeps ==
  ASSUME ServiceInv, IInv', NEW b \in Batches, Replay(b)
  PROVE  Kept
<1>1. /\ phase = "up" /\ batch[b] # "absent"
      /\ UNCHANGED <<task, evidence, phase, recheck, run, callback, retried, loop, restarts>>
      /\ UNCHANGED store
      /\ evidence' \in [Batches -> [Packages -> Evidence]]
      /\ requests' \in 0 .. MaxRequests
  BY Served, RequestCounted DEF Replay, tasks
<1>2. /\ request' \in [Batches -> {"no", "ensure", "mark", "schedule"}]
      /\ request'[b] = "ensure"
      /\ \A c \in Batches \ {b} : request'[c] = request[c]
  BY RequestTypes DEF Replay
<1>3. /\ batch' = batch /\ dispatch' = dispatch /\ attempt' = attempt
      /\ Unfinished(b)' = Unfinished(b) /\ OtherRows(b)
  BY <1>1, StoreSame
<1>4. BatchInv(b)'
  BY <1>1, <1>2, <1>3, Served
     DEF BatchInv, LoopOf, TodoOf, WorkOf, OriginOf, StartupOf, Claiming, Rejecting, Doing,
         HasNode, Working3
<1> QED BY <1>1, <1>2, <1>3, <1>4, StepKeeps

LEMMA EnsureTaskKeeps ==
  ASSUME ServiceInv, IInv', NEW b \in Batches, EnsureTask(b)
  PROVE  Kept
<1>1. /\ request[b] = "ensure"
      /\ UNCHANGED <<evidence, phase, recheck, run, callback, retried, loop>>
      /\ UNCHANGED <<restarts, requests>> /\ UNCHANGED store
      /\ evidence' \in [Batches -> [Packages -> Evidence]]
      /\ requests' \in 0 .. MaxRequests
  BY Served, RequestsBounded DEF EnsureTask, bounds
<1>2. /\ request' \in [Batches -> {"no", "ensure", "mark", "schedule"}]
      /\ request'[b] = "mark"
      /\ \A c \in Batches \ {b} : request'[c] = request[c]
  BY RequestTypes DEF EnsureTask
<1>3. /\ batch' = batch /\ dispatch' = dispatch /\ attempt' = attempt
      /\ Unfinished(b)' = Unfinished(b) /\ OtherRows(b)
  BY <1>1, StoreSame
<1>4. /\ batch[b] # "absent" /\ phase \in {"up", "stopping"}
  BY <1>1, Served DEF BatchInv, OriginOf, StartupOf
<1>5. TaskBecomes(b, IF task[b] # "absent" THEN task[b]
                     ELSE IF batch[b] \in Active THEN "active" ELSE "zombie")
  BY Served, TaskSets DEF EnsureTask
<1>6. task'[b] = "active" => task[b] = "active" \/ batch[b] \in Active
  BY <1>5 DEF TaskBecomes
<1>7. task'[b] = "active" /\ Doing("leftover", b) /\ phase = "up" => run[b].stop
  <2>1. SUFFICES ASSUME batch[b] \in Active, Doing("leftover", b) PROVE run[b].stop
    BY <1>6, Served DEF BatchInv, WorkOf
  <2>2. Unfinished(b) # {}
    BY <2>1, Served, ActiveHasWork
  <2> QED
    BY <2>1, <2>2, Served
       DEF BatchInv, LoopOf, TodoOf, HasNode, Claiming, Rejecting, Doing
<1>8. LoopOf(b)' /\ TodoOf(b)' /\ OriginOf(b)' /\ StartupOf(b)'
  BY <1>1, <1>2, <1>3, <1>4, Served
     DEF BatchInv, LoopOf, TodoOf, WorkOf, OriginOf, StartupOf, Claiming, Rejecting, Doing,
         HasNode, Working3
<1>9. WorkOf(b)'
  BY <1>1, <1>2, <1>3, <1>6, <1>7, Served DEF BatchInv, WorkOf, HasNode, Doing
<1> QED BY <1>1, <1>2, <1>3, <1>5, <1>8, <1>9, StepKeeps DEF BatchInv

LEMMA MarkOutboxKeeps ==
  ASSUME ServiceInv, IInv', NEW b \in Batches, MarkOutbox(b)
  PROVE  Kept
<1>1. /\ request[b] = "mark" /\ MarkDispatched(b)
      /\ UNCHANGED <<task, evidence, phase, recheck, run, callback, retried, loop>>
      /\ UNCHANGED <<restarts, requests>>
      /\ evidence' \in [Batches -> [Packages -> Evidence]]
      /\ requests' \in 0 .. MaxRequests
  BY Served, RequestsBounded DEF MarkOutbox, bounds, tasks
<1>2. /\ request' \in [Batches -> {"no", "ensure", "mark", "schedule"}]
      /\ request'[b] = "schedule"
      /\ \A c \in Batches \ {b} : request'[c] = request[c]
  BY RequestTypes DEF MarkOutbox
<1>3. /\ batch' = batch /\ attempt' = attempt
      /\ batch[b] # "absent" /\ dispatch'[b] = "dispatched" /\ OtherRows(b)
  BY <1>1, Served, MarkRows
<1>4. Unfinished(b)' = Unfinished(b)
  BY <1>3 DEF Unfinished
<1>5. BatchInv(b)'
  BY <1>1, <1>2, <1>3, <1>4, Served
     DEF BatchInv, LoopOf, TodoOf, WorkOf, OriginOf, StartupOf, Claiming, Rejecting, Doing,
         HasNode, Working3
<1> QED BY <1>1, <1>2, <1>3, <1>5, StepKeeps

LEMMA ScheduleKeeps ==
  ASSUME ServiceInv, IInv', NEW b \in Batches, Schedule(b)
  PROVE  Kept
<1>1. /\ request[b] = "schedule"
      /\ UNCHANGED <<task, evidence, phase, recheck, callback, retried, loop>>
      /\ UNCHANGED <<restarts, requests>> /\ UNCHANGED store
      /\ evidence' \in [Batches -> [Packages -> Evidence]]
      /\ requests' \in 0 .. MaxRequests
  BY Served, RequestsBounded DEF Schedule, bounds, tasks
<1>2. /\ request' \in [Batches -> {"no", "ensure", "mark", "schedule"}]
      /\ request'[b] = "no"
      /\ \A c \in Batches \ {b} : request'[c] = request[c]
  BY RequestTypes DEF Schedule
<1>3. /\ batch' = batch /\ dispatch' = dispatch /\ attempt' = attempt
      /\ Unfinished(b)' = Unfinished(b) /\ OtherRows(b) /\ batch[b] # "absent"
  BY <1>1, Served, StoreSame DEF BatchInv, OriginOf
<1>4. CASE phase = "up" /\ loop = Idle /\ run' = Scheduled(b)
  <2>1. PICK r \in RunRecord :
          /\ RunBecomes(b, r)
          /\ r.pc = IF run[b].pc = "none" THEN "waiting" ELSE run[b].pc
          /\ r.package = run[b].package /\ r.todo = run[b].todo
          /\ r.stop = run[b].stop /\ r.fault = run[b].fault
    BY <1>4, Served, ScheduledSets
  <2>2. dispatch[b] # "pending"
    BY <1>1, <1>4, Served DEF BatchInv, WorkOf
  <2>3. BatchInv(b)'
    BY <1>1, <1>2, <1>3, <1>4, <2>1, <2>2, Served, IdleLoop
       DEF BatchInv, LoopOf, TodoOf, WorkOf, OriginOf, StartupOf, Claiming, Rejecting,
           Doing, HasNode, Working3, RunBecomes
  <2> QED BY <1>1, <1>2, <1>3, <2>1, <2>3, StepKeeps
<1>5. CASE phase = "stopping" /\ UNCHANGED run
  <2>1. BatchInv(b)'
    BY <1>1, <1>2, <1>3, <1>5, Served
       DEF BatchInv, LoopOf, TodoOf, WorkOf, OriginOf, StartupOf, Claiming, Rejecting,
           Doing, HasNode, Working3
  <2> QED BY <1>1, <1>2, <1>3, <1>5, <2>1, StepKeeps
<1> QED BY <1>4, <1>5 DEF Schedule, Ready

LEMMA ClearTaskKeeps ==
  ASSUME ServiceInv, IInv', NEW b \in Batches, ClearTask(b)
  PROVE  Kept
<1>1. /\ phase = "up"
      /\ UNCHANGED <<run, phase, recheck, callback, retried, loop, request, restarts>>
      /\ UNCHANGED store
      /\ requests' \in 0 .. MaxRequests
      /\ request' \in [Batches -> {"no", "ensure", "mark", "schedule"}]
  BY RequestCounted, RequestsBounded DEF ClearTask, process
<1>2. TaskBecomes(b, "absent")
  BY Served DEF ClearTask, TaskBecomes, TaskStatus, RowTypes
<1>3. task'[b] = "absent"
  BY <1>2 DEF TaskBecomes
<1>4. evidence' \in [Batches -> [Packages -> Evidence]]
  <2>1. [p \in Packages |-> "none"] \in [Packages -> Evidence]
    BY DEF Evidence
  <2> QED BY <2>1, Served DEF ClearTask
<1>5. /\ batch' = batch /\ dispatch' = dispatch /\ attempt' = attempt
      /\ Unfinished(b)' = Unfinished(b) /\ OtherRows(b)
  BY <1>1, StoreSame
<1>6. BatchInv(b)'
  BY <1>1, <1>3, <1>5, Served
     DEF BatchInv, LoopOf, TodoOf, WorkOf, OriginOf, StartupOf, Claiming, Rejecting, Doing,
         HasNode, Working3
<1> QED BY <1>1, <1>2, <1>4, <1>5, <1>6, StepKeeps

LEMMA FileProgressKeeps ==
  ASSUME ServiceInv, IInv', NEW b \in Batches, NEW e \in Evidence, FileProgress(b, e)
  PROVE  Kept
<1>1. /\ phase = "up" /\ run[b].pc = "transfer" /\ WriteEvidence(b, run[b].package, e)
      /\ UNCHANGED <<run, phase, recheck, callback, retried, loop, request>>
      /\ UNCHANGED <<restarts, requests>> /\ UNCHANGED store
  BY DEF FileProgress, process, bounds
<1>2. /\ requests' \in 0 .. MaxRequests
      /\ request' \in [Batches -> {"no", "ensure", "mark", "schedule"}]
  BY <1>1, RequestsBounded
<1>3. /\ evidence' \in [Batches -> [Packages -> Evidence]]
      /\ \E t : TaskBecomes(b, t)
  BY <1>1, Served, EvidenceSets
<1>4. /\ batch' = batch /\ dispatch' = dispatch /\ attempt' = attempt
      /\ Unfinished(b)' = Unfinished(b) /\ OtherRows(b)
  BY <1>1, StoreSame
<1>5. ~Doing("leftover", b) /\ HasNode(b) /\ batch[b] # "absent"
  BY <1>1, Served DEF BatchInv, LoopOf, OriginOf, HasNode
<1>6. LoopOf(b)' /\ TodoOf(b)' /\ OriginOf(b)' /\ StartupOf(b)'
  BY <1>1, <1>4, <1>5, Served
     DEF BatchInv, LoopOf, TodoOf, WorkOf, OriginOf, StartupOf, Claiming, Rejecting, Doing,
         HasNode, Working3
<1>7. WorkOf(b)'
  BY <1>1, <1>4, <1>5, Served DEF BatchInv, WorkOf, HasNode, Doing
<1> QED BY <1>1, <1>2, <1>3, <1>4, <1>6, <1>7, StepKeeps DEF BatchInv

(* Nothing that the invariant speaks of changes.                           *)
LEMMA StillKeeps ==
  ASSUME ServiceInv, UNCHANGED <<batch, attempt, dispatch>>, UNCHANGED <<tasks, process, bounds>>
  PROVE  Kept
<1>1. UNCHANGED <<task, evidence, phase, recheck, run, callback, retried, loop, request,
                  restarts, requests>>
  BY DEF tasks, process, bounds
<1>2. ServiceTypes'
  BY <1>1 DEF ServiceInv, ServiceTypes, RowTypes, ProcessTypes, RunTypes
<1>3. LoopIdle'
  BY <1>1 DEF ServiceInv, LoopIdle
<1>4. \A b \in Batches : Unfinished(b)' = Unfinished(b)
  BY DEF Unfinished
<1>5. ASSUME NEW b \in Batches PROVE BatchInv(b)'
  BY <1>1, <1>4, Served
     DEF BatchInv, LoopOf, TodoOf, WorkOf, OriginOf, StartupOf, Claiming, Rejecting, Doing,
         HasNode, Working3
<1> QED BY <1>2, <1>3, <1>5 DEF Kept

LEMMA PublishKeeps ==
  ASSUME ServiceInv, NEW p \in Packages, Publish(p)
  PROVE  Kept
BY StillKeeps DEF Publish, PublishIndex

-----------------------------------------------------------------------------
(* The process.                                                            *)

LEMMA VanishKeeps ==
  ASSUME ServiceInv, Vanish, UNCHANGED store, UNCHANGED tasks,
         restarts' \in 0 .. MaxRestarts, requests' = requests
  PROVE  Kept
<1>1. /\ phase' = "down" /\ recheck' = {} /\ callback' = {} /\ loop' = Idle
      /\ run' = [b \in Batches |-> NoRun] /\ request' = [b \in Batches |-> "no"]
      /\ UNCHANGED <<task, evidence>>
  BY DEF Vanish, tasks
<1>2. Idle \in LoopRecord /\ Idle.batch = NoBatch
  BY DEF Idle, LoopRecord
<1>3. ServiceTypes'
  <2>1. RowTypes'
    BY <1>1 DEF ServiceInv, ServiceTypes, RowTypes
  <2>2. RunTypes'
    BY <1>1 DEF RunTypes, NoRun, RunRecord
  <2>3. ProcessTypes'
    BY <1>1, <1>2 DEF ServiceInv, ServiceTypes, ProcessTypes, Vanish
  <2> QED BY <2>1, <2>2, <2>3 DEF ServiceTypes
<1>4. LoopIdle'
  BY <1>1, <1>2 DEF LoopIdle
<1>5. ASSUME NEW b \in Batches PROVE BatchInv(b)'
  <2>1. run'[b] = NoRun /\ run'[b].pc = "none" /\ request'[b] = "no" /\ b \notin callback'
    BY <1>1 DEF NoRun
  <2>2. loop'.op = "idle" /\ loop'.batch # b
    BY <1>1, StoreAssumption DEF Idle
  <2>3. batch' = batch /\ dispatch' = dispatch /\ task' = task
    BY <1>1, StoreSame
  <2> QED
    BY <1>1, <2>1, <2>2, <2>3, Served
       DEF BatchInv, LoopOf, TodoOf, WorkOf, OriginOf, StartupOf, Claiming, Rejecting,
           Doing, HasNode, Working3
<1> QED BY <1>3, <1>4, <1>5 DEF Kept

LEMMA CrashKeeps ==
  ASSUME ServiceInv, Crash
  PROVE  Kept
<1>1. restarts \in 0 .. MaxRestarts /\ MaxRestarts \in Nat
  BY OutboxAssumption DEF ServiceInv, ServiceTypes, ProcessTypes
<1>2. restarts' \in 0 .. MaxRestarts
  BY <1>1 DEF Crash
<1> QED BY <1>2, VanishKeeps DEF Crash

LEMMA ExitKeeps ==
  ASSUME ServiceInv, Exit
  PROVE  Kept
<1>1. restarts \in 0 .. MaxRestarts
  BY DEF ServiceInv, ServiceTypes, ProcessTypes
<1> QED BY <1>1, VanishKeeps DEF Exit, bounds

(* A change of phase that leaves the rows alone.                           *)
LEMMA PhaseTypes ==
  ASSUME ServiceInv, UNCHANGED <<tasks, retried, loop, request, requests>>, RunTypes',
         phase' \in {"down", "dispatch", "tasks", "batches", "up", "stopping"},
         recheck' \subseteq Batches, callback' \subseteq Batches,
         restarts' \in 0 .. MaxRestarts
  PROVE  ServiceTypes'
<1>1. RowTypes'
  BY DEF ServiceInv, ServiceTypes, RowTypes, tasks
<1>2. ProcessTypes'
  BY DEF ServiceInv, ServiceTypes, ProcessTypes
<1> QED BY <1>1, <1>2 DEF ServiceTypes

LEMMA StopKeeps ==
  ASSUME ServiceInv, Stop
  PROVE  Kept
<1>1. /\ phase = "up" /\ loop = Idle /\ phase' = "stopping" /\ callback' = {}
      /\ UNCHANGED <<task, recheck, run, retried, loop, request, requests>>
      /\ UNCHANGED tasks /\ UNCHANGED store
  BY DEF Stop, Ready, tasks
<1>2. ServiceTypes'
  <2>1. restarts \in 0 .. MaxRestarts /\ MaxRestarts \in Nat /\ recheck \subseteq Batches
    BY OutboxAssumption DEF ServiceInv, ServiceTypes, ProcessTypes
  <2>2. restarts' \in 0 .. MaxRestarts
    BY <2>1 DEF Stop
  <2>3. RunTypes'
    BY <1>1 DEF ServiceInv, ServiceTypes, RunTypes
  <2> QED BY <1>1, <2>1, <2>2, <2>3, PhaseTypes
<1>3. LoopIdle'
  BY <1>1 DEF ServiceInv, LoopIdle
<1>4. ASSUME NEW b \in Batches PROVE BatchInv(b)'
  BY <1>1, Served, StoreSame, IdleLoop
     DEF BatchInv, LoopOf, TodoOf, WorkOf, OriginOf, StartupOf, Claiming, Rejecting, Doing,
         HasNode, Working3
<1> QED BY <1>2, <1>3, <1>4 DEF Kept

(* The phases of startup, in which no batch has a run.                     *)
LEMMA AtStartup ==
  ASSUME ServiceInv, phase \notin {"up", "stopping"}, NEW b \in Batches
  PROVE  /\ run[b] = NoRun /\ run[b].pc = "none" /\ request[b] = "no" /\ loop.batch # b
         /\ \A op : ~Doing(op, b)
         /\ ~Claiming(b) /\ ~Rejecting(b) /\ ~HasNode(b)
<1>1. run[b] = NoRun /\ request[b] = "no" /\ loop.batch # b
  BY Served DEF BatchInv, StartupOf
<1>2. run[b].pc = "none"
  BY <1>1 DEF NoRun
<1> QED BY <1>1, <1>2 DEF Doing, Claiming, Rejecting, HasNode

LEMMA StartKeeps ==
  ASSUME ServiceInv, Start
  PROVE  Kept
<1>1. /\ phase = "down" /\ phase' = "dispatch"
      /\ UNCHANGED <<task, recheck, run, callback, retried, loop, request, restarts, requests>>
      /\ UNCHANGED tasks /\ UNCHANGED store
  BY DEF Start, bounds, tasks
<1>2. ServiceTypes'
  <2>1. RunTypes' /\ recheck \subseteq Batches /\ callback \subseteq Batches
        /\ restarts \in 0 .. MaxRestarts
    BY <1>1 DEF ServiceInv, ServiceTypes, RunTypes, ProcessTypes
  <2> QED BY <1>1, <2>1, PhaseTypes
<1>3. LoopIdle'
  BY <1>1 DEF ServiceInv, LoopIdle
<1>4. ASSUME NEW b \in Batches PROVE BatchInv(b)'
  BY <1>1, Served, StoreSame, AtStartup
     DEF BatchInv, LoopOf, TodoOf, WorkOf, OriginOf, StartupOf, Claiming, Rejecting, Doing,
         HasNode, Working3
<1> QED BY <1>2, <1>3, <1>4 DEF Kept

LEMMA DispatchPendingKeeps ==
  ASSUME ServiceInv, IInv', NEW b \in Batches, DispatchPending(b)
  PROVE  Kept
<1>1. /\ phase = "dispatch" /\ dispatch[b] = "pending"
      /\ UNCHANGED <<evidence, phase, recheck, run, callback, retried, loop, request>>
      /\ UNCHANGED <<restarts, requests>>
      /\ evidence' \in [Batches -> [Packages -> Evidence]]
      /\ requests' \in 0 .. MaxRequests
      /\ request' \in [Batches -> {"no", "ensure", "mark", "schedule"}]
  BY Served, RequestsBounded DEF DispatchPending, Pending, process, bounds
<1>2. /\ batch[b] # "absent" /\ request[b] = "no" /\ run[b].pc = "none" /\ loop.batch # b
  BY <1>1, Served, AtStartup DEF BatchInv, OriginOf
<1>3. CASE task' = Ensured(b) /\ UNCHANGED store
  <2>1. \E t : TaskBecomes(b, t)
    BY <1>3, Served, TaskSets
  <2>2. BatchInv(b)'
    BY <1>1, <1>2, <1>3, Served, StoreSame
       DEF BatchInv, LoopOf, TodoOf, WorkOf, OriginOf, StartupOf, Claiming, Rejecting,
           Doing, HasNode, Working3
  <2> QED BY <1>1, <1>3, <2>1, <2>2, StoreSame, StepKeeps
<1>4. CASE MarkDispatched(b) /\ UNCHANGED task
  <2>1. batch' = batch /\ attempt' = attempt /\ dispatch'[b] = "dispatched" /\ OtherRows(b)
    BY <1>4, Served, MarkRows
  <2>2. BatchInv(b)'
    BY <1>1, <1>2, <1>4, <2>1, Served
       DEF BatchInv, LoopOf, TodoOf, WorkOf, OriginOf, StartupOf, Claiming, Rejecting,
           Doing, HasNode, Working3
  <2> QED BY <1>1, <1>4, <2>1, <2>2, StepKeeps
<1> QED BY <1>3, <1>4 DEF DispatchPending

LEMMA EndDispatchKeeps ==
  ASSUME ServiceInv, EndDispatch
  PROVE  Kept
<1>1. /\ phase = "dispatch" /\ phase' = "tasks" /\ Pending = {}
      /\ recheck' = {b \in Batches : task[b] \in TaskLive}
      /\ UNCHANGED <<task, run, callback, retried, loop, request, restarts, requests>>
      /\ UNCHANGED tasks /\ UNCHANGED store
  BY DEF EndDispatch, bounds, tasks
<1>2. ServiceTypes'
  <2>1. RunTypes' /\ recheck' \subseteq Batches /\ callback \subseteq Batches
        /\ restarts \in 0 .. MaxRestarts
    BY <1>1 DEF ServiceInv, ServiceTypes, RunTypes, ProcessTypes
  <2> QED BY <1>1, <2>1, PhaseTypes
<1>3. LoopIdle'
  BY <1>1 DEF ServiceInv, LoopIdle
<1>4. ASSUME NEW b \in Batches PROVE BatchInv(b)'
  <2>1. dispatch[b] # "pending" /\ (task[b] \in TaskLive <=> b \in recheck')
    BY <1>1 DEF Pending
  <2> QED
    BY <1>1, <2>1, Served, StoreSame, AtStartup
       DEF BatchInv, LoopOf, TodoOf, WorkOf, OriginOf, StartupOf, Claiming, Rejecting,
           Doing, HasNode, Working3, TaskLive
<1> QED BY <1>2, <1>3, <1>4 DEF Kept

LEMMA ReconcileRestartKeeps ==
  ASSUME ServiceInv, IInv', NEW b \in Batches, ReconcileRestart(b)
  PROVE  Kept
<1>1. /\ phase = "tasks" /\ b \in recheck /\ recheck' = recheck \ {b}
      /\ UNCHANGED <<evidence, phase, run, callback, retried, loop, request>>
      /\ UNCHANGED <<restarts, requests>> /\ UNCHANGED store
      /\ ReconcileTask(b, RestartedTask(b))
  BY DEF ReconcileRestart, bounds
<1>2. /\ RestartedTask(b) \in TaskStatus
      /\ RestartedTask(b) = "active" => batch[b] \in Active
  BY DEF RestartedTask, Completed, TaskStatus, TaskLive, TaskTerminal
<1>3. PICK t : TaskBecomes(b, t) /\ (t = "active" => batch[b] \in Active)
  BY <1>1, <1>2, Served, TaskSets
<1>4. /\ task'[b] = t /\ task[b] # "absent" /\ batch[b] # "absent"
  <2>1. task[b] \in TaskLive
    BY <1>1, Served DEF BatchInv, StartupOf
  <2>2. task[b] # "absent"
    BY <2>1 DEF TaskLive
  <2> QED BY <1>3, <2>2, Served DEF BatchInv, OriginOf, TaskBecomes
<1>5. ServiceTypes'
  <2>1. RowTypes'
    BY <1>1, <1>3, Served DEF RowTypes, TaskBecomes, TaskStatus
  <2>2. ProcessTypes' /\ RunTypes'
    BY <1>1 DEF ServiceInv, ServiceTypes, ProcessTypes, RunTypes
  <2> QED BY <2>1, <2>2 DEF ServiceTypes
<1>6. Frame(b)
  BY <1>1, <1>3, StoreSame DEF Frame, TaskBecomes
<1>7. LoopIdle'
  BY <1>1 DEF ServiceInv, LoopIdle
<1>8. BatchInv(b)'
  BY <1>1, <1>3, <1>4, Served, StoreSame, AtStartup
     DEF BatchInv, LoopOf, TodoOf, WorkOf, OriginOf, StartupOf, Claiming, Rejecting, Doing,
         HasNode, Working3
<1> QED BY <1>5, <1>6, <1>7, <1>8, KeptByFrame

LEMMA EndRestartsKeeps ==
  ASSUME ServiceInv, EndRestarts
  PROVE  Kept
<1>1. /\ phase = "tasks" /\ phase' = "batches" /\ recheck = {}
      /\ UNCHANGED <<task, recheck, run, callback, retried, loop, request, restarts, requests>>
      /\ UNCHANGED tasks /\ UNCHANGED store
  BY DEF EndRestarts, bounds, tasks
<1>2. ServiceTypes'
  <2>1. RunTypes' /\ recheck \subseteq Batches /\ callback \subseteq Batches
        /\ restarts \in 0 .. MaxRestarts
    BY <1>1 DEF ServiceInv, ServiceTypes, RunTypes, ProcessTypes
  <2> QED BY <1>1, <2>1, PhaseTypes
<1>3. LoopIdle'
  BY <1>1 DEF ServiceInv, LoopIdle
<1>4. ASSUME NEW b \in Batches PROVE BatchInv(b)'
  BY <1>1, Served, StoreSame, AtStartup
     DEF BatchInv, LoopOf, TodoOf, WorkOf, OriginOf, StartupOf, Claiming, Rejecting, Doing,
         HasNode, Working3
<1> QED BY <1>2, <1>3, <1>4 DEF Kept

LEMMA ReconcilePackageKeeps ==
  ASSUME ServiceInv, IInv', NEW b \in Batches, ReconcilePackage(b)
  PROVE  Kept
<1>1. /\ phase = "batches" /\ b \in Contradicted
      /\ UNCHANGED <<task, evidence, phase, recheck, run, callback, retried, loop, request>>
      /\ UNCHANGED <<restarts, requests>>
      /\ evidence' \in [Batches -> [Packages -> Evidence]]
      /\ requests' \in 0 .. MaxRequests
      /\ request' \in [Batches -> {"no", "ensure", "mark", "schedule"}]
  BY Served, RequestsBounded DEF ReconcilePackage, process, bounds, tasks
<1>2. task[b] # "active"
  BY <1>1 DEF Contradicted, TaskLive
<1>3. PICK p : Finishes(b, p, Proven(b, p))
  <2>1. PICK q \in Unfinished(b) :
          FinishPackage(b, q, Proven(b, q), Proven(b, q) \in MayBeTransient)
    BY DEF ReconcilePackage
  <2>2. (Proven(b, q) \in MayBeTransient) \in BOOLEAN
    OBVIOUS
  <2> QED BY <2>1, <2>2 DEF Finishes
<1>4. /\ batch[b] # "absent" /\ batch'[b] # "absent" /\ dispatch' = dispatch /\ OtherRows(b)
  BY <1>3, Served, FinishedRows, StatusesAreTerminal
<1>5. BatchInv(b)'
  BY <1>1, <1>2, <1>4, Served, AtStartup
     DEF BatchInv, LoopOf, TodoOf, WorkOf, OriginOf, StartupOf, Claiming, Rejecting, Doing,
         HasNode, Working3
<1> QED BY <1>1, <1>4, <1>5, StepKeeps

LEMMA GoUpKeeps ==
  ASSUME ServiceInv, GoUp
  PROVE  Kept
<1>1. /\ phase = "batches" /\ phase' = "up"
      /\ run' = [b \in Batches |->
                   IF b \in ActiveBatches THEN [NoRun EXCEPT !.pc = "waiting"] ELSE NoRun]
      /\ UNCHANGED <<task, recheck, callback, retried, loop, request, restarts, requests>>
      /\ UNCHANGED tasks /\ UNCHANGED store
  BY DEF GoUp, bounds, tasks
<1>2. /\ NoRun \in RunRecord /\ NoRun.pc = "none"
      /\ [NoRun EXCEPT !.pc = "waiting"] \in RunRecord
      /\ [NoRun EXCEPT !.pc = "waiting"].pc = "waiting"
  BY DEF NoRun, RunRecord
<1>3. ServiceTypes'
  <2>1. RunTypes'
    BY <1>1, <1>2 DEF RunTypes
  <2>2. recheck \subseteq Batches /\ callback \subseteq Batches /\ restarts \in 0 .. MaxRestarts
    BY DEF ServiceInv, ServiceTypes, ProcessTypes
  <2> QED BY <1>1, <2>1, <2>2, PhaseTypes
<1>4. LoopIdle' /\ recheck = {}
  BY <1>1 DEF ServiceInv, LoopIdle
<1>5. ASSUME NEW b \in Batches PROVE BatchInv(b)'
  <2>1. /\ run'[b].pc = IF b \in ActiveBatches THEN "waiting" ELSE "none"
        /\ ~HasNode(b)'
    BY <1>1, <1>2 DEF HasNode
  <2>2. batch[b] \in Active => b \in ActiveBatches
    <3>1. dispatch[b] \in {"none", "pending", "dispatched"}
      BY Served DEF IInv, StoreInv, StoreTypeOK
    <3>2. dispatch[b] # "pending" /\ (batch[b] = "absent" <=> dispatch[b] = "none")
      BY <1>1, Served DEF BatchInv, StartupOf, OriginOf
    <3> QED BY <3>1, <3>2 DEF ActiveBatches, Active
  <2>3. b \in ActiveBatches => batch[b] \in Active /\ batch[b] # "absent"
    BY DEF ActiveBatches, Active
  <2> QED
    BY <1>1, <1>4, <2>1, <2>2, <2>3, Served, StoreSame, AtStartup
       DEF BatchInv, LoopOf, TodoOf, WorkOf, OriginOf, StartupOf, Claiming, Rejecting,
           Doing, HasNode, Working3
<1> QED BY <1>3, <1>4, <1>5 DEF Kept

-----------------------------------------------------------------------------
(* The invariant holds in every state.                                     *)

LEMMA InitService == Init => ServiceInv
<1> SUFFICES ASSUME Init PROVE ServiceInv
  OBVIOUS
<1>1. IInv
  BY StoreInitIInv DEF Init
<1>2. RowTypes
  BY DEF Init, RowTypes, Evidence
<1>3. RunTypes
  BY DEF Init, RunTypes, NoRun, RunRecord
<1>4. Idle \in LoopRecord /\ Idle.batch = NoBatch /\ Idle.op = "idle"
  BY DEF Idle, LoopRecord
<1>5. ProcessTypes
  BY <1>4, OutboxAssumption DEF Init, ProcessTypes
<1>6. LoopIdle
  BY <1>4 DEF Init, LoopIdle
<1>7. ASSUME NEW b \in Batches PROVE BatchInv(b)
  <2>1. run[b] = NoRun /\ run[b].pc = "none"
    BY DEF Init, NoRun
  <2>2. loop.batch # b /\ batch[b] = "absent" /\ dispatch[b] = "none"
    BY <1>4, StoreAssumption DEF Init, StoreInit
  <2> QED
    BY <2>1, <2>2
       DEF Init, Active, BatchInv, LoopOf, TodoOf, WorkOf, OriginOf, StartupOf, Claiming,
           Rejecting, Doing, HasNode, Working3
<1> QED BY <1>1, <1>2, <1>3, <1>5, <1>6, <1>7 DEF ServiceInv, ServiceTypes

LEMMA WebKeeps ==
  ASSUME ServiceInv, IInv', NEW b \in Batches, Web(b)
  PROVE  Kept
BY EnsureTaskKeeps, MarkOutboxKeeps, ScheduleKeeps DEF Web

LEMMA RunKeeps ==
  ASSUME ServiceInv, IInv', NEW b \in Batches, Run(b)
  PROVE  Kept
<1>1. CASE \/ StartRun(b) \/ ClaimTask(b) \/ FailUnknownSize(b) \/ ActivateNode(b)
           \/ RequestDisk(b) \/ StartPackage(b) \/ FinishTransfer(b)
           \/ RejectFiles(b) \/ FinishRejected(b)
  BY <1>1, StartRunKeeps, ClaimTaskKeeps, FailUnknownSizeKeeps, ActivateNodeKeeps,
     RequestDiskKeeps, StartPackageKeeps, FinishTransferKeeps, RejectFilesKeeps,
     FinishRejectedKeeps
<1>2. CASE \/ EndPackages(b) \/ FinishLeftover(b) \/ EndNormally(b)
           \/ AbortPackage(b) \/ EndAborted(b) \/ DoneCallback(b)
  BY <1>2, EndPackagesKeeps, FinishLeftoverKeeps, EndNormallyKeeps, AbortPackageKeeps,
     EndAbortedKeeps, DoneCallbackKeeps
<1>3. CASE \/ CancelPackage(b) \/ EndCancelled(b) \/ RetryTask(b)
           \/ StopRun(b) \/ RequeueBatch(b) \/ RequeueTask(b)
  BY <1>3, CancelPackageKeeps, EndCancelledKeeps, RetryTaskKeeps, StopRunKeeps,
     RequeueBatchKeeps, RequeueTaskKeeps
<1> QED BY <1>1, <1>2, <1>3 DEF Run

LEMMA RecoverKeeps ==
  ASSUME ServiceInv, IInv', NEW b \in Batches, Recover(b)
  PROVE  Kept
BY DispatchPendingKeeps, ReconcileRestartKeeps, ReconcilePackageKeeps DEF Recover

LEMMA EnvironmentKeeps ==
  ASSUME ServiceInv, IInv', NEW b \in Batches, Environment(b)
  PROVE  Kept
<1>1. CASE \E P \in SUBSET Packages : Create(b, P)
  BY <1>1, CreateKeeps
<1>2. CASE \E e \in Evidence : FileProgress(b, e)
  BY <1>2, FileProgressKeeps
<1>3. CASE \/ Replay(b) \/ ClearTask(b) \/ Cancel(b) \/ RetryDownload(b)
           \/ RejectPackage(b) \/ Break(b) \/ TimeOut(b)
  BY <1>3, ReplayKeeps, ClearTaskKeeps, CancelKeeps, RetryDownloadKeeps, RejectPackageKeeps,
     BreakKeeps, TimeOutKeeps
<1> QED BY <1>1, <1>2, <1>3 DEF Environment

LEMMA ProcessKeeps ==
  ASSUME ServiceInv, Process \/ Crash \/ Stop
  PROVE  Kept
BY StartKeeps, EndDispatchKeeps, EndRestartsKeeps, GoUpKeeps, ExitKeeps, CrashKeeps, StopKeeps
   DEF Process

LEMMA StepIsOperation ==
  ASSUME ServiceInv, [Next]_vars
  PROVE  [StoreNext]_store
BY CommitsAreOperations DEF ServiceInv, BatchInv

LEMMA StepService ==
  ASSUME ServiceInv, [Next]_vars
  PROVE  ServiceInv'
<1>1. IInv'
  BY StepIsOperation, NextIInv DEF ServiceInv
<1>2. Kept
  <2>1. CASE \E b \in Batches : Web(b) \/ Run(b) \/ Recover(b) \/ Environment(b)
    BY <1>1, <2>1, WebKeeps, RunKeeps, RecoverKeeps, EnvironmentKeeps
  <2>2. CASE \E p \in Packages : Publish(p)
    BY <2>2, PublishKeeps
  <2>3. CASE Process \/ Crash \/ Stop
    BY <2>3, ProcessKeeps
  <2>4. CASE UNCHANGED vars
    <3>1. UNCHANGED <<batch, attempt, dispatch>> /\ UNCHANGED <<tasks, process, bounds>>
      BY <2>4 DEF vars, store
    <3> QED BY <3>1, StillKeeps
  <2> QED BY <2>1, <2>2, <2>3, <2>4 DEF Next
<1> QED BY <1>1, <1>2 DEF ServiceInv, Kept

(* The invariant of the service: it always knows who answers for a batch,  *)
(* whatever Web threads, failures, crashes and restarts come in between.   *)
THEOREM ServiceInvariant == Spec => []ServiceInv
BY InitService, StepService, PTL DEF Spec

(* Every variable of the service keeps to its type.                        *)
THEOREM ServiceTypesHold == Spec => []TypeOK
<1>1. ServiceInv => TypeOK
  BY TypesSplit DEF ServiceInv, IInv, StoreInv
<1> QED BY <1>1, ServiceInvariant, PTL

(* Every commit of the service is an operation of the channel store, and   *)
(* so everything shown of the tables above holds here.                     *)
THEOREM ServiceUsesStore == Spec => UsesStore
<1>1. Init => StoreInit
  BY DEF Init
<1>2. ServiceInv /\ [Next]_vars => [StoreNext]_store
  BY StepIsOperation
<1> QED BY <1>1, <1>2, ServiceInvariant, PTL DEF Spec, UsesStore, StoreSpec

(* The service never has two batches work on one package, and the batch    *)
(* and package rows tell what the attempts say.                            *)
THEOREM TablesStayCorrect == Spec => []StoreInv
<1>1. ServiceInv => StoreInv
  BY DEF ServiceInv, IInv
<1> QED BY <1>1, ServiceInvariant, PTL

(* When nothing is under way for a batch, it has ended in the channel      *)
(* tables and in the Web task rows: no batch is forgotten half done.       *)
THEOREM DatabasesAlwaysAgree == Spec => []DatabasesAgree
<1>1. ServiceInv => DatabasesAgree
  <2> SUFFICES ASSUME ServiceInv, NEW b \in Batches, Quiet(b), batch[b] # "absent"
               PROVE  batch[b] \notin Active /\ dispatch[b] = "dispatched" /\ task[b] # "active"
    BY DEF DatabasesAgree
  <2>1. /\ phase = "up" /\ run[b].pc = "none" /\ request[b] = "no"
        /\ loop.batch # b /\ ~HasNode(b)
    BY IdleLoop DEF Quiet, HasNode
  <2>2. dispatch[b] \in {"none", "pending", "dispatched"}
    BY Served DEF IInv, StoreInv, StoreTypeOK
  <2> QED BY <2>1, <2>2, Served DEF BatchInv, WorkOf, OriginOf
<1> QED BY <1>1, ServiceInvariant, PTL

-----------------------------------------------------------------------------
(* Completed attempts.                                                     *)

KeepsCompleted ==
  \A b \in Batches, p \in Packages :
    attempt[b][p] = "completed" => attempt'[b][p] = "completed"

(* A step of b keeps them if it settles a package that is not completed.   *)
LEMMA FinishKeepsCompleted ==
  ASSUME IInv, NEW b \in Batches, NEW p, NEW s \in AttemptTerminal, Finishes(b, p, s),
         attempt[b][p] # "completed"
  PROVE  KeepsCompleted
<1>1. OtherRows(b) /\ SettledOutside(b, {p})
  BY FinishedRows
<1>2. \A q \in Packages : attempt[b][q] = "completed" => attempt'[b][q] = "completed"
  BY <1>1 DEF SettledOutside, Active
<1> QED BY <1>1, <1>2 DEF KeepsCompleted, OtherRows

LEMMA UnfinishedKeepsCompleted ==
  ASSUME IInv, NEW b \in Batches, NEW p \in Unfinished(b), NEW s \in AttemptTerminal,
         Finishes(b, p, s)
  PROVE  KeepsCompleted
BY FinishKeepsCompleted DEF Unfinished, Active

LEMMA SettledKeepsCompleted ==
  ASSUME IInv, NEW b \in Batches, OtherRows(b), SettledOutside(b, {})
  PROVE  KeepsCompleted
BY DEF KeepsCompleted, OtherRows, SettledOutside, Active

LEMMA SameKeepsCompleted ==
  ASSUME UNCHANGED store \/ UNCHANGED attempt
  PROVE  KeepsCompleted
BY DEF KeepsCompleted, store

LEMMA RetryKeepsCompleted ==
  ASSUME IInv, NEW b \in Batches, RetryBatch(b)
  PROVE  KeepsCompleted
BY RetryRows DEF KeepsCompleted, OtherRows

LEMMA PrepareKeepsCompleted ==
  ASSUME IInv, NEW b \in Batches, PrepareForRun(b)
  PROVE  KeepsCompleted
BY PrepareRows, SettledKeepsCompleted

LEMMA RunKeepsCompleted ==
  ASSUME ServiceInv, NEW b \in Batches, Run(b)
  PROVE  KeepsCompleted
<1>1. CASE StartRun(b) \/ RequeueBatch(b)
  BY <1>1, Served, PrepareKeepsCompleted, SameKeepsCompleted DEF StartRun, RequeueBatch
<1>2. CASE \/ ClaimTask(b) \/ ActivateNode(b) \/ RequestDisk(b) \/ RejectFiles(b)
           \/ EndPackages(b) \/ EndNormally(b) \/ EndAborted(b) \/ EndCancelled(b)
           \/ RetryTask(b) \/ StopRun(b) \/ RequeueTask(b)
  <2>1. UNCHANGED store
    BY <1>2 DEF ClaimTask, ActivateNode, RequestDisk, RejectFiles, EndPackages, EndNormally,
                EndAborted, EndCancelled, RetryTask, StopRun, RequeueTask
  <2> QED BY <2>1, SameKeepsCompleted
<1>3. CASE FailUnknownSize(b) \/ AbortPackage(b) \/ CancelPackage(b)
  <2>1. PICK p \in Unfinished(b), s \in {"failed", "cancelled"} : Finishes(b, p, s)
    BY <1>3 DEF FailUnknownSize, AbortPackage, CancelPackage, Finishes
  <2> QED BY <2>1, Served, UnfinishedKeepsCompleted, StatusesAreTerminal
<1>4. CASE StartPackage(b)
  <2>1. CASE UNCHANGED store
    BY <2>1, SameKeepsCompleted
  <2>2. CASE PackageStarted(b, run[b].package)
    <3>1. run[b].package \in Packages
      BY <1>4, AtWork, IdleLoop DEF StartPackage, Ready, Working3
    <3> QED BY <2>2, <3>1, Served, StartedRows, SettledKeepsCompleted
  <2> QED BY <1>4, <2>1, <2>2 DEF StartPackage
<1>5. CASE FinishTransfer(b)
  <2>1. PICK s \in AttemptTerminal : Finishes(b, run[b].package, s)
    BY <1>5, StatusesAreTerminal DEF FinishTransfer, Finishes
  <2>2. loop = Idle /\ run[b].pc \in Working3
    BY <1>5 DEF FinishTransfer, Ready, Working3
  <2>3. run[b].package \in Unfinished(b)
    BY <2>2, AtWork, IdleLoop DEF Rejecting
  <2> QED BY <2>1, <2>3, Served, UnfinishedKeepsCompleted
<1>6. CASE FinishRejected(b)
  <2>1. Finishes(b, run[b].package, loop.status)
    BY <1>6 DEF FinishRejected, Finishes
  <2>2. attempt[b][run[b].package] = "failed" /\ loop.status \in AttemptTerminal
    BY <1>6, Served DEF FinishRejected, BatchInv, LoopOf, Rejecting
  <2> QED BY <2>1, <2>2, Served, FinishKeepsCompleted
<1>7. CASE FinishLeftover(b)
  <2>1. PICK p \in run[b].todo : Finishes(b, p, Unstarted(run[b].stop))
    BY <1>7 DEF FinishLeftover, Finishes
  <2>2. Unfinished(b) = run[b].todo
    BY <1>7, Served
       DEF FinishLeftover, BatchInv, LoopOf, TodoOf, HasNode, Claiming, Rejecting, Doing
  <2> QED BY <2>1, <2>2, Served, UnfinishedKeepsCompleted, StatusesAreTerminal
<1>8. CASE DoneCallback(b)
  BY <1>8, Served, RetryKeepsCompleted, SameKeepsCompleted DEF DoneCallback
<1> QED BY <1>1, <1>2, <1>3, <1>4, <1>5, <1>6, <1>7, <1>8 DEF Run

LEMMA OthersKeepCompleted ==
  ASSUME ServiceInv, NEW b \in Batches, Web(b) \/ Recover(b) \/ Environment(b)
  PROVE  KeepsCompleted
<1>1. CASE \/ EnsureTask(b) \/ Schedule(b) \/ ReconcileRestart(b)
           \/ Replay(b) \/ ClearTask(b) \/ Cancel(b) \/ Break(b) \/ TimeOut(b)
           \/ \E e \in Evidence : FileProgress(b, e)
  <2>1. UNCHANGED store
    BY <1>1 DEF EnsureTask, Schedule, ReconcileRestart, Replay, ClearTask, Cancel, Break,
                TimeOut, FileProgress
  <2> QED BY <2>1, SameKeepsCompleted
<1>2. CASE MarkOutbox(b) \/ DispatchPending(b)
  BY <1>2, SameKeepsCompleted DEF MarkOutbox, DispatchPending, MarkDispatched
<1>3. CASE ReconcilePackage(b)
  <2>1. PICK p \in Unfinished(b) : Finishes(b, p, Proven(b, p))
    <3>1. PICK q \in Unfinished(b) :
            FinishPackage(b, q, Proven(b, q), Proven(b, q) \in MayBeTransient)
      BY <1>3 DEF ReconcilePackage
    <3>2. (Proven(b, q) \in MayBeTransient) \in BOOLEAN
      OBVIOUS
    <3> QED BY <3>1, <3>2 DEF Finishes
  <2> QED BY <2>1, Served, UnfinishedKeepsCompleted, StatusesAreTerminal
<1>4. CASE \E P \in SUBSET Packages : Create(b, P)
  <2>1. PICK P \in SUBSET Packages : CreateBatch(b, P)
    BY <1>4 DEF Create
  <2>2. OtherRows(b) /\ Members(b) = {}
    BY <2>1, Served, CreateRows
  <2>3. \A p \in Packages : attempt[b][p] # "completed"
    BY <2>2 DEF Members
  <2> QED BY <2>2, <2>3 DEF KeepsCompleted, OtherRows
<1>5. CASE RetryDownload(b)
  BY <1>5, Served, RetryKeepsCompleted DEF RetryDownload
<1>6. CASE RejectPackage(b)
  <2>1. Finishes(b, run[b].package, "failed") /\ loop = Idle /\ run[b].pc \in Working3
    BY <1>6 DEF RejectPackage, Finishes, Ready, Working3
  <2>2. run[b].package \in Unfinished(b)
    BY <2>1, AtWork, IdleLoop DEF Rejecting
  <2> QED BY <2>1, <2>2, Served, UnfinishedKeepsCompleted, StatusesAreTerminal
<1> QED BY <1>1, <1>2, <1>3, <1>4, <1>5, <1>6 DEF Web, Recover, Environment

LEMMA StepKeepsCompleted ==
  ASSUME ServiceInv, [Next]_vars
  PROVE  KeepsCompleted
<1>1. CASE \E b \in Batches : Web(b) \/ Run(b) \/ Recover(b) \/ Environment(b)
  BY <1>1, RunKeepsCompleted, OthersKeepCompleted
<1>2. CASE \E p \in Packages : Publish(p)
  BY <1>2, SameKeepsCompleted DEF Publish, PublishIndex
<1>3. CASE Process \/ Crash \/ Stop
  BY <1>3, ProcessIsOperation, SameKeepsCompleted
<1>4. CASE UNCHANGED vars
  BY <1>4, SameKeepsCompleted DEF vars
<1> QED BY <1>1, <1>2, <1>3, <1>4 DEF Next

(* No restart, retry, cancellation, timeout or abort touches an attempt    *)
(* that completed.                                                         *)
THEOREM CompletedIsKept == Spec => CompletedStays
<1>1. ServiceInv /\ [Next]_vars =>
        [\A b \in Batches, p \in Packages :
           attempt[b][p] = "completed" => attempt'[b][p] = "completed"]_vars
  BY StepKeepsCompleted DEF KeepsCompleted
<1> QED BY <1>1, ServiceInvariant, PTL DEF Spec, CompletedStays

-----------------------------------------------------------------------------
(* Cancellations at startup.                                               *)

(* Before the process is up only startup itself acts, or a crash.          *)
LEMMA StartupSteps ==
  ASSUME ServiceInv, phase \in {"dispatch", "tasks", "batches"}, Next
  PROVE  \/ \E b \in Batches : Recover(b)
         \/ \E p \in Packages : Publish(p)
         \/ EndDispatch \/ EndRestarts \/ GoUp \/ Crash
<1>1. phase \notin {"up", "stopping"} /\ phase # "down"
  OBVIOUS
<1>2. ASSUME NEW b \in Batches PROVE ~Web(b) /\ ~Run(b) /\ ~Environment(b)
  <2>1. /\ run[b].pc = "none" /\ request[b] = "no"
        /\ \A op : ~Doing(op, b)
    BY <1>1, AtStartup
  <2>2. ~Web(b)
    BY <2>1 DEF Web, EnsureTask, MarkOutbox, Schedule
  <2>3. ~(\/ StartRun(b) \/ RequestDisk(b) \/ StartPackage(b) \/ FinishTransfer(b)
          \/ EndPackages(b) \/ DoneCallback(b) \/ StopRun(b))
    BY <1>1 DEF StartRun, RequestDisk, StartPackage, FinishTransfer, EndPackages,
                DoneCallback, StopRun, Ready
  <2>4. ~(\/ ClaimTask(b) \/ FailUnknownSize(b) \/ ActivateNode(b) \/ RejectFiles(b)
          \/ FinishRejected(b) \/ FinishLeftover(b) \/ EndNormally(b)
          \/ AbortPackage(b) \/ EndAborted(b) \/ CancelPackage(b) \/ EndCancelled(b)
          \/ RetryTask(b) \/ RequeueBatch(b) \/ RequeueTask(b))
    BY <2>1 DEF ClaimTask, FailUnknownSize, ActivateNode, RejectFiles, FinishRejected,
                FinishLeftover, EndNormally, AbortPackage, EndAborted, CancelPackage,
                EndCancelled, RetryTask, RequeueBatch, RequeueTask
  <2>5. ~Environment(b)
    BY <1>1 DEF Environment, Create, Replay, ClearTask, Cancel, RetryDownload,
                RejectPackage, Break, TimeOut, FileProgress, Ready
  <2> QED BY <2>2, <2>3, <2>4, <2>5 DEF Run
<1>3. ~Start /\ ~Exit /\ ~Stop
  BY <1>1 DEF Start, Exit, Stop, Ready
<1> QED BY <1>2, <1>3 DEF Next, Process

LEMMA StepKeepsCancellation ==
  ASSUME ServiceInv, Next, phase \in {"dispatch", "tasks", "batches"},
         NEW b \in Batches, task[b] = "cancelled"
  PROVE  task'[b] = "cancelled" /\ run'[b].pc = "none"
<1>1. run[b].pc = "none" /\ task[b] \notin TaskLive /\ task[b] # "absent"
  BY AtStartup DEF TaskLive
<1>2. ASSUME NEW c \in Batches, Recover(c)
      PROVE  task'[b] = "cancelled" /\ run'[b].pc = "none"
  <2>1. CASE DispatchPending(c)
    <3>1. UNCHANGED run /\ (task' = task \/ (task[c] = "absent" /\ task' = Ensured(c)))
      BY <2>1 DEF DispatchPending, process
    <3>2. task' = Ensured(c) => TaskBecomes(c, task'[c])
      BY Served, TaskSets DEF TaskBecomes
    <3> QED BY <1>1, <3>1, <3>2 DEF TaskBecomes
  <2>2. CASE ReconcileRestart(c)
    <3>1. UNCHANGED run /\ task[c] \in TaskLive /\ ReconcileTask(c, RestartedTask(c))
      BY <2>2, Served DEF ReconcileRestart, BatchInv, StartupOf
    <3>2. b # c
      BY <1>1, <3>1
    <3>3. task'[b] = task[b]
      BY <3>1, <3>2, Served DEF ReconcileTask, RowTypes
    <3> QED BY <1>1, <3>1, <3>3
  <2>3. CASE ReconcilePackage(c)
    BY <1>1, <2>3 DEF ReconcilePackage, tasks, process
  <2> QED BY <1>2, <2>1, <2>2, <2>3 DEF Recover
<1>3. ASSUME NEW p \in Packages, Publish(p)
      PROVE  task'[b] = "cancelled" /\ run'[b].pc = "none"
  BY <1>1, <1>3 DEF Publish, tasks, process
<1>4. CASE EndDispatch \/ EndRestarts
  BY <1>1, <1>4 DEF EndDispatch, EndRestarts, tasks
<1>5. CASE GoUp
  <2>1. b \notin ActiveBatches
    BY <1>1, <1>5 DEF GoUp, Contradicted
  <2>2. run'[b] = NoRun /\ UNCHANGED tasks
    BY <1>5, <2>1 DEF GoUp
  <2> QED BY <2>2 DEF NoRun, tasks
<1>6. CASE Crash
  BY <1>6 DEF Crash, Vanish, NoRun, tasks
<1> QED BY <1>2, <1>3, <1>4, <1>5, <1>6, StartupSteps

(* Startup keeps a cancelled task cancelled and does not run its batch     *)
(* again.                                                                  *)
THEOREM CancellationSurvives == Spec => StartupKeepsCancellation
<1>1. ServiceInv /\ [Next]_vars =>
        [\A b \in Batches :
           phase \in {"dispatch", "tasks", "batches"} /\ task[b] = "cancelled" =>
             /\ task'[b] = "cancelled"
             /\ run'[b].pc = "none" \/ batch[b] = "absent"]_vars
  BY StepKeepsCancellation
<1> QED BY <1>1, ServiceInvariant, PTL DEF Spec, StartupKeepsCancellation
=============================================================================
