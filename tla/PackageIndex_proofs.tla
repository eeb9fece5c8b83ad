------------------------ MODULE PackageIndex_proofs ------------------------
(***************************************************************************)
(* What a user has selected, for any channel, any posts and comments, any  *)
(* numbers of lost batches, mode changes and downloads: no publication of  *)
(* a plan, no repair and no new comment changes a package that is left     *)
(* selected. Every statement that writes a row of channel_packages whose   *)
(* items or status change drops the row from the selection in the same     *)
(* transaction; only a change of the scan mode retires rows in place, and  *)
(* leaves them their items.                                                *)
(***************************************************************************)
EXTENDS PackageIndex, TLAPS

RowFields == {"kind", "status", "items", "dl", "ok", "queued"}

(* The rows and the selection are tables over the same keys.               *)
Tables ==
  /\ DOMAIN packages = Keys /\ DOMAIN chosen = Keys /\ selected \subseteq Keys
  /\ \A k \in Keys : DOMAIN packages[k] = RowFields
  /\ rescans \in Nat

(* A selected package is the one that was selected, and was not retired    *)
(* but by a change of the scan mode.                                       *)
Chosen(k) ==
  /\ packages[k].items = chosen[k]
  /\ packages[k].status = "stable" \/ (rescans > 0 /\ packages[k].status = "superseded")

IInv == Tables /\ \A k \in selected : Chosen(k)

-----------------------------------------------------------------------------
(* A step keeps the selection when every package that is left selected     *)
(* keeps its status and items.                                             *)
LEMMA RowsKept ==
  ASSUME IInv, DOMAIN packages' = Keys, \A k \in Keys : DOMAIN packages'[k] = RowFields,
         selected' \subseteq selected, UNCHANGED <<chosen, rescans>>,
         \A k \in selected' : packages'[k].items = packages[k].items
                              /\ packages'[k].status = packages[k].status
  PROVE  IInv'
BY DEF IInv, Tables, Chosen

(* A row that is revised has the fields of a row.                          *)
LEMMA RevisedRow ==
  ASSUME NEW row, DOMAIN row = RowFields, NEW kind, NEW status, NEW items, NEW differs
  PROVE  DOMAIN Revised(row, kind, status, items, differs) = RowFields
BY DEF Revised

(* A publication: what it revises or retires is no longer selected.        *)
LEMMA PublishKeeps ==
  ASSUME IInv, Publish
  PROVE  IInv'
<1> DEFINE new == Plan.package
           changed == Changed(new)
           removed == Removed(new)
<1>1. /\ packages' = [k \in Keys |->
           IF k \in changed
           THEN Revised(packages[k], "channel", new[k].status, new[k].items, Differs(new, k))
           ELSE IF k \in removed THEN [packages[k] EXCEPT !.status = "superseded"]
           ELSE packages[k]]
      /\ selected' = selected \ (changed \union removed)
      /\ UNCHANGED <<chosen, rescans>>
  BY DEF Publish, bounds
<1> HIDE DEF new, changed, removed
<1>2. ASSUME NEW k \in Keys
      PROVE  /\ DOMAIN packages'[k] = RowFields
             /\ k \notin changed \union removed => packages'[k] = packages[k]
  <2>1. DOMAIN packages[k] = RowFields
    BY DEF IInv, Tables
  <2>2. CASE k \in changed
    BY <1>1, <2>1, <2>2, RevisedRow
  <2>3. CASE k \notin changed /\ k \in removed
    BY <1>1, <2>1, <2>3
  <2>4. CASE k \notin changed \union removed
    BY <1>1, <2>1, <2>4
  <2> QED
    BY <2>2, <2>3, <2>4
<1>3. \A k \in selected' : k \in Keys /\ k \notin changed \union removed
  BY <1>1 DEF IInv, Tables
<1> QED
  BY <1>1, <1>2, <1>3, RowsKept

(* New comments of a post: a changed package is no longer selected.        *)
LEMMA ScanPostKeeps ==
  ASSUME IInv, NEW p \in Posts, ScanPost(p)
  PROVE  IInv'
<1> DEFINE k == PostKey(p)
           items == CommentItems(p, comments[p])
           changed == /\ packages[k].status # "absent" \/ items # {}
                      /\ packages[k].items # items \/ packages[k].status # "stable"
<1>1. UNCHANGED <<chosen, rescans>>
  BY DEF ScanPost, choice, bounds
<1>2. CASE packages' = packages /\ selected' = selected
  BY <1>1, <1>2, RowsKept DEF IInv, Tables
<1>3. CASE ~(packages' = packages /\ selected' = selected)
  <2>1. PICK new : /\ packages' = [packages EXCEPT ![k] = new]
                   /\ changed => DOMAIN new = RowFields
                   /\ ~changed => new = packages[k]
                   /\ selected' = IF changed THEN selected \ {k} ELSE selected
    <3>1. DOMAIN packages[k] = RowFields
      BY DEF IInv, Tables, Keys
    <3> DEFINE new == IF ~changed THEN packages[k]
                      ELSE IF items = {} THEN [packages[k] EXCEPT !.status = "superseded", !.items = {}]
                      ELSE Revised(packages[k], "comment", "stable", items, TRUE)
    <3>2. packages' = [packages EXCEPT ![k] = new]
          /\ selected' = IF changed THEN selected \ {k} ELSE selected
      BY <1>3 DEF ScanPost, index, choice
    <3>3. DOMAIN new = RowFields /\ (~changed => new = packages[k])
      BY <3>1, RevisedRow
    <3> QED
      BY <3>2, <3>3
  <2>2. k \in Keys
    BY DEF Keys
  <2> HIDE DEF k, changed
  <2>3. CASE changed
    BY <1>1, <2>1, <2>2, <2>3, RowsKept DEF IInv, Tables
  <2>4. CASE ~changed
    BY <1>1, <2>1, <2>2, <2>4, RowsKept DEF IInv, Tables
  <2> QED
    BY <2>3, <2>4
<1> QED
  BY <1>2, <1>3

(* A change of the scan mode retires rows but leaves them their items.     *)
LEMMA RescanKeeps ==
  ASSUME IInv, NEW m \in Modes, Rescan(m)
  PROVE  IInv'
<1>1. PICK retired \in SUBSET Keys :
        packages' = [k \in Keys |-> IF k \in retired
                                    THEN [packages[k] EXCEPT !.status = "superseded"]
                                    ELSE packages[k]]
  <2> DEFINE retired == {k \in Keys : k \in Shown /\ \/ m = "messages" /\ packages[k].kind = "comment"
                                                     \/ m = "comments" /\ packages[k].kind = "channel"}
  <2>1. packages' = [k \in Keys |-> IF k \in retired
                                    THEN [packages[k] EXCEPT !.status = "superseded"]
                                    ELSE packages[k]]
    BY DEF Rescan
  <2> QED
    BY <2>1
<1>2. rescans' = rescans + 1 /\ UNCHANGED choice
  BY DEF Rescan, Begin
<1>3. ASSUME NEW k \in Keys
      PROVE  /\ DOMAIN packages'[k] = RowFields /\ packages'[k].items = packages[k].items
             /\ packages'[k].status \in {packages[k].status, "superseded"}
  BY <1>1 DEF IInv, Tables, RowFields
<1> QED
  BY <1>1, <1>2, <1>3 DEF IInv, Tables, Chosen, choice

(* Users: a package is selected as it is, and a download leaves it so.     *)
LEMMA UserKeeps ==
  ASSUME IInv, User
  PROVE  IInv'
<1>1. ASSUME NEW k \in Keys, Select(k)
      PROVE  IInv'
  BY <1>1 DEF Select, IInv, Tables, Chosen, index, bounds
<1>2. ASSUME NEW asked, Download(asked)
      PROVE  IInv'
  <2>1. PICK batch : packages' = [k \in Keys |->
          IF k \in batch THEN [packages[k] EXCEPT !.dl = "queued", !.queued = TRUE]
          ELSE packages[k]]
    BY <1>2 DEF Download
  <2>2. \A k \in Keys : /\ DOMAIN packages'[k] = RowFields
                        /\ packages'[k].items = packages[k].items
                        /\ packages'[k].status = packages[k].status
    BY <2>1 DEF IInv, Tables, RowFields
  <2>3. selected' \subseteq selected /\ UNCHANGED <<chosen, rescans>>
    BY <1>2 DEF Download
  <2>4. selected' \subseteq Keys
    BY <2>3 DEF IInv, Tables
  <2> QED
    BY <2>1, <2>2, <2>3, <2>4, RowsKept
<1>3. ASSUME NEW k \in Keys, StartDownload(k) \/ EndDownload(k)
      PROVE  IInv'
  <2>1. PICK new : /\ packages' = [packages EXCEPT ![k] = new]
                   /\ DOMAIN new = RowFields
                   /\ new.items = packages[k].items /\ new.status = packages[k].status
    <3>1. DOMAIN packages = Keys /\ DOMAIN packages[k] = RowFields
      BY DEF IInv, Tables
    <3>2. CASE StartDownload(k)
      <4> DEFINE new == [packages[k] EXCEPT !.dl = "downloading"]
      <4>1. packages' = [packages EXCEPT ![k] = new]
        BY <3>1, <3>2 DEF StartDownload
      <4>2. DOMAIN new = RowFields /\ new.items = packages[k].items
            /\ new.status = packages[k].status
        BY <3>1 DEF RowFields
      <4> QED
        BY <4>1, <4>2
    <3>3. CASE packages' = [packages EXCEPT ![k].dl = "failed", ![k].queued = FALSE]
      <4> DEFINE new == [packages[k] EXCEPT !.dl = "failed", !.queued = FALSE]
      <4>1. packages' = [packages EXCEPT ![k] = new]
        BY <3>1, <3>3
      <4>2. DOMAIN new = RowFields /\ new.items = packages[k].items
            /\ new.status = packages[k].status
        BY <3>1 DEF RowFields
      <4> QED
        BY <4>1, <4>2
    <3>4. CASE packages' = [packages EXCEPT ![k].dl = "completed", ![k].ok = TRUE, ![k].queued = FALSE]
      <4> DEFINE new == [packages[k] EXCEPT !.dl = "completed", !.ok = TRUE, !.queued = FALSE]
      <4>1. packages' = [packages EXCEPT ![k] = new]
        BY <3>1, <3>4
      <4>2. DOMAIN new = RowFields /\ new.items = packages[k].items
            /\ new.status = packages[k].status
        BY <3>1 DEF RowFields
      <4> QED
        BY <4>1, <4>2
    <3> QED
      BY <1>3, <3>2, <3>3, <3>4 DEF EndDownload
  <2>2. \A l \in Keys : /\ DOMAIN packages'[l] = RowFields
                        /\ packages'[l].items = packages[l].items
                        /\ packages'[l].status = packages[l].status
    BY <2>1 DEF IInv, Tables
  <2>3. UNCHANGED <<choice, rescans>> /\ DOMAIN packages' = Keys
    BY <1>3, <2>1 DEF StartDownload, EndDownload, bounds, IInv, Tables
  <2> QED
    BY <2>2, <2>3, RowsKept DEF choice, IInv, Tables
<1> QED
  BY <1>1, <1>2, <1>3 DEF User

LEMMA StepIInv == IInv /\ [Next]_vars => IInv'
<1> SUFFICES ASSUME IInv, [Next]_vars PROVE IInv'
  OBVIOUS
<1>1. CASE UNCHANGED <<packages, choice, rescans>>
  BY <1>1 DEF IInv, Tables, Chosen, choice
<1>2. CASE Scan
  <2>1. CASE \E m \in Modes : Rescan(m)
    BY <2>1, RescanKeeps
  <2>2. CASE Publish
    BY <2>2, PublishKeeps
  <2>3. CASE FullScan \/ IncrementalScan \/ Repair
    BY <1>1, <2>3 DEF FullScan, IncrementalScan, Repair, Begin
  <2>4. CASE Finish \/ FetchBatch \/ LoseBatch \/ RepairStep \/ Interrupt
    BY <1>1, <2>4 DEF Finish, FetchBatch, LoseBatch, RepairStep, Interrupt, index, bounds
  <2> QED
    BY <1>2, <2>1, <2>2, <2>3, <2>4 DEF Scan
<1>3. CASE User
  BY <1>3, UserKeeps
<1>4. CASE \E p \in Posts : ScanPost(p)
  BY <1>4, ScanPostKeeps
<1>5. CASE Post \/ Comment \/ UNCHANGED vars
  BY <1>1, <1>5 DEF Post, Comment, vars, index, bounds
<1> QED
  BY <1>2, <1>3, <1>4, <1>5 DEF Next

(* The rows and the selection of a library, always.                        *)
THEOREM SelectionConsistent == Spec => []IInv
<1>1. Init => IInv
  BY DEF Init, IInv, Tables, NoPackage, RowFields
<1> QED
  BY <1>1, StepIInv, PTL DEF Spec

(* What a batch downloads is what its user selected: as long as the scan   *)
(* mode is not changed, publish_indexed_packages and                       *)
(* publish_comment_package leave no package selected that they change.     *)
THEOREM SelectionStaysCurrent == Spec => []SelectionIsCurrent
<1>1. IInv => SelectionIsCurrent
  BY DEF IInv, Tables, Chosen, SelectionIsCurrent
<1> QED
  BY <1>1, SelectionConsistent, PTL

(* A change of the scan mode keeps retired packages selected, but never    *)
(* one with other items than those its user saw.                           *)
ItemsAsChosen == \A k \in selected : packages[k].items = chosen[k]

THEOREM SelectedItemsKept == Spec => []ItemsAsChosen
<1>1. IInv => ItemsAsChosen
  BY DEF IInv, Chosen, ItemsAsChosen
<1> QED
  BY <1>1, SelectionConsistent, PTL
=============================================================================
