---------------------------- MODULE PackageIndex ----------------------------
(***************************************************************************)
(* The package index of one channel library: the messages a scan has       *)
(* stored are planned into packages (comment_workflow.py), and each batch  *)
(* of a scan publishes the plan of the tail of the channel over the rows   *)
(* that are there (ChannelPackageIndexer, publish_indexed_packages and     *)
(* publish_comment_package), while users select and download packages.     *)
(*                                                                         *)
(* A row of channel_packages is found by its key: the first message of a   *)
(* channel package, minus the post of a comment package.                   *)
(***************************************************************************)
EXTENDS Integers, Sequences, FiniteSets, FiniteSetsExt

CONSTANTS
  Last,           \* bound: the last message of the channel
  Early,          \* the last message when the library is created
  Channels,       \* the contents of channels: [1 .. Last -> Contents]
  Album,          \* messages of one media group
  Posts,          \* messages with media in their comments
  Modes,          \* scan modes: of "messages", "comments" and "both"
  MaxComments,    \* bound: media comments of a post
  Batch,          \* full_scan_batch_size and incremental_scan_batch_size
  Bounds          \* bounds, any of <<batches whose retries are used up, changes
                  \* of comments of posts, changes of the scan mode and downloads>>

Messages == 1 .. Last
Titles == {"A", "B"}
Contents == {"text", "plain"} \union Titles   \* no media, media without caption

ASSUME PackageIndexAssumption ==
  /\ Last \in Nat /\ Early \in Messages
  /\ Channels \subseteq [Messages -> Contents]
  /\ Album \subseteq Messages /\ Posts \subseteq Messages
  /\ Modes \subseteq {"messages", "comments", "both"}
  /\ MaxComments \in 0 .. 9 /\ Batch \in Nat \ {0}
  /\ Bounds \subseteq Nat \X Nat \X Nat

VARIABLES
  channel, latest,    \* what is posted, and up to which message
  comments,           \* comments[p]: media comments of post p
  stored,             \* IDs in channel_media_messages
  packages,           \* the rows of channel_packages by key
  failures,           \* the rows of channel_scan_failures
  scanned,            \* scanned[p]: scanned_comment_count, -1 without a row
  mode,               \* scan_mode of the library
  reached,            \* fetched_through_message_id of the library
  job,                \* the recoverable scan job, or NoJob
  due,                \* the publication the running job owes
  selected, chosen,   \* selected packages, with their items when selected
  ends,               \* the ends of the snapshots scanned so far
  lost, remarks, rescans, downloads

content == <<channel, latest, comments>>
index == <<stored, packages, failures, scanned>>
scan == <<mode, reached, job, due, ends>>
choice == <<selected, chosen>>
bounds == <<lost, remarks, rescans, downloads>>
vars == <<content, index, scan, choice, bounds>>

Within(losses, changes, uses) ==
  \E b \in Bounds : losses <= b[1] /\ changes <= b[2] /\ uses <= b[3]
MoreUses == Within(lost, remarks, rescans + downloads + 1)

-----------------------------------------------------------------------------
(* comment_storage_message_id: below the key of every comment package.     *)
CommentId(p, c) == -(10 * p + c)
CommentIds == {CommentId(p, c) : p \in Posts, c \in 1 .. MaxComments}
PostKey(p) == -p
Keys == Messages \union {PostKey(p) : p \in Posts} \union CommentIds
CommentItems(p, n) == {CommentId(p, c) : c \in 1 .. n}

(* The caption that decides where a package ends: the message's own or the *)
(* first one of its album in the messages looked at.                       *)
Own(i) == IF i \in Messages /\ channel[i] \in Titles THEN channel[i] ELSE "plain"
AlbumCaption(S) ==
  LET captioned == {i \in S \intersect Album : Own(i) # "plain"}
  IN IF captioned = {} THEN "plain" ELSE Own(Min(captioned))
From(s, S) == {i \in S : i >= s}
Caption(i, S) ==
  IF Own(i) = "plain" /\ i \in Album THEN AlbumCaption(S) ELSE Own(i)

(* plan_message_package: the package from s ends before the first caption  *)
(* that differs from one it has. Captions are compared by equality.        *)
Boundaries(s, S) ==
  LET T == From(s, S)
  IN {i \in T : /\ Caption(i, T) # "plain"
                /\ \E j \in T : j < i /\ Caption(j, T) \notin {"plain", Caption(i, T)}}
PackageFrom(s, S) ==
  {i \in From(s, S) : \A b \in Boundaries(s, S) : i < b}
HasNext(s, S) == Boundaries(s, S) # {}

(* plan_message_package_sequence: where the packages of S start.           *)
Starts(S) ==
  LET start[i \in S] ==
        \/ i = Min(S)
        \/ \E s \in S : s < i /\ start[s] /\ HasNext(s, S) /\ Min(Boundaries(s, S)) = i
  IN {i \in S : start[i]}

-----------------------------------------------------------------------------
NoPackage == [kind |-> "channel", status |-> "absent", items |-> {}, dl |-> "never", ok |-> FALSE,
              queued |-> FALSE]
NoJob == [kind |-> "none", next |-> 0, snap |-> 0, targets |-> {}, todo |-> {}, lost |-> {}]
NothingDue == [through |-> 0, target |-> 0, resolve |-> FALSE]

Shown == {k \in Keys : packages[k].status \notin {"absent", "superseded"}}
FailureIds == DOMAIN failures
Unresolved == {f \in FailureIds : failures[f].status \in {"open", "repairing"}}
Idle == job.kind = "none"
Media(S) == {i \in S : channel[i] # "text"}

(* reindex_anchor_for_message: the last package that starts by message i.  *)
Before(i) == {k \in Shown : k <= i}
Anchor(i) == IF Before(i) = {} THEN 1 ELSE Max(Before(i))

(* load_package_index_context: from where the channel is planned again.    *)
Concerned(i) == {f \in Unresolved : failures[f].anchor <= i}
\* Mutant: the window starts at the last package, whatever was lost before it.
ReindexTail(i) ==
  IF Before(i) # {} THEN Max(Before(i))
  ELSE IF {m \in stored : m <= i} # {} THEN Min({m \in stored : m <= i}) ELSE 1

ReindexStart(i) ==
  LET anchors == (IF Before(i) = {} THEN {} ELSE {Max(Before(i))})
                   \union {failures[f].anchor : f \in Concerned(i)}
                   \union {a \in {failures[f].anchor : f \in job.targets} : a <= i}
      media == {m \in stored : m <= i}
  IN IF anchors # {} THEN Min(anchors) ELSE IF media # {} THEN Min(media) ELSE 1
Window(i) == {m \in stored : ReindexStart(i) <= m /\ m <= i}

-----------------------------------------------------------------------------
(* index_through: the packages of the window with their boundary status.   *)
(* What is uncertain around a failure reaches to the second package that   *)
(* starts after it.                                                        *)
\* Mutant: the uncertainty around a failure ends with the failure.
UncertainNear(f, starts) == failures[f].last

UncertainThrough(f, starts) ==
  LET after == {s \in starts : s > failures[f].last}
  IN Max({failures[f].through,
          IF Cardinality(after) >= 2 THEN Min(after \ {Min(after)}) - 1 ELSE due.through})

Doubted == IF due.resolve THEN Concerned(due.through) \ {due.target}
           ELSE Concerned(due.through)

Plan ==
  LET window == Window(due.through)
      starts == Starts(window)
      until == [f \in Doubted |-> UncertainThrough(f, starts)]
      Status(k) ==
        IF \E f \in Doubted : failures[f].anchor <= k /\ k <= until[f] THEN "uncertain"
        ELSE IF HasNext(k, window) \/ due.through >= job.snap THEN "stable"
        ELSE "provisional"
  IN [package |-> [k \in starts |-> [items |-> PackageFrom(k, window), status |-> Status(k)]],
      until |-> until]

(* publish_indexed_packages: one transaction, put off while a package that *)
(* would change is being downloaded.                                       *)
Revised(row, kind, status, items, differs) ==
  [row EXCEPT !.kind = kind, !.status = status, !.items = items,
              !.dl = IF differs /\ row.ok THEN "outdated" ELSE @]

Differs(new, k) == packages[k].status = "absent" \/ packages[k].items # new[k].items
Changed(new) == {k \in DOMAIN new : Differs(new, k) \/ packages[k].status # new[k].status}
Removed(new) == {k \in Shown \ DOMAIN new : ReindexStart(due.through) <= k /\ k <= due.through}

(* A resolved target, and what is uncertain around the other failures.     *)
FailureUpdates(until) ==
  [f \in FailureIds |->
     IF due.resolve /\ f = due.target THEN [failures[f] EXCEPT !.status = "resolved"]
     ELSE IF f \in Doubted /\ (job.kind # "repair" \/ f = due.target)
     THEN [failures[f] EXCEPT !.through = until[f]]
     ELSE failures[f]]

Publish ==
  LET plan == Plan
      new == plan.package
      changed == Changed(new)
      removed == Removed(new)
  IN
  /\ due # NothingDue
  /\ \A k \in changed \union removed : packages[k].dl # "downloading"
  /\ packages' = [k \in Keys |->
       IF k \in changed
       THEN Revised(packages[k], "channel", new[k].status, new[k].items, Differs(new, k))
       ELSE IF k \in removed THEN [packages[k] EXCEPT !.status = "superseded"]
       ELSE packages[k]]
  /\ selected' = selected \ (changed \union removed)
  /\ failures' = FailureUpdates(plan.until)
  /\ due' = NothingDue
  /\ UNCHANGED <<content, stored, scanned, mode, reached, job, ends, chosen, bounds>>

-----------------------------------------------------------------------------
(* Scan jobs; only one is recoverable at a time.                           *)
PostsIn(first, last) ==
  IF mode = "messages" THEN {} ELSE {p \in Posts : first <= p /\ p <= last}
BatchEnd(first, limit) == Min({first + Batch - 1, limit})

NextPosts(first, snap) == IF first <= snap THEN PostsIn(first, BatchEnd(first, snap)) ELSE {}

(* list_repair_targets: the next target of a repair of the failures S.     *)
Target(S) == CHOOSE f \in S : \A g \in S :
               \/ failures[f].first < failures[g].first
               \/ failures[f].first = failures[g].first /\ f <= g
RepairPosts(S, next) ==
  IF S = {} THEN {} ELSE NextPosts(next[Target(S)], failures[Target(S)].last)

Begin(kind, first, snap, targets, todo) ==
  /\ Idle
  /\ job' = [kind |-> kind, next |-> first, snap |-> snap, targets |-> targets,
             lost |-> {}, todo |-> todo]
  /\ ends' = IF kind = "repair" THEN ends ELSE ends \union {snap}
  /\ UNCHANGED <<content, stored, scanned, reached, due, choice, lost, remarks, downloads>>

FullScan ==
  /\ reached = 0
  /\ Begin("full", 1, latest, {}, NextPosts(1, latest))
  /\ UNCHANGED <<mode, packages, failures, rescans>>

(* A change of the scan mode retires the packages it excludes and revisits *)
(* the channel from message 1.                                             *)
Rescan(m) ==
  /\ m # mode /\ reached > 0 /\ MoreUses
  /\ mode' = m
  /\ Begin("full", 1, latest, {},
           IF m = "messages" THEN {} ELSE Posts \intersect (1 .. BatchEnd(1, latest)))
  /\ packages' = [k \in Keys |->
       IF k \in Shown /\ \/ m = "messages" /\ packages[k].kind = "comment"
                         \/ m = "comments" /\ packages[k].kind = "channel"
       THEN [packages[k] EXCEPT !.status = "superseded"] ELSE packages[k]]
  /\ rescans' = rescans + 1
  /\ UNCHANGED failures

(* An incremental scan looks at all known posts again before it goes on.   *)
Known == {p \in PostsIn(1, Last) : scanned[p] >= 0}
IncrementalScan ==
  /\ reached > 0
  /\ latest > reached \/ \E p \in Known : comments[p] # scanned[p]
  /\ Begin("incremental", reached + 1, latest, {},
           Known \union NextPosts(reached + 1, latest))
  /\ UNCHANGED <<mode, packages, failures, rescans>>

Open == {f \in FailureIds : failures[f].status = "open"}
Repair ==
  /\ \E S \in {Open} \union {{f} : f \in Open} :
       /\ S # {}
       /\ Begin("repair", Min({failures[f].first : f \in S}),
                Max({failures[f].through : f \in S}), S,
                RepairPosts(S, [f \in S |-> failures[f].next]))
       /\ failures' = [f \in FailureIds |->
            IF f \in S THEN [failures[f] EXCEPT !.status = "repairing"] ELSE failures[f]]
  /\ UNCHANGED <<mode, packages, rescans>>

Finish ==
  /\ ~Idle /\ due = NothingDue /\ job.todo = {}
  /\ IF job.kind = "repair" THEN job.targets \intersect Unresolved = {}
     ELSE job.next > job.snap
  /\ job' = NoJob
  /\ UNCHANGED <<content, index, mode, reached, due, ends, choice, bounds>>

-----------------------------------------------------------------------------
\* Mutant: a selection survives new comments in the package.
ScanPostKeepingChoice(p) ==
  LET k == PostKey(p)
      items == CommentItems(p, comments[p])
      differs == packages[k].items # items
      changed == /\ packages[k].status # "absent" \/ items # {}
                 /\ differs \/ packages[k].status # "stable"
  IN
  /\ due = NothingDue /\ p \in job.todo
  /\ job' = [job EXCEPT !.todo = @ \ {p}]
  /\ IF scanned[p] = comments[p]
     THEN UNCHANGED <<index, choice>>
     ELSE /\ ~(changed /\ packages[k].dl = "downloading")
          /\ scanned' = [scanned EXCEPT ![p] = comments[p]]
          /\ stored' = IF changed THEN (stored \ CommentItems(p, MaxComments)) \union items
                       ELSE stored
          /\ packages' = [packages EXCEPT ![k] =
               IF ~changed THEN @
               ELSE IF items = {} THEN [@ EXCEPT !.status = "superseded", !.items = {}]
               ELSE Revised(@, "comment", "stable", items, TRUE)]
          /\ UNCHANGED <<failures, choice>>
  /\ UNCHANGED <<content, mode, reached, due, ends, bounds>>

(* publish_comment_package of a post whose visible count has changed.      *)
ScanPost(p) ==
  LET k == PostKey(p)
      items == CommentItems(p, comments[p])
      differs == packages[k].items # items
      changed == /\ packages[k].status # "absent" \/ items # {}
                 /\ differs \/ packages[k].status # "stable"
  IN
  /\ due = NothingDue /\ p \in job.todo
  /\ job' = [job EXCEPT !.todo = @ \ {p}]
  /\ IF scanned[p] = comments[p]
     THEN UNCHANGED <<index, choice>>
     ELSE /\ ~(changed /\ packages[k].dl = "downloading")
          /\ scanned' = [scanned EXCEPT ![p] = comments[p]]
          /\ stored' = IF changed THEN (stored \ CommentItems(p, MaxComments)) \union items
                       ELSE stored
          /\ packages' = [packages EXCEPT ![k] =
               IF ~changed THEN @
               ELSE IF items = {} THEN [@ EXCEPT !.status = "superseded", !.items = {}]
               ELSE Revised(@, "comment", "stable", items, TRUE)]
          /\ selected' = IF changed THEN selected \ {k} ELSE selected
          /\ UNCHANGED <<failures, chosen>>
  /\ UNCHANGED <<content, mode, reached, due, ends, bounds>>

(* A batch whose messages were read.                                       *)
Ready == due = NothingDue /\ job.todo = {}
Publication(end) == [NothingDue EXCEPT !.through = end]
Passed(end, known) ==
  /\ job' = [job EXCEPT !.next = end + 1, !.lost = known,
                        !.todo = NextPosts(end + 1, job.snap)]
  /\ reached' = Max({reached, end})

FetchBatch ==
  LET end == BatchEnd(job.next, job.snap) IN
  /\ job.kind \in {"full", "incremental"} /\ Ready /\ job.next <= job.snap
  /\ stored' = IF mode = "comments" THEN stored ELSE stored \union Media(job.next .. end)
  /\ Passed(end, job.lost)
  /\ due' = IF mode = "comments" THEN due ELSE Publication(end)
  /\ UNCHANGED <<content, packages, failures, scanned, mode, ends, choice, bounds>>

(* A batch whose retries are used up: its range is recorded as failed,     *)
(* then passed -- unless the process ends between the two.                 *)
LoseBatch ==
  LET first == job.next
      end == BatchEnd(first, job.snap)
      near == {f \in job.lost : failures[f].last >= first - 1}
      row == [first |-> first, last |-> end, next |-> first, through |-> end,
              anchor |-> Anchor(first), status |-> "open"]
      known == job.lost \union (IF near = {} THEN {Len(failures) + 1} ELSE {})
  IN
  /\ job.kind \in {"full", "incremental"} /\ due = NothingDue /\ first <= job.snap
  /\ Within(lost + 1, remarks, rescans + downloads) /\ lost' = lost + 1
  /\ failures' =
       IF near = {} THEN Append(failures, row)
       ELSE [failures EXCEPT ![Min(near)] =
               [@ EXCEPT !.last = end, !.through = Max({@, end}),
                         !.anchor = Min({@, Anchor(first)})]]
  /\ \/ /\ Passed(end, known)
        /\ due' = Publication(end)
     \/ /\ job' = [job EXCEPT !.lost = known]
        /\ UNCHANGED <<reached, due>>
  /\ UNCHANGED <<content, stored, packages, scanned, mode, ends, choice, remarks, rescans, downloads>>

(* A repair reads the ranges of its targets in order; a range that is read *)
(* to its end is published as far as it was uncertain, and resolved.       *)
RepairStep ==
  LET S == job.targets \intersect Unresolved
      f == Target(S)
      end == BatchEnd(failures[f].next, failures[f].last)
      next == [g \in S |-> IF g = f THEN end + 1 ELSE failures[g].next]
  IN
  /\ job.kind = "repair" /\ Ready /\ S # {}
  /\ IF failures[f].next <= failures[f].last
     THEN /\ stored' = IF mode = "comments" THEN stored
                       ELSE stored \union Media(failures[f].next .. end)
          /\ failures' = [failures EXCEPT ![f].next = end + 1]
          /\ due' = IF mode = "comments" THEN due
                    ELSE [through |-> end, target |-> f, resolve |-> FALSE]
          /\ job' = [job EXCEPT !.todo =
               IF end < failures[f].last THEN NextPosts(end + 1, failures[f].last) ELSE {}]
     ELSE /\ due' = [through |-> failures[f].through, target |-> f, resolve |-> TRUE]
          /\ job' = [job EXCEPT !.todo = RepairPosts(S \ {f}, next)]
          /\ UNCHANGED <<stored, failures>>
  /\ UNCHANGED <<content, packages, scanned, mode, reached, ends, choice, bounds>>

(* A pause, a shutdown or a crash before the publication of a repaired     *)
(* batch: the cursor has moved, the publication is not made up for. The    *)
(* other jobs index what they have fetched before they go on.              *)
Interrupt ==
  /\ due.target # 0
  /\ due' = NothingDue
  /\ UNCHANGED <<content, index, mode, reached, job, ends, choice, bounds>>

-----------------------------------------------------------------------------
(* Users: set_package_selected, and a batch of the selected packages or of  *)
(* one that is asked for by its ID. Its items are read when it is created. *)
Select(k) ==
  /\ packages[k].status = "stable" /\ MoreUses
  /\ selected' = selected \union {k}
  /\ chosen' = [chosen EXCEPT ![k] = packages[k].items]
  /\ UNCHANGED <<content, index, scan, bounds>>

Download(asked) ==
  LET batch == IF asked = {} THEN selected ELSE asked IN
  /\ Idle /\ reached > 0 /\ MoreUses
  /\ batch # {}
  /\ \A k \in batch :
       /\ packages[k].status = "stable"
       /\ ~packages[k].queued /\ packages[k].dl \notin {"queued", "downloading"}
       /\ \A l \in batch : packages[l].kind = packages[k].kind   \* one source chat
  /\ packages' = [k \in Keys |->
       IF k \in batch THEN [packages[k] EXCEPT !.dl = "queued", !.queued = TRUE]
       ELSE packages[k]]
  /\ selected' = IF asked = {} THEN {} ELSE selected
  /\ downloads' = downloads + 1
  /\ UNCHANGED <<content, stored, failures, scanned, scan, chosen, lost, remarks, rescans>>

StartDownload(k) ==
  /\ packages[k].queued /\ packages[k].dl \in {"queued", "outdated"}
  /\ packages' = [packages EXCEPT ![k].dl = "downloading"]
  /\ UNCHANGED <<content, stored, failures, scanned, scan, choice, bounds>>

EndDownload(k) ==
  /\ packages[k].dl = "downloading"
  /\ \/ packages' = [packages EXCEPT ![k].dl = "completed", ![k].ok = TRUE,
                       ![k].queued = FALSE]
     \/ packages' = [packages EXCEPT ![k].dl = "failed", ![k].queued = FALSE]
  /\ UNCHANGED <<content, stored, failures, scanned, scan, choice, bounds>>

-----------------------------------------------------------------------------
(* Telegram *)
Post ==
  /\ latest < Last /\ latest' = Last
  /\ UNCHANGED <<channel, comments, index, scan, choice, bounds>>

Comment ==
  /\ \E p \in PostsIn(1, latest), n \in 0 .. MaxComments :
       n # comments[p] /\ comments' = [comments EXCEPT ![p] = n]
  /\ Within(lost, remarks + 1, rescans + downloads) /\ remarks' = remarks + 1
  /\ UNCHANGED <<channel, latest, index, scan, choice, lost, rescans, downloads>>

Init ==
  /\ channel \in Channels /\ latest = Early
  /\ comments \in [Posts -> 0 .. MaxComments] /\ scanned = [p \in Posts |-> -1]
  /\ stored = {} /\ failures = <<>> /\ mode \in Modes /\ reached = 0
  /\ packages = [k \in Keys |-> NoPackage]
  /\ job = NoJob /\ due = NothingDue /\ ends = {}
  /\ selected = {} /\ chosen = [k \in Keys |-> {}]
  /\ lost = 0 /\ remarks = 0 /\ rescans = 0 /\ downloads = 0

Scan == FullScan \/ (\E m \in Modes : Rescan(m)) \/ IncrementalScan \/ Repair \/ Finish \/ FetchBatch
          \/ LoseBatch \/ RepairStep \/ Interrupt \/ Publish
User ==
  \/ Download({})
  \/ \E k \in Keys : Select(k) \/ Download({k}) \/ StartDownload(k) \/ EndDownload(k)
Next == Scan \/ User \/ (\E p \in Posts : ScanPost(p)) \/ Post \/ Comment
Spec == Init /\ [][Next]_vars

-----------------------------------------------------------------------------
(* The messages with media up to h, and so the packages a complete scan of *)
(* them would plan in one go.                                              *)
True(h) == Media(1 .. h)

(* Where a failure says the channel must be planned again, a package       *)
(* starts. A range lost behind an unresolved one may take an uncertain     *)
(* package as its anchor that the repair of the first merges into another. *)
AnchorsHold == \A f \in FailureIds :
  failures[f].anchor <= 1 \/ \E h \in ends : failures[f].anchor \in Starts(True(h))

(* A package offered for download is one that the whole channel, up to the *)
(* end of some finished or running scan, really has: scanning in batches,  *)
(* and ranges lost on the way, recorded twice by a crash and repaired in   *)
(* any order, never present a cut or a merged package as stable. Until the *)
(* scan mode is changed, and while the anchors of the failures hold: with  *)
(* one that does not, the code makes overlapping packages stable.          *)
StableIsTrue == rescans = 0 /\ AnchorsHold =>
  \A k \in Messages : packages[k].status = "stable" =>
    \E h \in ends : k \in Starts(True(h)) /\ packages[k].items = PackageFrom(k, True(h))

(* When no scan is left to run and no range is lost, the index is the plan *)
(* of the whole channel: every message with media is in the package that   *)
(* one complete pass would put it in, and every package can be selected.   *)
(* Until the scan mode is changed, and while anchors hold.                 *)
FirstIndexIsPlan ==
  rescans = 0 /\ AnchorsHold /\ Idle /\ reached > 0 /\ Unresolved = {} /\ mode # "comments" =>
    /\ Shown \intersect Messages = Starts(True(reached))
    /\ \A k \in Shown \intersect Messages :
         packages[k].status = "stable" /\ packages[k].items = PackageFrom(k, True(reached))

(* What a user has selected is what the batch would download: no scan,     *)
(* repair or new comment changes a package under its selection. Until the  *)
(* scan mode is changed.                                                   *)
SelectionIsCurrent == rescans = 0 =>
  \A k \in selected : packages[k].status = "stable" /\ packages[k].items = chosen[k]
=============================================================================
