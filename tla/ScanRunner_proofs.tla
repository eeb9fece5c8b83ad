-------------------------- MODULE ScanRunner_proofs --------------------------
(***************************************************************************)
(* Proofs about ScanRunner and the tables of ScanStore: the types, that no *)
(* message below a watermark is forgotten, what a ready library promises,  *)
(* and that every range that could not be read can be taken up again.      *)
(*                                                                         *)
(* The invariant has two parts. StoreInv speaks of the tables alone: what  *)
(* is covered, where cursors and watermarks stand to each other, and which *)
(* job of a library can still go on. RunnerInv ties the scheduler to the   *)
(* row of its job: what it has read into local variables before another    *)
(* actor came is, at every point of a batch, still true of the row, or the *)
(* row is deleted.                                                         *)
(*                                                                         *)
(* The transactions come first, each with what it keeps of StoreInv; then  *)
(* what a transaction of one actor leaves to the others (Stays, Grows,     *)
(* LibrariesGo); then one lemma per action.                                *)
(***************************************************************************)
EXTENDS ScanRunner, SequenceTheorems, WellFoundedInduction, TLAPS

-----------------------------------------------------------------------------
FailureStatuses == {"open", "repairing", "resolved", "deleted"}

(* A sequence, whatever its rows are.                                      *)
Numbered(s) == s \in Seq({s[i] : i \in DOMAIN s})

JobFields == {"lib", "kind", "status", "control", "waits", "start", "snap", "next",
              "fetched", "indexed", "retries", "targets"}

LibraryRows ==
  /\ DOMAIN library = Libraries
  /\ \A l \in Libraries :
       /\ DOMAIN library[l] = {"mode", "status", "fetched", "indexed"}
       /\ library[l].mode \in Modes \union {"messages"} /\ library[l].status \in Statuses
       /\ library[l].fetched \in Nat /\ library[l].indexed \in Nat

JobRows ==
  \A j \in JobIds :
    /\ DOMAIN jobs[j] = JobFields
    /\ jobs[j].lib \in Libraries /\ jobs[j].kind \in Kinds /\ jobs[j].status \in JobStatuses
    /\ jobs[j].control \in {"none", "pause", "stop"}
    /\ jobs[j].start \in Nat \ {0} /\ jobs[j].next \in Nat \ {0}
    /\ jobs[j].snap \in Nat /\ jobs[j].fetched \in Nat /\ jobs[j].indexed \in Nat
    /\ DOMAIN jobs[j].targets \subseteq FailureIds
    /\ jobs[j].kind # "repair" => DOMAIN jobs[j].targets = {}
    /\ \A f \in DOMAIN jobs[j].targets :
         /\ DOMAIN jobs[j].targets[f] = {"next", "done"}
         /\ jobs[j].targets[f].next \in Nat \ {0}

FailureRows ==
  \A f \in FailureIds :
    /\ DOMAIN failures[f] = {"lib", "job", "first", "last", "through", "status"}
    /\ failures[f].job \in JobIds /\ failures[f].lib = jobs[failures[f].job].lib
    /\ failures[f].status \in FailureStatuses
    /\ failures[f].first \in Nat \ {0} /\ failures[f].last \in Nat /\ failures[f].through \in Nat

Rows ==
  /\ Numbered(jobs) /\ Numbered(failures)
  /\ LibraryRows /\ JobRows /\ FailureRows
  /\ held \in [Libraries -> SUBSET (Contents \X Messages)]
  /\ revisit \in [Libraries -> SUBSET Messages]
  /\ latest \in [Libraries -> Messages]

(* Watermarks and snapshots stay within the channel.                       *)
Bounded ==
  /\ \A l \in Libraries : library[l].indexed <= library[l].fetched
                          /\ library[l].fetched <= latest[l]
  /\ \A j \in JobIds : /\ jobs[j].indexed <= jobs[j].fetched
                       /\ jobs[j].snap <= latest[jobs[j].lib]
                       /\ jobs[j].control # "none" => jobs[j].status = "running"
  /\ \A f \in FailureIds : /\ failures[f].first <= failures[f].last
                           /\ failures[f].last <= failures[f].through
                           /\ failures[f].through <= latest[failures[f].lib]

(* Only the last job of a library can go on, and not of one that is ready. *)
OneJob ==
  \A j \in JobIds :
    LET l == jobs[j].lib IN
    /\ jobs[j].status # "deleted" => library[l].status # "absent"
    /\ jobs[j].status \in Recoverable =>
         /\ library[l].status \notin {"ready", "partial"}
         /\ \A k \in JobIds : jobs[k].lib = l => k <= j

NothingAbsent ==
  \A l \in Libraries : library[l].status = "absent" =>
    library[l].fetched = 0 /\ library[l].indexed = 0 /\ held[l] = {}
    /\ revisit[l] = {}

(* Nothing is stored or to be read again that is above the watermark.      *)
HeldBelow ==
  \A l \in Libraries : /\ held[l] \subseteq Contents \X (1 .. library[l].fetched)
                        /\ revisit[l] \subseteq 1 .. library[l].fetched

(* Message i is stored for the mode of its library, or to be read again.   *)
Kept(l) ==
  revisit[l] \union {i \in Messages : \A c \in Stores(library[l].mode) : <<c, i>> \in held[l]}

Covered(l, n) ==
  \A i \in 1 .. n : i \in Kept(l) \/ \E f \in Unresolved(l) : i \in RangeOf(f)

Coverage ==
  /\ \A l \in Libraries : Covered(l, library[l].fetched)
  /\ \A j \in JobIds : jobs[j].status # "deleted" =>
       /\ Covered(jobs[j].lib, jobs[j].start - 1)
       /\ Covered(jobs[j].lib, jobs[j].next - 1)
       /\ Covered(jobs[j].lib, jobs[j].fetched)
  /\ \A l \in Libraries : \A f \in Unresolved(l) : Covered(l, failures[f].last)

Cursors ==
  \A j \in JobIds : jobs[j].status # "deleted" =>
    \A f \in DOMAIN jobs[j].targets :
      /\ failures[f].lib = jobs[j].lib /\ failures[f].status \in {"repairing", "resolved"}
      /\ failures[f].first .. jobs[j].targets[f].next - 1 \subseteq Kept(jobs[j].lib)
      /\ jobs[j].status \in Recoverable /\ ~jobs[j].targets[f].done
           => failures[f].status = "repairing"

(* The cursor of a job is past what it has fetched.                        *)
NextPastFetched ==
  \A j \in JobIds : jobs[j].status # "deleted" => jobs[j].fetched < jobs[j].next

Ongoing == Recoverable \union {"failed"}

(* An unresolved failure holds message i, and no repair has read past it.  *)
Fresh(f, i) ==
  \A k \in JobIds : jobs[k].status # "deleted" /\ f \in DOMAIN jobs[k].targets
                      => jobs[k].targets[f].next <= i
FreshlyLost(l, i) == \E f \in Unresolved(l) : i \in RangeOf(f) /\ Fresh(f, i)

(* What is to be read again is before the cursor of a full scan that goes  *)
(* on or has failed, or such a scan has lost it.                           *)
Revisits ==
  \A l \in Libraries : \A i \in revisit[l] :
    AwaitsRevisit(l, i, Ongoing) \/ FreshlyLost(l, i)

Marks ==
  \A j \in JobIds :
    LET l == jobs[j].lib IN
    /\ jobs[j].status # "deleted" =>
         jobs[j].fetched <= library[l].fetched /\ jobs[j].indexed <= library[l].indexed
    /\ jobs[j].status \in Recoverable =>
         \/ jobs[j].fetched = library[l].fetched /\ jobs[j].indexed = library[l].indexed
         \/ library[l].fetched <= jobs[j].snap

(* A failed repair before job j.                                           *)
AfterFailed(j) == \E i \in JobsIn(jobs[j].lib, {"failed"}) : jobs[i].kind = "repair" /\ i < j

RepairMarks ==
  \A j \in JobIds : jobs[j].kind = "repair" /\ jobs[j].status \in Recoverable =>
    \/ AfterFailed(j)
    \/ jobs[j].fetched <= jobs[j].indexed
    \/ \E f \in DOMAIN jobs[j].targets :
         ~jobs[j].targets[f].done /\ jobs[j].fetched <= failures[f].last

EndedIsIndexed ==
  \A l \in Libraries : library[l].status \in {"ready", "partial"} =>
    library[l].indexed = library[l].fetched \/ RetriedRepair(l)

ReadyIsRepaired == \A l \in Libraries : library[l].status = "ready" => Unresolved(l) = {}

StoreInv ==
  /\ Rows /\ Bounded /\ OneJob /\ NothingAbsent /\ HeldBelow /\ Coverage /\ Cursors
  /\ NextPastFetched /\ Revisits /\ Marks /\ RepairMarks
  /\ EndedIsIndexed /\ ReadyIsRepaired /\ NoFailureStranded

-----------------------------------------------------------------------------
Idle == {"down", "loop", "claim", "idle"}
InRange == {"top", "fetch", "comments", "commit", "record", "skip", "publish", "settle"}
Before == {"top", "fetch", "comments", "commit", "record", "skip"}
Places == Idle \union InRange
            \union {"start", "refresh", "first", "target", "finish", "waitidle", "requeue"}

RunnerShape ==
  /\ DOMAIN runner = {"pc", "job", "next", "end", "target", "stage"}
  /\ runner.pc \in Places
  /\ runner.stage \in {"none", "first", "batch", "lost", "resolve"}
  /\ runner.job \in {0} \union JobIds
  /\ runner.next \in Nat /\ runner.end \in Nat
  /\ runner.target \in {0} \union FailureIds
  /\ runner.job = 0 <=> runner.pc \in Idle

RequestShape ==
  /\ DOMAIN request = {"op", "job", "seen"}
  /\ request.op \in {"none", "pause", "resume", "stop"}
  /\ request # NoRequest => request.job \in JobIds /\ request.op # "none"

SweepShape ==
  /\ DOMAIN sweep = {"lib", "first", "cron"}
  /\ sweep # NoSweep =>
       /\ sweep.lib \in Libraries /\ library[sweep.lib].status # "absent"
       /\ sweep.first \in Nat \ {0} /\ sweep.first <= library[sweep.lib].fetched + 1

(* Where the runner stands, as long as its job is not deleted.             *)
Standing ==
  /\ runner.pc \in {"refresh", "first"} => Job.kind # "repair"
  /\ runner.pc \in {"start", "refresh", "first"} => runner.target = 0
  /\ runner.pc = "target" => Job.kind = "repair"
  /\ runner.pc \in {"record", "skip"} => runner.target = 0
  /\ runner.pc \in InRange =>
       /\ runner.target = 0 <=> Job.kind # "repair"
       /\ runner.target # 0 =>
            runner.target \in DOMAIN Job.targets /\ ~Job.targets[runner.target].done
  /\ runner.pc \in Before \union {"settle"} \/ (runner.pc = "publish" /\ runner.stage \in {"batch", "lost"}) =>
       /\ runner.next >= 1 /\ Covered(Job.lib, runner.next - 1)
       /\ runner.end = IF runner.target = 0 THEN Job.snap ELSE failures[runner.target].last
  /\ runner.pc \in Before \ {"top"} => runner.next <= runner.end
  /\ runner.pc \in Before /\ runner.target # 0 => Job.targets[runner.target].next = runner.next
  /\ runner.pc \in {"skip", "settle"} \/ (runner.pc = "publish" /\ runner.stage \in {"batch", "lost"}) =>
       /\ Covered(Job.lib, Last)
       /\ runner.target # 0 => Job.targets[runner.target].next = Last + 1
  /\ runner.pc \in Before /\ runner.target = 0 => runner.next <= Job.next
  /\ runner.pc = "skip" =>
       \A i \in runner.next .. Last : i \in revisit[Job.lib] => FreshlyLost(Job.lib, i)
  /\ (runner.pc = "settle" \/ (runner.pc = "publish" /\ runner.stage \in {"batch", "lost"}))
       /\ runner.target = 0 => Last < Job.next
  /\ runner.pc = "publish" => runner.stage # "none"
  /\ runner.pc = "publish" /\ runner.stage = "first" => Job.kind # "repair"
  /\ runner.pc = "publish" /\ runner.stage = "resolve" =>
       runner.target # 0 /\ failures[runner.target].last <= runner.end

(* Everything fetched is indexed between two batches of a scan.            *)
Indexed ==
  Job.kind # "repair" =>
    /\ runner.pc \in Before \union {"settle", "finish"} => Job.fetched <= Job.indexed
    /\ runner.pc = "publish" /\ runner.stage = "first" => Job.fetched = runner.end
    /\ runner.pc = "publish" /\ runner.stage \in {"batch", "lost"} =>
         Job.fetched <= Job.indexed \/ Job.fetched = Last

RunnerInv ==
  /\ RunnerShape /\ RequestShape /\ SweepShape
  /\ runner.job # 0 => Job.status \in Recoverable \union {"deleted"}
  /\ runner.job # 0 /\ Job.status # "deleted" => Standing /\ Indexed

IInv == StoreInv /\ RunnerInv
-----------------------------------------------------------------------------
USE DEF JobIds, FailureIds

(* A smaller number is below in the relation the induction library uses.   *)
LEMMA LessIsRelated ==
  ASSUME NEW x \in Nat, NEW y \in Nat, y < x
  PROVE  <<y, x>> \in OpToRel(<, Nat)
BY DEF OpToRel

(* Min of a set of numbers is one of them and the least.                   *)
LEMMA MinOfNats ==
  ASSUME NEW T, T \subseteq Nat, T # {}
  PROVE  Min(T) \in T /\ \A y \in T : Min(T) <= y
<1>1. PICK x \in T : \A y \in T : ~(<<y, x>> \in OpToRel(<, Nat))
  BY NatLessThanWellFounded, WFMin
<1>2. \A y \in T : ~(y < x)
  BY <1>1, LessIsRelated
<1>3. \A y \in T : x =< y
  BY <1>2
<1>4. Min(T) \in T /\ \A y \in T : Min(T) =< y
  BY <1>3 DEF Min
<1> QED BY <1>4

(* Max of a bounded set of numbers is one of them and the greatest.        *)
LEMMA MaxOfNats ==
  ASSUME NEW T, T \subseteq Nat, T # {}, NEW b \in Nat, \A y \in T : y <= b
  PROVE  Max(T) \in T /\ \A y \in T : y <= Max(T)
<1> DEFINE B == {c \in Nat : \A y \in T : y <= c}
<1>1. PICK x \in B : \A y \in B : ~(<<y, x>> \in OpToRel(<, Nat))
  <2>1. B \subseteq Nat /\ b \in B
    OBVIOUS
  <2> QED BY <2>1, NatLessThanWellFounded, WFMin
<1>2. \A y \in B : ~(y < x)
  BY <1>1, LessIsRelated
<1>3. x \in T
  <2> SUFFICES ASSUME x \notin T PROVE FALSE
    OBVIOUS
  <2>0. x \in Nat /\ \A y \in T : y \in Nat /\ y <= x
    OBVIOUS
  <2>1. \A y \in T : y < x
    BY <2>0
  <2>2. x > 0
    <3>1. PICK y \in T : TRUE
      OBVIOUS
    <3> QED BY <2>0, <2>1, <3>1
  <2>3. x - 1 \in B
    BY <2>1, <2>2
  <2> QED BY <1>2, <2>3
<1>4. \A y \in T : x >= y
  OBVIOUS
<1>5. Max(T) \in T /\ \A y \in T : Max(T) >= y
  BY <1>3, <1>4 DEF Max
<1> QED BY <1>5

(* Min of two numbers.                                                     *)
LEMMA MinOfTwo ==
  ASSUME NEW a \in Nat, NEW b \in Nat
  PROVE  Min({a, b}) = IF a <= b THEN a ELSE b
BY MinOfNats, Min({a, b}) \in {a, b}

(* Max of two numbers.                                                     *)
LEMMA MaxOfTwo ==
  ASSUME NEW a \in Nat, NEW b \in Nat
  PROVE  Max({a, b}) = IF a <= b THEN b ELSE a
<1>1. Max({a, b}) \in {a, b} /\ \A y \in {a, b} : y <= Max({a, b})
  BY MaxOfNats, a + b \in Nat, \A y \in {a, b} : y <= a + b
<1> QED BY <1>1

(* A row that is appended gets a number above all others; the rest stays.  *)
LEMMA AppendRow ==
  ASSUME NEW s, Numbered(s), NEW e
  PROVE  LET n == Len(s) + 1
             t == Append(s, e)
         IN /\ n \in Nat \ {0} /\ n \notin DOMAIN s /\ \A i \in DOMAIN s : i < n
            /\ DOMAIN t = DOMAIN s \union {n} /\ Numbered(t)
            /\ t[n] = e /\ \A i \in DOMAIN s : t[i] = s[i]
<1> DEFINE R == {s[i] : i \in DOMAIN s} \union {e}
           n == Len(s) + 1
           t == Append(s, e)
<1>1. s \in Seq(R)
  BY SeqMonotonic DEF Numbered
<1>2. Len(s) \in Nat /\ DOMAIN s = 1 .. Len(s)
  BY <1>1, LenProperties
<1>3. /\ t \in Seq(R) /\ Len(t) = n /\ t[n] = e
      /\ \A i \in 1 .. Len(s) : t[i] = s[i]
  BY <1>1, AppendProperties
<1>4. DOMAIN t = 1 .. n
  BY <1>3, LenProperties
<1>5. {t[i] : i \in DOMAIN t} = R
  BY <1>2, <1>3, <1>4
<1> QED BY <1>2, <1>3, <1>4, <1>5 DEF Numbered

(* Rows that keep their numbers stay a sequence.                           *)
LEMMA SameNumbers ==
  ASSUME NEW s, Numbered(s), NEW t, DOMAIN t = DOMAIN s, t = [i \in DOMAIN t |-> t[i]]
  PROVE  Numbered(t)
<1> DEFINE R == {s[i] : i \in DOMAIN s}
           Q == {t[i] : i \in DOMAIN t}
<1>1. Len(s) \in Nat /\ DOMAIN s = 1 .. Len(s)
  BY LenProperties DEF Numbered
<1>2. t \in [1 .. Len(s) -> Q]
  BY <1>1
<1>3. t \in Seq(Q)
  BY <1>1, <1>2, SeqDef
<1> QED BY <1>3 DEF Numbered

(* The numbers of rows are positive.                                       *)
LEMMA NumbersAreNat ==
  ASSUME NEW s, Numbered(s)
  PROVE  DOMAIN s \subseteq Nat \ {0}
<1>1. Len(s) \in Nat /\ DOMAIN s = 1 .. Len(s)
  BY LenProperties DEF Numbered
<1> QED BY <1>1

-----------------------------------------------------------------------------
(* Coverage only grows: what is stored stays so, and what a failure holds  *)
(* is held by one or stored afterwards.                                    *)
Grows(l) ==
  /\ Kept(l) \subseteq Kept(l)'
  /\ \A f \in Unresolved(l) : \A i \in RangeOf(f) :
       i \in Kept(l)' \/ \E g \in Unresolved(l)' : i \in RangeOf(g)'
  /\ \A i \in revisit'[l] : i \in revisit[l] /\ FreshlyLost(l, i) => FreshlyLost(l, i)'

(* What is kept depends on what is stored and on the mode alone.           *)
LEMMA SameKept ==
  ASSUME NEW l, contents' = contents, library'[l].mode = library[l].mode
  PROVE  Kept(l)' = Kept(l)
BY DEF Kept, contents

(* A failure stays fresh while no row is deleted and no cursor moves.      *)
LEMMA SameFresh ==
  ASSUME NEW l, NEW i, failures' = failures, DOMAIN jobs' = JobIds,
         \A k \in JobIds : /\ jobs'[k].status = "deleted" <=> jobs[k].status = "deleted"
                           /\ jobs'[k].targets = jobs[k].targets
  PROVE  FreshlyLost(l, i)' <=> FreshlyLost(l, i)
BY DEF FreshlyLost, Fresh, Unresolved, RangeOf

(* What is covered stays covered when coverage grows.                      *)
LEMMA CoveredGrows ==
  ASSUME NEW l, NEW n, Covered(l, n), Grows(l)
  PROVE  Covered(l, n)'
BY DEF Covered, Grows

(* What is covered up to n is covered up to every m below.                 *)
LEMMA CoveredBelow ==
  ASSUME NEW l, NEW n \in Int, NEW m \in Int, Covered(l, n), m <= n
  PROVE  Covered(l, m)
BY DEF Covered

(* What a change of a job's status does not touch.                         *)
SameWork(j) ==
  /\ jobs'[j].lib = jobs[j].lib /\ jobs'[j].kind = jobs[j].kind
  /\ jobs'[j].start = jobs[j].start /\ jobs'[j].snap = jobs[j].snap
  /\ jobs'[j].next = jobs[j].next /\ jobs'[j].fetched = jobs[j].fetched
  /\ jobs'[j].indexed = jobs[j].indexed /\ jobs'[j].targets = jobs[j].targets

(* Jobs and their libraries change their statuses and nothing else.        *)
JobMoves(j) ==
  /\ DOMAIN jobs'[j] = JobFields /\ SameWork(j)
  /\ jobs'[j].status \in JobStatuses /\ jobs'[j].control \in {"none", "pause", "stop"}
  /\ jobs'[j].control # "none" => jobs'[j].status = "running"
  /\ jobs'[j].status = "deleted" <=> jobs[j].status = "deleted"
  /\ jobs'[j].status \in Recoverable =>
       jobs[j].status \in Recoverable
         /\ library'[jobs[j].lib].status \notin {"ready", "partial"}
  /\ jobs[j].status = "failed" => jobs'[j].status = "failed"
  /\ jobs[j].status \in Finished => jobs'[j].status \in Finished
  /\ jobs[j].status \in Ongoing /\ jobs'[j].status \notin Ongoing =>
       /\ \A f \in DOMAIN jobs[j].targets : jobs[j].targets[f].done
       /\ jobs[j].fetched >= jobs[j].snap

LibraryMoves(l) ==
  /\ DOMAIN library'[l] = {"mode", "status", "fetched", "indexed"}
  /\ library'[l].mode = library[l].mode
  /\ library'[l].fetched = library[l].fetched /\ library'[l].indexed = library[l].indexed
  /\ library'[l].status \in Statuses
  /\ library'[l].status = "absent" <=> library[l].status = "absent"
  /\ library'[l].status = "ready" => library[l].status = "ready" \/ Unresolved(l) = {}
  /\ library'[l].status \in {"ready", "partial"} =>
       \/ library[l].status \in {"ready", "partial"}
       \/ library[l].indexed = library[l].fetched
       \/ RetriedRepair(l)'

StatusOnly ==
  /\ failures' = failures /\ contents' = contents /\ latest' = latest
  /\ DOMAIN jobs' = JobIds /\ Numbered(jobs') /\ DOMAIN library' = Libraries
  /\ \A j \in JobIds : JobMoves(j)
  /\ \A l \in Libraries : LibraryMoves(l)

(* A transaction that only moves statuses, as those of transition_job,     *)
(* keeps the tables correct.                                               *)
LEMMA StatusKeeps ==
  ASSUME StoreInv, StatusOnly
  PROVE  StoreInv'
<1> USE DEF StoreInv
<1>1. \A l \in Libraries : Unresolved(l)' = Unresolved(l)
  BY DEF StatusOnly, Unresolved
<1>2. \A f \in FailureIds : RangeOf(f)' = RangeOf(f)
  BY DEF StatusOnly, RangeOf
<1>15. \A l \in Libraries : Kept(l)' = Kept(l)
  BY SameKept DEF StatusOnly, LibraryMoves
<1>16. \A l, i : FreshlyLost(l, i)' <=> FreshlyLost(l, i)
  BY SameFresh DEF StatusOnly, JobMoves, SameWork
<1>3. \A l \in Libraries : Grows(l)
  BY <1>1, <1>2, <1>15, <1>16 DEF Grows, Unresolved
<1>4. Rows'
  <2>1. Numbered(jobs)' /\ Numbered(failures)' /\ held' \in [Libraries -> SUBSET (Contents \X Messages)]
        /\ revisit' \in [Libraries -> SUBSET Messages]
        /\ latest' \in [Libraries -> Messages]
    BY DEF Rows, StatusOnly, contents
  <2>2. LibraryRows'
    BY DEF Rows, StatusOnly, LibraryMoves, LibraryRows
  <2>3. JobRows'
    BY DEF Rows, StatusOnly, JobMoves, SameWork, JobRows
  <2>4. FailureRows'
    BY DEF Rows, StatusOnly, JobMoves, SameWork, FailureRows
  <2> QED BY <2>1, <2>2, <2>3, <2>4 DEF Rows
<1>5. Bounded'
  BY DEF Rows, JobRows, FailureRows, Bounded, StatusOnly, JobMoves, SameWork, LibraryMoves
<1>6. OneJob'
  BY DEF Rows, JobRows, OneJob, StatusOnly, JobMoves, SameWork, LibraryMoves
<1>7. NothingAbsent' /\ HeldBelow'
  BY DEF NothingAbsent, HeldBelow, StatusOnly, LibraryMoves, contents
<1>17. NextPastFetched'
  BY DEF Rows, JobRows, NextPastFetched, StatusOnly, JobMoves, SameWork
<1>18. Revisits'
  <2> SUFFICES ASSUME NEW l \in Libraries, NEW i \in revisit[l]
               PROVE  AwaitsRevisit(l, i, Ongoing)' \/ FreshlyLost(l, i)'
    BY DEF Revisits, StatusOnly, contents
  <2>1. CASE FreshlyLost(l, i)
    BY <1>16, <2>1
  <2>2. CASE AwaitsRevisit(l, i, Ongoing)
    <3>1. PICK j \in JobsIn(l, Ongoing) :
            jobs[j].kind = "full" /\ jobs[j].next <= i /\ i <= jobs[j].snap
      BY <2>2 DEF AwaitsRevisit
    <3>2. /\ j \in JobIds /\ jobs[j].lib = l /\ jobs[j].status \in Ongoing /\ JobMoves(j)
          /\ i \in Nat /\ jobs[j].next \in Nat /\ jobs[j].snap \in Nat /\ jobs[j].fetched \in Nat
      BY <3>1 DEF JobsIn, StatusOnly, Rows, JobRows, Messages
    <3>3. jobs[j].fetched < jobs[j].next
      BY <3>2 DEF NextPastFetched, Ongoing, Recoverable
    <3>4. jobs'[j].status \in Ongoing
      BY <3>1, <3>2, <3>3 DEF JobMoves
    <3>5. j \in JobsIn(l, Ongoing)'
      BY <3>2, <3>4 DEF JobsIn, StatusOnly, JobMoves, SameWork
    <3>6. i \in revisit'[l] /\ SameWork(j)
      BY <3>2 DEF StatusOnly, contents, JobMoves
    <3> QED BY <3>1, <3>5, <3>6 DEF AwaitsRevisit, SameWork
  <2> QED BY <2>1, <2>2 DEF Revisits
<1>8. Coverage'
  <2>1. \A l \in Libraries : Covered(l, library[l].fetched)'
    BY <1>3, CoveredGrows DEF Coverage, StatusOnly, LibraryMoves
  <2>2. \A j \in JobIds : jobs[j].status # "deleted" =>
          /\ Covered(jobs[j].lib, jobs[j].start - 1)'
          /\ Covered(jobs[j].lib, jobs[j].next - 1)'
          /\ Covered(jobs[j].lib, jobs[j].fetched)'
    BY <1>3, CoveredGrows DEF Rows, JobRows, Coverage, StatusOnly, JobMoves, SameWork
  <2>3. \A l \in Libraries : \A f \in Unresolved(l)' : Covered(l, failures[f].last)'
    BY <1>1, <1>3, CoveredGrows DEF Coverage, StatusOnly
  <2> QED BY <2>1, <2>2, <2>3 DEF Coverage, StatusOnly, JobMoves
<1>9. Cursors'
  BY <1>15 DEF Rows, JobRows, Cursors, StatusOnly, JobMoves, SameWork
<1>10. Marks'
  BY DEF Rows, JobRows, Marks, StatusOnly, JobMoves, SameWork, LibraryMoves
<1>11. RepairMarks'
  <2>1. \A j \in JobIds : AfterFailed(j) => AfterFailed(j)'
    BY DEF AfterFailed, JobsIn, StatusOnly, JobMoves, SameWork
  <2> QED BY <2>1 DEF RepairMarks, StatusOnly, JobMoves, SameWork
<1>12. EndedIsIndexed'
  <2>1. ASSUME NEW l \in Libraries, RetriedRepair(l)
        PROVE  RetriedRepair(l)'
    <3>1. PICK i \in JobsIn(l, {"failed"}), j \in JobsIn(l, Finished) :
            /\ jobs[i].kind = "repair" /\ jobs[j].kind = "repair" /\ i < j
            /\ \A k \in JobsIn(l, JobStatuses) : k <= j
      BY <2>1 DEF RetriedRepair
    <3>2. i \in JobsIn(l, {"failed"})' /\ j \in JobsIn(l, Finished)'
      BY DEF JobsIn, StatusOnly, JobMoves, SameWork
    <3>3. JobsIn(l, JobStatuses)' \subseteq JobsIn(l, JobStatuses)
      BY DEF Rows, JobRows, JobsIn, StatusOnly, JobMoves, SameWork
    <3>4. jobs'[i].kind = "repair" /\ jobs'[j].kind = "repair"
      BY <3>1 DEF JobsIn, StatusOnly, JobMoves, SameWork
    <3> QED BY <3>1, <3>2, <3>3, <3>4 DEF RetriedRepair
  <2> QED BY <2>1 DEF EndedIsIndexed, StatusOnly, LibraryMoves
<1>13. ReadyIsRepaired'
  BY <1>1 DEF ReadyIsRepaired, StatusOnly, LibraryMoves
<1>14. NoFailureStranded'
  <2> SUFFICES ASSUME NEW l \in Libraries, NEW f \in Unresolved(l),
                      failures[f].status = "repairing"
               PROVE  \E j \in JobsIn(l, Ongoing)' : f \in Unfinished(j)'
    BY <1>1 DEF NoFailureStranded, StatusOnly, Ongoing
  <2>1. PICK j \in JobsIn(l, Ongoing) : f \in Unfinished(j)
    BY DEF NoFailureStranded, Ongoing
  <2>2. j \in JobsIn(l, Ongoing)'
    BY <2>1 DEF JobsIn, Unfinished, StatusOnly, JobMoves, SameWork
  <2>3. f \in Unfinished(j)'
    BY <2>1 DEF JobsIn, Unfinished, StatusOnly, JobMoves, SameWork
  <2> QED BY <2>2, <2>3
<1> QED BY <1>4, <1>5, <1>6, <1>7, <1>8, <1>9, <1>10, <1>11, <1>12, <1>13, <1>14, <1>17, <1>18

-----------------------------------------------------------------------------
(* The transactions that change the status of a job.                       *)
LEMMA MayMoveFrom ==
  ASSUME NEW j, NEW s, MayMove(j, s)
  PROVE  /\ jobs[j].status \in Recoverable /\ s \in JobStatuses \ {"deleted"}
         /\ s \in Recoverable => jobs[j].status \in Recoverable
BY DEF MayMove, Allowed, Recoverable, Finished, JobStatuses

(* The library statuses that end a scan, and the jobs they come from.      *)
LEMMA Statuses1 ==
  ASSUME NEW s
  PROVE  /\ LibraryStatus(s) \in Statuses \ {"absent"}
         /\ LibraryStatus(s) = "ready" <=> s = "completed"
         /\ LibraryStatus(s) = "partial" <=> s = "partial"
BY DEF LibraryStatus, Statuses

(* A library has one recoverable job: the unique index of                  *)
(* channel_scan_jobs.                                                      *)
LEMMA OnlyOneGoes ==
  ASSUME StoreInv, NEW j \in JobIds, NEW k \in JobIds, jobs[j].lib = jobs[k].lib,
         jobs[j].status \in Recoverable, jobs[k].status \in Recoverable
  PROVE  j = k
<1>1. j <= k /\ k <= j
  BY DEF StoreInv, OneJob
<1> QED BY <1>1, NumbersAreNat DEF StoreInv, Rows

(* What a scan that ends has indexed.                                      *)
LEMMA EndIsIndexed ==
  ASSUME StoreInv, NEW j \in JobIds, NEW s \in Finished, MayMove(j, s),
         jobs[j].kind = "repair" \/ jobs[j].fetched <= jobs[j].indexed
  PROVE  LET l == jobs[j].lib IN
         library[l].indexed = library[l].fetched
           \/ (jobs[j].kind = "repair" /\ AfterFailed(j))
<1> DEFINE l == jobs[j].lib
<1>1. /\ jobs[j].fetched >= jobs[j].snap /\ jobs[j].indexed >= jobs[j].snap
      /\ \A f \in DOMAIN jobs[j].targets : jobs[j].targets[f].done
      /\ jobs[j].status \in Recoverable
  BY MayMoveFrom DEF MayMove
<1>2. /\ l \in Libraries /\ library[l].fetched \in Nat /\ library[l].indexed \in Nat
      /\ jobs[j].fetched \in Nat /\ jobs[j].indexed \in Nat /\ jobs[j].snap \in Nat
  BY DEF StoreInv, Rows, JobRows, LibraryRows
<1>3. /\ library[l].indexed <= library[l].fetched
      /\ jobs[j].fetched <= library[l].fetched /\ jobs[j].indexed <= library[l].indexed
      /\ \/ jobs[j].fetched = library[l].fetched /\ jobs[j].indexed = library[l].indexed
         \/ library[l].fetched <= jobs[j].snap
  BY <1>1, <1>2, Recoverable \subseteq JobStatuses \ {"deleted"}
     DEF StoreInv, Bounded, Marks, JobStatuses, Recoverable, Finished
<1>4. CASE jobs[j].fetched <= jobs[j].indexed
  BY <1>1, <1>2, <1>3, <1>4
<1>5. CASE jobs[j].kind = "repair" /\ ~(jobs[j].fetched <= jobs[j].indexed)
  BY <1>1, <1>5 DEF StoreInv, RepairMarks
<1> QED BY <1>4, <1>5

(* What a status transaction does to the rows it is not about.             *)
OneMoves(j) ==
  /\ UNCHANGED <<failures, contents, latest>>
  /\ DOMAIN jobs' = JobIds /\ jobs' = [k \in JobIds |-> jobs'[k]]
  /\ \A k \in JobIds \ {j} : jobs'[k] = jobs[k]
  /\ DOMAIN jobs'[j] = JobFields /\ SameWork(j)
  /\ DOMAIN library' = Libraries
  /\ \A l \in Libraries :
       /\ DOMAIN library'[l] = {"mode", "status", "fetched", "indexed"}
       /\ library'[l].mode = library[l].mode
       /\ library'[l].fetched = library[l].fetched /\ library'[l].indexed = library[l].indexed
       /\ l # jobs[j].lib => library'[l].status = library[l].status

(* One job and its library that move make a transaction that only moves    *)
(* statuses.                                                               *)
LEMMA OneMovesIsStatusOnly ==
  ASSUME StoreInv, NEW j \in JobIds, OneMoves(j), JobMoves(j), LibraryMoves(jobs[j].lib),
         jobs[j].status \in Recoverable
  PROVE  StatusOnly
<1>1. Numbered(jobs')
  BY SameNumbers DEF OneMoves, StoreInv, Rows
<1>2. ASSUME NEW k \in JobIds PROVE JobMoves(k)
  <2>1. CASE k = j
    BY <2>1
  <2>2. CASE k # j
    <3>1. jobs'[k] = jobs[k] /\ jobs[k].lib \in Libraries /\ jobs[j].lib \in Libraries
      BY <2>2 DEF OneMoves, StoreInv, Rows, JobRows
    <3>2. jobs[k].status \in Recoverable => library'[jobs[k].lib].status \notin {"ready", "partial"}
      BY <2>2, <3>1, OnlyOneGoes DEF OneMoves, StoreInv, OneJob
    <3>3. DOMAIN jobs[k] = JobFields /\ jobs[k].status \in JobStatuses
          /\ jobs[k].control \in {"none", "pause", "stop"}
          /\ (jobs[k].control # "none" => jobs[k].status = "running")
      BY DEF StoreInv, Rows, JobRows, Bounded
    <3> QED BY <3>1, <3>2, <3>3 DEF JobMoves, SameWork, Ongoing
  <2> QED BY <2>1, <2>2
<1>3. ASSUME NEW l \in Libraries PROVE LibraryMoves(l)
  <2>1. CASE l = jobs[j].lib
    BY <2>1
  <2>2. CASE l # jobs[j].lib
    <3>1. library[l].status \in Statuses
      BY DEF StoreInv, Rows, LibraryRows
    <3> QED BY <2>2, <3>1 DEF OneMoves, LibraryMoves
  <2> QED BY <2>1, <2>2
<1> QED BY <1>1, <1>2, <1>3 DEF StatusOnly, OneMoves, StoreInv, Rows

(* transition_job only moves the status of its job, its waiting and its    *)
(* control request.                                                        *)
LEMMA TransitionMoves ==
  ASSUME StoreInv, NEW j \in JobIds, NEW s, Transition(j, s), latest' = latest,
         s \in Finished => jobs[j].kind = "repair" \/ jobs[j].fetched <= jobs[j].indexed
  PROVE  StatusOnly /\ OneMoves(j) /\ jobs'[j].status = s
<1> DEFINE l == jobs[j].lib
<1>0. JobRows /\ LibraryRows /\ l \in Libraries /\ MayMove(j, s)
  BY DEF StoreInv, Rows, JobRows, Transition
<1>1. OneMoves(j) /\ jobs'[j].status = s
      /\ jobs'[j].control = (IF s = "running" THEN jobs[j].control ELSE "none")
      /\ library'[l].status = LibraryStatus(s)
  <2> DEFINE r == [jobs[j] EXCEPT !.status = s,
                     !.waits = IF s = "waiting_rate_limit" THEN TRUE ELSE @,
                     !.control = IF s = "running" THEN @ ELSE "none"]
  <2>1. jobs' = [jobs EXCEPT ![j] = r]
    BY DEF Transition
  <2>2. /\ DOMAIN r = JobFields /\ r.status = s
        /\ r.control = (IF s = "running" THEN jobs[j].control ELSE "none")
        /\ r.lib = jobs[j].lib /\ r.kind = jobs[j].kind /\ r.start = jobs[j].start
        /\ r.snap = jobs[j].snap /\ r.next = jobs[j].next /\ r.fetched = jobs[j].fetched
        /\ r.indexed = jobs[j].indexed /\ r.targets = jobs[j].targets
    BY <1>0 DEF JobRows, JobFields
  <2> HIDE DEF r
  <2>3. /\ DOMAIN jobs' = JobIds /\ jobs' = [k \in JobIds |-> jobs'[k]] /\ jobs'[j] = r
        /\ \A k \in JobIds \ {j} : jobs'[k] = jobs[k]
    BY <2>1
  <2>4. library' = [library EXCEPT ![l].status = LibraryStatus(s)] /\ UNCHANGED <<failures, contents>>
    BY DEF Transition
  <2> QED BY <1>0, <2>2, <2>3, <2>4 DEF OneMoves, SameWork, LibraryRows
<1>2. JobMoves(j)
  <2>1. jobs[j].control \in {"none", "pause", "stop"}
    BY <1>0 DEF JobRows
  <2>2. s \in Recoverable => LibraryStatus(s) \notin {"ready", "partial"}
    BY Statuses1 DEF Recoverable
  <2>3. s \notin Ongoing =>
          /\ \A f \in DOMAIN jobs[j].targets : jobs[j].targets[f].done
          /\ jobs[j].fetched >= jobs[j].snap
    <3> SUFFICES ASSUME s \notin Ongoing
                 PROVE  /\ \A f \in DOMAIN jobs[j].targets : jobs[j].targets[f].done
                        /\ jobs[j].fetched >= jobs[j].snap
      OBVIOUS
    <3>1. s \in Finished
      BY <1>0, MayMoveFrom DEF Ongoing, JobStatuses
    <3> QED BY <1>0, <3>1 DEF MayMove
  <2>4. jobs[j].status \notin {"failed", "deleted"} \union Finished
    BY <1>0, MayMoveFrom DEF Recoverable, Finished
  <2>5. /\ jobs[j].status \in Recoverable /\ s \in JobStatuses \ {"deleted"}
        /\ s \in Recoverable => jobs[j].status \in Recoverable
    BY <1>0, MayMoveFrom
  <2>6. DOMAIN jobs'[j] = JobFields /\ SameWork(j) /\ jobs'[j].status = s
    BY <1>1 DEF OneMoves
  <2>7. jobs[j].status # "deleted" /\ jobs[j].status # "failed" /\ jobs[j].status \notin Finished
    BY <2>4
  <2>8. jobs'[j].control \in {"none", "pause", "stop"} /\ (jobs'[j].control # "none" => s = "running")
    BY <1>1, <2>1
  <2>9. s \in Recoverable => library'[l].status \notin {"ready", "partial"}
    BY <1>1, <2>2
  <2>10. jobs[j].status \in Ongoing /\ jobs'[j].status \notin Ongoing =>
           /\ \A f \in DOMAIN jobs[j].targets : jobs[j].targets[f].done
           /\ jobs[j].fetched >= jobs[j].snap
    BY <2>3, <2>6
  <2>11. jobs'[j].status \in Recoverable =>
           jobs[j].status \in Recoverable /\ library'[l].status \notin {"ready", "partial"}
    BY <2>5, <2>6, <2>9
  <2>12. /\ jobs'[j].status \in JobStatuses
         /\ jobs'[j].status = "deleted" <=> jobs[j].status = "deleted"
         /\ jobs[j].status = "failed" => jobs'[j].status = "failed"
         /\ jobs[j].status \in Finished => jobs'[j].status \in Finished
         /\ jobs'[j].control # "none" => jobs'[j].status = "running"
    <3>1. s \in JobStatuses /\ s # "deleted"
      BY <2>5
    <3>2. jobs'[j].status = s
      BY <2>6
    <3>3. jobs'[j].status = "deleted" <=> jobs[j].status = "deleted"
      BY <2>7, <3>1, <3>2
    <3>4. jobs'[j].control # "none" => jobs'[j].status = "running"
      BY <2>8, <3>2
    <3> QED BY <2>7, <3>1, <3>2, <3>3, <3>4
  <2> QED BY <2>6, <2>8, <2>10, <2>11, <2>12 DEF JobMoves
<1>3. LibraryMoves(l)
  <2>1. library[l].status # "absent"
    BY <1>0, MayMoveFrom DEF StoreInv, OneJob, Recoverable
  <2>2. LibraryStatus(s) = "ready" => Unresolved(l) = {}
    BY <1>0, Statuses1 DEF MayMove
  <2>3. LibraryStatus(s) \in {"ready", "partial"} =>
          library[l].indexed = library[l].fetched \/ RetriedRepair(l)'
    <3> SUFFICES ASSUME LibraryStatus(s) \in {"ready", "partial"},
                        library[l].indexed # library[l].fetched
                 PROVE  RetriedRepair(l)'
      OBVIOUS
    <3>1. s \in Finished
      BY Statuses1 DEF Finished
    <3>2. jobs[j].kind = "repair" /\ AfterFailed(j) /\ jobs[j].status \in Recoverable
      BY <1>0, <3>1, EndIsIndexed, MayMoveFrom
    <3>3. PICK i \in JobsIn(l, {"failed"}) : jobs[i].kind = "repair" /\ i < j
      BY <3>2 DEF AfterFailed
    <3>4. i \in JobsIn(l, {"failed"})' /\ j \in JobsIn(l, Finished)'
          /\ jobs'[i].kind = "repair" /\ jobs'[j].kind = "repair"
      BY <1>1, <3>1, <3>2, <3>3 DEF OneMoves, JobsIn, SameWork, Recoverable
    <3>5. \A k \in JobsIn(l, JobStatuses)' : k <= j
      BY <1>1, <3>2 DEF OneMoves, JobsIn, SameWork, StoreInv, OneJob
    <3> QED BY <3>3, <3>4, <3>5 DEF RetriedRepair
  <2> QED BY <1>0, <1>1, <2>1, <2>2, <2>3, Statuses1 DEF LibraryMoves, OneMoves
<1> QED BY <1>0, <1>1, <1>2, <1>3, MayMoveFrom, OneMovesIsStatusOnly

(* A row that takes the place of row j and tells of the same work.         *)
LEMMA RowMoves ==
  ASSUME StoreInv, NEW j \in JobIds, NEW r, jobs' = [jobs EXCEPT ![j] = r],
         DOMAIN r = JobFields,
         r.lib = jobs[j].lib, r.kind = jobs[j].kind, r.start = jobs[j].start,
         r.snap = jobs[j].snap, r.next = jobs[j].next, r.fetched = jobs[j].fetched,
         r.indexed = jobs[j].indexed, r.targets = jobs[j].targets,
         r.status \in JobStatuses \ {"deleted"}, r.control \in {"none", "pause", "stop"},
         r.control # "none" => r.status = "running",
         jobs[j].status \in Recoverable, r.status \in Recoverable,
         UNCHANGED <<failures, contents, latest>>,
         \/ library' = library
         \/ /\ library' = [library EXCEPT ![jobs[j].lib].status = LibraryStatus(r.status)]
            /\ r.status \notin Finished
  PROVE  StatusOnly /\ OneMoves(j) /\ jobs'[j].status = r.status
<1> DEFINE l == jobs[j].lib
<1>1. /\ DOMAIN jobs' = JobIds /\ jobs' = [k \in JobIds |-> jobs'[k]] /\ jobs'[j] = r
      /\ \A k \in JobIds \ {j} : jobs'[k] = jobs[k]
  OBVIOUS
<1>2. LibraryRows /\ l \in Libraries /\ library[l].status \notin {"absent", "ready", "partial"}
  BY DEF StoreInv, Rows, JobRows, OneJob, Recoverable
<1>3. OneMoves(j)
  <2>1. \A m \in Libraries :
          /\ DOMAIN library'[m] = {"mode", "status", "fetched", "indexed"}
          /\ library'[m].mode = library[m].mode
          /\ library'[m].fetched = library[m].fetched /\ library'[m].indexed = library[m].indexed
          /\ m # l => library'[m].status = library[m].status
    BY <1>2 DEF LibraryRows
  <2>2. DOMAIN library' = Libraries
    BY <1>2 DEF LibraryRows
  <2> QED BY <1>1, <2>1, <2>2 DEF OneMoves, SameWork
<1>4. library'[l].status \in Statuses \ {"absent", "ready", "partial"}
  <2>1. r.status \notin Finished => LibraryStatus(r.status) \in Statuses \ {"absent", "ready", "partial"}
    BY Statuses1 DEF Finished
  <2> QED BY <1>2, <2>1 DEF LibraryRows
<1>5. JobMoves(j)
  BY <1>1, <1>3, <1>4 DEF OneMoves, JobMoves, SameWork, Recoverable, Finished, Ongoing
<1>6. LibraryMoves(l)
  BY <1>2, <1>3, <1>4 DEF OneMoves, LibraryMoves
<1> QED BY <1>1, <1>3, <1>5, <1>6, OneMovesIsStatusOnly

(* claim_next_job moves a queued job to running.                           *)
LEMMA ClaimMoves ==
  ASSUME StoreInv, NEW j \in JobIds, Claim(j), latest' = latest
  PROVE  /\ StatusOnly /\ OneMoves(j) /\ jobs[j].status = "queued" /\ jobs'[j].status = "running"
<1>1. j \in Queued
  <2>1. Queued \subseteq Nat
    BY NumbersAreNat DEF Queued, StoreInv, Rows
  <2> QED BY <2>1, MinOfNats DEF Claim
<1> DEFINE r == [jobs[j] EXCEPT !.status = "running"]
<1>2. /\ jobs' = [jobs EXCEPT ![j] = r]
      /\ library' = [library EXCEPT ![jobs[j].lib].status = "indexing"]
      /\ UNCHANGED <<failures, contents>>
  BY DEF Claim
<1>3. DOMAIN jobs[j] = JobFields /\ jobs[j].control = "none"
  BY <1>1 DEF StoreInv, Rows, JobRows, Bounded, Queued
<1>4. /\ DOMAIN r = JobFields /\ r.status = "running" /\ r.control = "none"
      /\ r.lib = jobs[j].lib /\ r.kind = jobs[j].kind /\ r.start = jobs[j].start
      /\ r.snap = jobs[j].snap /\ r.next = jobs[j].next /\ r.fetched = jobs[j].fetched
      /\ r.indexed = jobs[j].indexed /\ r.targets = jobs[j].targets
  BY <1>3 DEF JobFields
<1>5. /\ LibraryStatus("running") = "indexing" /\ "running" \notin Finished
      /\ "running" \in Recoverable /\ "running" \in JobStatuses \ {"deleted"}
      /\ "queued" \in Recoverable /\ jobs[j].status = "queued"
  BY <1>1 DEF LibraryStatus, Finished, Recoverable, JobStatuses, Queued
<1> HIDE DEF r
<1> QED BY <1>2, <1>4, <1>5, RowMoves

(* request_job_control leaves a running job running.                       *)
LEMMA ControlMoves ==
  ASSUME StoreInv, NEW j \in JobIds, NEW a \in {"pause", "stop"}, RequestControl(j, a),
         latest' = latest
  PROVE  StatusOnly /\ OneMoves(j) /\ jobs'[j].status = "running"
<1> DEFINE r == [jobs[j] EXCEPT !.control = IF @ = "stop" THEN "stop" ELSE a]
<1>2. /\ jobs' = [jobs EXCEPT ![j] = r] /\ jobs[j].status = "running"
      /\ UNCHANGED <<library, failures, contents>>
  BY DEF RequestControl
<1>3. DOMAIN jobs[j] = JobFields
  BY DEF StoreInv, Rows, JobRows
<1>4. /\ DOMAIN r = JobFields /\ r.status = jobs[j].status /\ r.control \in {"pause", "stop"}
      /\ r.lib = jobs[j].lib /\ r.kind = jobs[j].kind /\ r.start = jobs[j].start
      /\ r.snap = jobs[j].snap /\ r.next = jobs[j].next /\ r.fetched = jobs[j].fetched
      /\ r.indexed = jobs[j].indexed /\ r.targets = jobs[j].targets
  BY <1>3 DEF JobFields
<1>5. "running" \in Recoverable /\ "running" \in JobStatuses \ {"deleted"}
  BY DEF Recoverable, JobStatuses
<1> HIDE DEF r
<1> QED BY <1>2, <1>4, <1>5, RowMoves

(* consume_job_control moves a running job to paused or stopped.           *)
LEMMA ConsumeMoves ==
  ASSUME StoreInv, NEW j \in JobIds, ConsumeControl(j), latest' = latest
  PROVE  StatusOnly /\ OneMoves(j) /\ jobs'[j].status \in Recoverable
<1> DEFINE s == ControlStatus(jobs[j].control)
           r == [jobs[j] EXCEPT !.status = s, !.control = "none"]
<1>2. /\ jobs' = [jobs EXCEPT ![j] = r] /\ jobs[j].status = "running"
      /\ library' = [library EXCEPT ![jobs[j].lib].status = LibraryStatus(s)]
      /\ UNCHANGED <<failures, contents>>
  BY DEF ConsumeControl
<1>3. DOMAIN jobs[j] = JobFields
  BY DEF StoreInv, Rows, JobRows
<1>4. /\ DOMAIN r = JobFields /\ r.status = s /\ r.control = "none"
      /\ r.lib = jobs[j].lib /\ r.kind = jobs[j].kind /\ r.start = jobs[j].start
      /\ r.snap = jobs[j].snap /\ r.next = jobs[j].next /\ r.fetched = jobs[j].fetched
      /\ r.indexed = jobs[j].indexed /\ r.targets = jobs[j].targets
  BY <1>3 DEF JobFields
<1>5. /\ s \in Recoverable /\ s \in JobStatuses \ {"deleted"} /\ s \notin Finished
      /\ "running" \in Recoverable
  BY DEF ControlStatus, Recoverable, JobStatuses, Finished
<1> HIDE DEF r, s
<1> QED BY <1>2, <1>4, <1>5, RowMoves

(* A row that changes in its retries or its waiting only moves no status.  *)
LEMMA SameStatusMoves ==
  ASSUME StoreInv, NEW j \in JobIds, NEW r, jobs' = [jobs EXCEPT ![j] = r],
         DOMAIN r = JobFields,
         r.lib = jobs[j].lib, r.kind = jobs[j].kind, r.start = jobs[j].start,
         r.snap = jobs[j].snap, r.next = jobs[j].next, r.fetched = jobs[j].fetched,
         r.indexed = jobs[j].indexed, r.targets = jobs[j].targets,
         r.status = jobs[j].status, r.control = jobs[j].control,
         UNCHANGED <<library, failures, contents, latest>>
  PROVE  StatusOnly /\ OneMoves(j) /\ jobs'[j].status = jobs[j].status
<1>1. /\ DOMAIN jobs' = JobIds /\ jobs' = [k \in JobIds |-> jobs'[k]] /\ jobs'[j] = r
      /\ \A k \in JobIds \ {j} : jobs'[k] = jobs[k]
  OBVIOUS
<1>2. Numbered(jobs')
  BY <1>1, SameNumbers DEF StoreInv, Rows
<1>3. ASSUME NEW k \in JobIds
      PROVE  DOMAIN jobs'[k] = JobFields /\ SameWork(k) /\ jobs'[k].status = jobs[k].status
               /\ jobs'[k].control = jobs[k].control
  BY <1>1 DEF SameWork, StoreInv, Rows, JobRows
<1>4. ASSUME NEW k \in JobIds PROVE JobMoves(k)
  <2>1. /\ jobs[k].status \in JobStatuses /\ jobs[k].control \in {"none", "pause", "stop"}
        /\ jobs[k].control # "none" => jobs[k].status = "running"
        /\ jobs[k].status \in Recoverable => library[jobs[k].lib].status \notin {"ready", "partial"}
    BY DEF StoreInv, Rows, JobRows, Bounded, OneJob
  <2> QED BY <1>3, <2>1 DEF JobMoves
<1>5. \A l \in Libraries : LibraryMoves(l)
  BY DEF LibraryMoves, StoreInv, Rows, LibraryRows
<1>6. OneMoves(j)
  BY <1>1, <1>3 DEF OneMoves, StoreInv, Rows, LibraryRows
<1> QED BY <1>1, <1>2, <1>4, <1>5, <1>6 DEF StatusOnly, StoreInv, Rows, LibraryRows

(* The end of a rate limit moves no status.                                *)
LEMMA ElapseMoves ==
  ASSUME StoreInv, NEW j \in JobIds, Elapse(j), latest' = latest
  PROVE  StatusOnly /\ OneMoves(j) /\ jobs'[j].status = jobs[j].status
<1> DEFINE r == [jobs[j] EXCEPT !.waits = FALSE]
<1>1. jobs' = [jobs EXCEPT ![j] = r] /\ UNCHANGED <<library, failures, contents>>
  BY DEF Elapse
<1>2. DOMAIN jobs[j] = JobFields
  BY DEF StoreInv, Rows, JobRows
<1>3. /\ DOMAIN r = JobFields /\ r.status = jobs[j].status /\ r.control = jobs[j].control
      /\ r.lib = jobs[j].lib /\ r.kind = jobs[j].kind /\ r.start = jobs[j].start
      /\ r.snap = jobs[j].snap /\ r.next = jobs[j].next /\ r.fetched = jobs[j].fetched
      /\ r.indexed = jobs[j].indexed /\ r.targets = jobs[j].targets
  BY <1>2 DEF JobFields
<1> HIDE DEF r
<1> QED BY <1>1, <1>3, SameStatusMoves

(* record_job_retry moves no status.                                       *)
LEMMA RetryMoves ==
  ASSUME StoreInv, NEW j \in JobIds, RecordRetry(j), latest' = latest
  PROVE  StatusOnly /\ OneMoves(j) /\ jobs'[j].status = jobs[j].status
<1> DEFINE r == [jobs[j] EXCEPT !.retries = @ + 1]
<1>1. jobs' = [jobs EXCEPT ![j] = r] /\ UNCHANGED <<library, failures, contents>>
  BY DEF RecordRetry
<1>2. DOMAIN jobs[j] = JobFields
  BY DEF StoreInv, Rows, JobRows
<1>3. /\ DOMAIN r = JobFields /\ r.status = jobs[j].status /\ r.control = jobs[j].control
      /\ r.lib = jobs[j].lib /\ r.kind = jobs[j].kind /\ r.start = jobs[j].start
      /\ r.snap = jobs[j].snap /\ r.next = jobs[j].next /\ r.fetched = jobs[j].fetched
      /\ r.indexed = jobs[j].indexed /\ r.targets = jobs[j].targets
  BY <1>2 DEF JobFields
<1> HIDE DEF r
<1> QED BY <1>1, <1>3, SameStatusMoves

(* recover_interrupted_jobs only moves statuses.                           *)
LEMMA RecoverMoves ==
  ASSUME StoreInv, RecoverJobs, latest' = latest
  PROVE  StatusOnly
<1> DEFINE status(j) == jobs'[j].status
           waiting(l) == {status(j) : j \in JobsIn(l, JobStatuses)}
                           \intersect {"queued", "paused_user", "stopped"}
<1>1. /\ DOMAIN jobs' = JobIds /\ jobs' = [k \in JobIds |-> jobs'[k]]
      /\ \A j \in JobIds : jobs'[j] = Recovered(jobs[j])
  BY DEF RecoverJobs
<1>2. Numbered(jobs')
  BY <1>1, SameNumbers DEF StoreInv, Rows
<1>3. ASSUME NEW j \in JobIds
      PROVE  /\ DOMAIN jobs'[j] = JobFields /\ SameWork(j)
             /\ jobs'[j].control = "none"
             /\ \/ jobs'[j].status = jobs[j].status
                \/ /\ jobs[j].status \in Recoverable
                   /\ jobs'[j].status \in {"queued", "paused_user", "stopped"}
  <2>1. DOMAIN jobs[j] = JobFields
    BY DEF StoreInv, Rows, JobRows
  <2>2. CASE Interrupted(jobs[j])
    <3>1. jobs'[j] = [jobs[j] EXCEPT !.control = "none", !.status =
            IF jobs[j].control = "none" THEN "queued" ELSE ControlStatus(jobs[j].control)]
      BY <1>1, <2>2 DEF Recovered
    <3>2. jobs[j].status \in Recoverable
      BY <2>2 DEF Interrupted, Recoverable
    <3> QED BY <2>1, <3>1, <3>2 DEF ControlStatus, SameWork, JobFields
  <2>3. CASE ~Interrupted(jobs[j])
    <3>1. jobs'[j] = jobs[j]
      BY <1>1, <2>3 DEF Recovered
    <3>2. jobs[j].control = "none"
      BY <2>3 DEF Interrupted, StoreInv, Bounded
    <3> QED BY <2>1, <3>1, <3>2 DEF SameWork
  <2> QED BY <2>2, <2>3
<1>4. ASSUME NEW l \in Libraries
      PROVE  /\ LibraryMoves(l)
             /\ library'[l].status \in {"ready", "partial"} => library'[l] = library[l]
  <2>1. library'[l] = IF waiting(l) = {} THEN library[l]
                      ELSE [library[l] EXCEPT !.status =
                              LibraryStatus(CHOOSE s \in waiting(l) : TRUE)]
    BY <1>1 DEF RecoverJobs
  <2>2. DOMAIN library[l] = {"mode", "status", "fetched", "indexed"} /\ library[l].status \in Statuses
    BY DEF StoreInv, Rows, LibraryRows
  <2>3. CASE waiting(l) = {}
    BY <2>1, <2>2, <2>3 DEF LibraryMoves
  <2>4. CASE waiting(l) # {}
    <3>1. (CHOOSE s \in waiting(l) : TRUE) \in waiting(l)
      BY <2>4
    <3>2. LibraryStatus(CHOOSE s \in waiting(l) : TRUE) \in {"indexing", "paused", "stopped"}
      BY <3>1 DEF LibraryStatus
    <3>3. library[l].status # "absent"
      <4>1. PICK j \in JobsIn(l, JobStatuses) : status(j) \in {"queued", "paused_user", "stopped"}
        BY <2>4
      <4>2. jobs[j].status # "deleted" /\ jobs[j].lib = l /\ j \in JobIds
        BY <1>3, <4>1 DEF JobsIn, Recoverable
      <4> QED BY <4>2 DEF StoreInv, OneJob
    <3> QED BY <2>1, <2>2, <2>4, <3>2, <3>3 DEF LibraryMoves, Statuses
  <2> QED BY <2>3, <2>4
<1>5. ASSUME NEW j \in JobIds PROVE JobMoves(j)
  <2>1. /\ jobs[j].status \in JobStatuses /\ jobs[j].lib \in Libraries
        /\ jobs[j].status \in Recoverable => library[jobs[j].lib].status \notin {"ready", "partial"}
    BY DEF StoreInv, Rows, JobRows, OneJob
  <2>2. {"queued", "paused_user", "stopped"} \subseteq Recoverable
        /\ Recoverable \intersect ({"failed", "deleted"} \union Finished) = {}
        /\ Recoverable \subseteq JobStatuses
    BY DEF Recoverable, Finished, JobStatuses
  <2> QED BY <1>3, <1>4, <2>1, <2>2 DEF JobMoves, Ongoing
<1>6. DOMAIN library' = Libraries
  BY DEF RecoverJobs
<1> QED BY <1>1, <1>2, <1>4, <1>5, <1>6 DEF StatusOnly, RecoverJobs

-----------------------------------------------------------------------------
(* The transactions in which job j makes progress: its status stays.       *)
Works(j) ==
  /\ DOMAIN jobs' = JobIds /\ Numbered(jobs')
  /\ \A k \in JobIds \ {j} : jobs'[k] = jobs[k]
  /\ DOMAIN jobs'[j] = JobFields
  /\ jobs'[j].lib = jobs[j].lib /\ jobs'[j].kind = jobs[j].kind
  /\ jobs'[j].status = jobs[j].status /\ jobs'[j].control = jobs[j].control
  /\ jobs'[j].start = jobs[j].start /\ jobs'[j].snap = jobs[j].snap
  /\ DOMAIN library' = Libraries
  /\ \A l \in Libraries \ {jobs[j].lib} : library'[l] = library[l]
  /\ DOMAIN library'[jobs[j].lib] = {"mode", "status", "fetched", "indexed"}
  /\ library'[jobs[j].lib].mode = library[jobs[j].lib].mode
  /\ library'[jobs[j].lib].status = library[jobs[j].lib].status
  /\ latest' = latest

(* Where no status moves, the sets of jobs by status and the failed        *)
(* repairs among them stay.                                                *)
LEMMA SameStatuses ==
  ASSUME DOMAIN jobs' = JobIds,
         \A k \in JobIds : /\ jobs'[k].lib = jobs[k].lib /\ jobs'[k].kind = jobs[k].kind
                           /\ jobs'[k].status = jobs[k].status
  PROVE  /\ \A l, S : JobsIn(l, S)' = JobsIn(l, S)
         /\ \A l : RetriedRepair(l)' <=> RetriedRepair(l)
         /\ \A k \in JobIds : AfterFailed(k)' <=> AfterFailed(k)
<1>1. ASSUME NEW l, NEW S PROVE JobsIn(l, S)' = JobsIn(l, S)
  BY DEF JobsIn
<1>2. ASSUME NEW l PROVE RetriedRepair(l)' <=> RetriedRepair(l)
  <2>1. /\ JobsIn(l, {"failed"})' = JobsIn(l, {"failed"})
        /\ JobsIn(l, Finished)' = JobsIn(l, Finished)
        /\ JobsIn(l, JobStatuses)' = JobsIn(l, JobStatuses)
    BY <1>1
  <2>2. JobsIn(l, {"failed"}) \subseteq JobIds /\ JobsIn(l, Finished) \subseteq JobIds
    BY DEF JobsIn
  <2> QED BY <2>1, <2>2 DEF RetriedRepair
<1>3. ASSUME NEW k \in JobIds PROVE AfterFailed(k)' <=> AfterFailed(k)
  <2>1. JobsIn(jobs[k].lib, {"failed"})' = JobsIn(jobs[k].lib, {"failed"})
    BY <1>1
  <2>2. JobsIn(jobs[k].lib, {"failed"}) \subseteq JobIds
    BY DEF JobsIn
  <2> QED BY <2>1, <2>2 DEF AfterFailed
<1> QED BY <1>1, <1>2, <1>3

(* A transaction that works for a running job moves no status, and that    *)
(* library has not ended.                                                  *)
LEMMA WorkFrames ==
  ASSUME StoreInv, NEW j \in JobIds, Works(j), jobs[j].status = "running"
  PROVE  /\ \A l, S : JobsIn(l, S)' = JobsIn(l, S)
         /\ \A k \in JobIds : AfterFailed(k)' <=> AfterFailed(k)
         /\ OneJob' /\ EndedIsIndexed'
         /\ library[jobs[j].lib].status \notin {"absent", "ready", "partial"}
         /\ jobs[j].lib \in Libraries
<1>1. \A k \in JobIds : /\ jobs'[k].lib = jobs[k].lib /\ jobs'[k].kind = jobs[k].kind
                        /\ jobs'[k].status = jobs[k].status
  BY DEF Works
<1>2. /\ \A l, S : JobsIn(l, S)' = JobsIn(l, S)
      /\ \A l : RetriedRepair(l)' <=> RetriedRepair(l)
      /\ \A k \in JobIds : AfterFailed(k)' <=> AfterFailed(k)
  BY <1>1, SameStatuses DEF Works
<1>3. jobs[j].lib \in Libraries
  BY DEF StoreInv, Rows, JobRows
<1>4. \A l \in Libraries : library'[l].status = library[l].status
  BY <1>3 DEF Works
<1>5. OneJob'
  BY <1>1, <1>4 DEF Works, StoreInv, OneJob, Rows, JobRows
<1>6. library[jobs[j].lib].status \notin {"absent", "ready", "partial"}
  BY DEF StoreInv, OneJob, Recoverable
<1>7. EndedIsIndexed'
  BY <1>2, <1>3, <1>4, <1>6 DEF Works, StoreInv, EndedIsIndexed
<1> QED BY <1>2, <1>3, <1>5, <1>6, <1>7

(* What a batch adds to the contents of library l.                         *)
Reads(l, read) ==
  /\ DOMAIN held' = Libraries /\ DOMAIN revisit' = Libraries
  /\ held' = [m \in Libraries |-> held'[m]] /\ revisit' = [m \in Libraries |-> revisit'[m]]
  /\ \A m \in Libraries \ {l} : held'[m] = held[m] /\ revisit'[m] = revisit[m]
  /\ held'[l] = held[l] \union (Stores(library[l].mode) \X read)
  /\ revisit'[l] = revisit[l] \ read

(* What commit_fetched_batch writes.                                       *)
LEMMA CommitEffect ==
  ASSUME StoreInv, NEW j \in JobIds, NEW l, l = jobs[j].lib, NEW last \in Nat, NEW read, NEW target,
         CommitFetched(j, last, read, target), latest' = latest
  PROVE  LET fetched == Max({jobs[j].fetched, last}) IN
            /\ Works(j) /\ failures' = failures /\ jobs[j].status = "running"
            /\ last <= jobs[j].snap
            /\ jobs'[j].next = Max({jobs[j].next, last + 1})
            /\ jobs'[j].fetched = fetched /\ jobs'[j].indexed = jobs[j].indexed
            /\ jobs'[j].targets = [f \in DOMAIN jobs[j].targets |->
                 IF f = target THEN [next |-> last + 1, done |-> FALSE] ELSE jobs[j].targets[f]]
            /\ library'[l].fetched = Max({library[l].fetched, fetched})
            /\ library'[l].indexed = library[l].indexed
            /\ Reads(l, read)
<1> DEFINE fetched == Max({jobs[j].fetched, last})
           tg == [f \in DOMAIN jobs[j].targets |->
                   IF f = target THEN [next |-> last + 1, done |-> FALSE] ELSE jobs[j].targets[f]]
           r == [jobs[j] EXCEPT !.next = Max({@, last + 1}), !.fetched = fetched,
                                !.retries = 0, !.targets = tg]
           q == [library[l] EXCEPT !.fetched = Max({@, fetched})]
<1>1. /\ jobs[j].status = "running" /\ last <= jobs[j].snap
      /\ jobs' = [jobs EXCEPT ![j] = r]
      /\ library' = [library EXCEPT ![l] = q]
      /\ held' = [held EXCEPT ![l] = @ \union (Stores(library[l].mode) \X read)]
      /\ revisit' = [revisit EXCEPT ![l] = @ \ read]
      /\ failures' = failures
  BY DEF CommitFetched
<1>2. /\ DOMAIN jobs[j] = JobFields /\ l \in Libraries /\ DOMAIN library = Libraries
      /\ DOMAIN library[l] = {"mode", "status", "fetched", "indexed"}
      /\ DOMAIN held = Libraries /\ DOMAIN revisit = Libraries /\ Numbered(jobs)
  BY DEF StoreInv, Rows, JobRows, LibraryRows
<1>3. /\ DOMAIN r = JobFields /\ r.lib = jobs[j].lib /\ r.kind = jobs[j].kind
      /\ r.status = jobs[j].status /\ r.control = jobs[j].control
      /\ r.start = jobs[j].start /\ r.snap = jobs[j].snap
      /\ r.next = Max({jobs[j].next, last + 1}) /\ r.fetched = fetched
      /\ r.indexed = jobs[j].indexed /\ r.targets = tg
  BY <1>2 DEF JobFields
<1>4. /\ DOMAIN q = {"mode", "status", "fetched", "indexed"} /\ q.mode = library[l].mode
      /\ q.status = library[l].status /\ q.indexed = library[l].indexed
      /\ q.fetched = Max({library[l].fetched, fetched})
  BY <1>2
<1> HIDE DEF r, q, tg, fetched
<1>5. /\ DOMAIN jobs' = JobIds /\ jobs' = [k \in JobIds |-> jobs'[k]] /\ jobs'[j] = r
      /\ \A k \in JobIds \ {j} : jobs'[k] = jobs[k]
      /\ DOMAIN library' = Libraries /\ library'[l] = q
      /\ \A m \in Libraries \ {l} : library'[m] = library[m]
  BY <1>1, <1>2
<1>6. Works(j)
  BY <1>2, <1>3, <1>4, <1>5, SameNumbers DEF Works
<1>7. Reads(l, read)
  BY <1>1, <1>2 DEF Reads
<1> QED BY <1>1, <1>3, <1>4, <1>5, <1>6, <1>7 DEF tg, fetched

(* commit_fetched_batch keeps the tables correct when the messages up to   *)
(* its end are read or recorded as failed, and covers that far.            *)
LEMMA CommitKeeps ==
  ASSUME StoreInv, NEW j \in JobIds, NEW l, l = jobs[j].lib,
         NEW last \in Nat, NEW read \in SUBSET Messages,
         NEW target \in {0} \union DOMAIN jobs[j].targets,
         CommitFetched(j, last, read, target), latest' = latest,
         \A i \in read : i <= last,
         \A i \in 1 .. last : \/ i \in Kept(l) \union read
                              \/ \E f \in Unresolved(l) : i \in RangeOf(f),
         target = 0 =>
           /\ jobs[j].kind # "repair"
           /\ \A i \in jobs[j].next .. last :
                i \in revisit[l] => i \in read \/ FreshlyLost(l, i),
         target # 0 =>
           /\ ~jobs[j].targets[target].done /\ last <= failures[target].last
           /\ failures[target].first .. last \subseteq Kept(l) \union read
           /\ jobs[j].targets[target].next .. last \subseteq read
  PROVE  StoreInv' /\ Covered(l, last)'
         /\ \A m \in Libraries : Grows(m)
<1> USE DEF StoreInv
<1> DEFINE fetched == Max({jobs[j].fetched, last})
<1>1. /\ Works(j) /\ failures' = failures /\ jobs[j].status = "running"
      /\ last <= jobs[j].snap
      /\ jobs'[j].next = Max({jobs[j].next, last + 1})
      /\ jobs'[j].fetched = fetched /\ jobs'[j].indexed = jobs[j].indexed
      /\ jobs'[j].targets = [f \in DOMAIN jobs[j].targets |->
           IF f = target THEN [next |-> last + 1, done |-> FALSE] ELSE jobs[j].targets[f]]
      /\ library'[l].fetched = Max({library[l].fetched, fetched})
      /\ library'[l].indexed = library[l].indexed
      /\ Reads(l, read)
  BY l = jobs[j].lib, CommitEffect
<1>2. /\ Rows /\ l \in Libraries /\ held \in [Libraries -> SUBSET (Contents \X Messages)]
      /\ revisit \in [Libraries -> SUBSET Messages]
      /\ jobs[j].next \in Nat \ {0} /\ jobs[j].fetched \in Nat /\ jobs[j].indexed \in Nat
      /\ jobs[j].snap \in Nat /\ jobs[j].kind \in Kinds /\ library[l].fetched \in Nat
      /\ library[l].indexed \in Nat /\ latest[l] \in Nat
  BY DEF Rows, JobRows, LibraryRows, Messages
<1>3. /\ fetched \in {jobs[j].fetched, last} /\ jobs[j].fetched <= fetched /\ last <= fetched
      /\ fetched \in Nat
  BY <1>2, MaxOfTwo
<1>4. /\ jobs'[j].next \in {jobs[j].next, last + 1} /\ jobs'[j].next \in Nat \ {0}
  <2>1. last + 1 \in Nat \ {0} /\ jobs[j].next \in Nat
    BY <1>2
  <2>2. Max({jobs[j].next, last + 1}) \in {jobs[j].next, last + 1}
    BY <2>1, MaxOfTwo
  <2> QED BY <1>1, <1>2, <2>1, <2>2
<1> HIDE DEF fetched
<1>5. /\ library'[l].fetched \in {library[l].fetched, fetched} /\ library'[l].fetched \in Nat
      /\ library[l].fetched <= library'[l].fetched /\ fetched <= library'[l].fetched
  <2>1. /\ Max({library[l].fetched, fetched}) \in {library[l].fetched, fetched}
        /\ library[l].fetched <= Max({library[l].fetched, fetched})
        /\ fetched <= Max({library[l].fetched, fetched})
    <3>1. library[l].fetched \in Nat /\ fetched \in Nat
      BY <1>2, <1>3
    <3> QED BY <3>1, MaxOfTwo
  <2> QED BY <1>1, <1>2, <1>3, <2>1
<1>6. /\ \A m, S : JobsIn(m, S)' = JobsIn(m, S)
      /\ \A k \in JobIds : AfterFailed(k)' <=> AfterFailed(k)
      /\ OneJob' /\ EndedIsIndexed'
      /\ library[l].status \notin {"absent", "ready", "partial"}
  BY <1>1, WorkFrames
<1>7. /\ \A m : Unresolved(m)' = Unresolved(m) /\ \A f : RangeOf(f)' = RangeOf(f)
  BY <1>1 DEF Unresolved, RangeOf
<1>8. \A m \in Libraries : Kept(m) \subseteq Kept(m)'
  <2>1. ASSUME NEW m \in Libraries PROVE library'[m].mode = library[m].mode
    BY <1>1 DEF Works
  <2> QED BY <1>1, <1>2, <2>1 DEF Kept, Reads
<1>14. Kept(l) \union read \subseteq Kept(l)'
  <2>1. library'[l].mode = library[l].mode
    BY <1>1 DEF Works
  <2>2. \A i \in read : i \in Kept(l)'
    BY <1>1, <2>1 DEF Kept, Reads
  <2> QED BY <1>2, <1>8, <2>2
<1>10. Covered(l, last)'
  BY <1>7, <1>14 DEF Covered
<1>11. 0 \notin FailureIds /\ DOMAIN jobs[j].targets \subseteq FailureIds
  BY <1>2, NumbersAreNat DEF Rows, JobRows
<1>12. \A f \in DOMAIN jobs[j].targets :
         \/ f # target /\ jobs'[j].targets[f] = jobs[j].targets[f]
         \/ /\ f = target /\ DOMAIN jobs'[j].targets[f] = {"next", "done"}
            /\ jobs'[j].targets[f].next = last + 1 /\ jobs'[j].targets[f].done = FALSE
  BY <1>1
<1>13. DOMAIN jobs'[j].targets = DOMAIN jobs[j].targets
  BY <1>1
<1>15. ASSUME NEW m \in Libraries, NEW i \in revisit'[m], FreshlyLost(m, i)
       PROVE  FreshlyLost(m, i)'
  <2>1. PICK f \in Unresolved(m) : i \in RangeOf(f) /\ Fresh(f, i)
    BY <1>15 DEF FreshlyLost
  <2>2. i \in Nat /\ i \in Messages
    BY <1>1, <1>2 DEF Reads, Messages
  <2>3. ASSUME NEW k \in JobIds, jobs'[k].status # "deleted", f \in DOMAIN jobs'[k].targets
        PROVE  jobs'[k].targets[f].next <= i
    <3>1. CASE k # j
      BY <1>1, <2>1, <2>3, <3>1 DEF Works, Fresh
    <3>2. CASE k = j /\ f # target
      <4>1. f \in DOMAIN jobs[j].targets /\ jobs'[j].targets[f] = jobs[j].targets[f]
        BY <1>12, <1>13, <2>3, <3>2
      <4>2. jobs[j].status # "deleted"
        BY <1>1
      <4> QED BY <2>1, <3>2, <4>1, <4>2 DEF Fresh
    <3>3. CASE k = j /\ f = target
      <4>0. f \in DOMAIN jobs[j].targets /\ f \in FailureIds
        BY <1>11, <1>13, <2>3, <3>3
      <4>1. target # 0 /\ f \in DOMAIN jobs[j].targets /\ m = l
        <5>1. target # 0
          BY <1>11, <3>3, <4>0
        <5>2. failures[f].lib = l
          BY <1>1, <4>0 DEF Cursors
        <5>3. failures[f].lib = m
          BY <2>1 DEF Unresolved
        <5> QED BY <4>0, <5>1, <5>2, <5>3
      <4>2. jobs[j].targets[f].next <= i /\ jobs[j].targets[f].next \in Nat
        BY <1>1, <1>2, <2>1, <4>1 DEF Fresh, Rows, JobRows
      <4>3. i \notin read
        BY <1>1, <4>1 DEF Reads
      <4>4. ~(i <= last)
        BY <2>2, <3>3, <4>1, <4>2, <4>3
      <4>5. last + 1 <= i
        BY <2>2, <4>4
      <4> QED BY <1>12, <3>3, <4>1, <4>5
    <3> QED BY <3>1, <3>2, <3>3
  <2>4. Fresh(f, i)'
    BY <1>1, <2>3 DEF Fresh, Works
  <2> QED BY <1>7, <2>1, <2>4 DEF FreshlyLost
<1>9. \A m \in Libraries : Grows(m)
  BY <1>7, <1>8, <1>15 DEF Grows
<1>20. Rows'
  <2>1. LibraryRows'
    BY <1>1, <1>2, <1>5 DEF Works, Rows, LibraryRows
  <2>2. JobRows'
    <3>0. \A f \in DOMAIN jobs[j].targets :
            /\ DOMAIN jobs[j].targets[f] = {"next", "done"}
            /\ jobs[j].targets[f].next \in Nat \ {0}
      BY <1>2 DEF Rows, JobRows
    <3>1. \A f \in DOMAIN jobs'[j].targets :
            /\ DOMAIN jobs'[j].targets[f] = {"next", "done"}
            /\ jobs'[j].targets[f].next \in Nat \ {0}
      BY <1>2, <1>12, <1>13, <3>0
    <3>2. ASSUME NEW k \in JobIds, k # j PROVE jobs'[k] = jobs[k]
      BY <1>1, <3>2 DEF Works
    <3>3. jobs[j].status \in JobStatuses /\ jobs[j].control \in {"none", "pause", "stop"}
          /\ jobs[j].start \in Nat \ {0} /\ (jobs[j].kind # "repair" => DOMAIN jobs[j].targets = {})
      BY <1>2 DEF Rows, JobRows
    <3> QED BY <1>1, <1>2, <1>3, <1>4, <1>11, <1>13, <3>1, <3>2, <3>3 DEF Works, Rows, JobRows
  <2>3. FailureRows'
    BY <1>1, <1>2 DEF Works, Rows, FailureRows
  <2>4. /\ held' \in [Libraries -> SUBSET (Contents \X Messages)]
        /\ revisit' \in [Libraries -> SUBSET Messages]
    BY <1>1, <1>2 DEF Reads, Stores
  <2> QED BY <1>1, <1>2, <2>1, <2>2, <2>3, <2>4 DEF Works, Rows
<1>21. Bounded'
  <2>1. ASSUME NEW m \in Libraries
        PROVE  library'[m].indexed <= library'[m].fetched /\ library'[m].fetched <= latest'[m]
    <3>1. library[m].indexed <= library[m].fetched /\ library[m].fetched <= latest[m]
      BY DEF Bounded
    <3>2. CASE m = l
      <4>1. jobs[j].snap <= latest[l] /\ jobs[j].fetched <= library[l].fetched
        BY <1>1 DEF Bounded, Marks
      <4> QED BY <1>1, <1>2, <1>3, <1>5, <3>1, <3>2, <4>1 DEF Works
    <3>3. CASE m # l
      BY <1>1, <3>1, <3>3 DEF Works
    <3> QED BY <3>2, <3>3
  <2>2. ASSUME NEW k \in JobIds
        PROVE  /\ jobs'[k].indexed <= jobs'[k].fetched
               /\ jobs'[k].snap <= latest'[jobs'[k].lib]
               /\ jobs'[k].control # "none" => jobs'[k].status = "running"
    <3>1. /\ jobs[k].indexed <= jobs[k].fetched /\ jobs[k].snap <= latest[jobs[k].lib]
          /\ jobs[k].control # "none" => jobs[k].status = "running"
      BY DEF Bounded
    <3>2. CASE k = j
      BY <1>1, <1>2, <1>3, <3>1, <3>2 DEF Works
    <3>3. CASE k # j
      BY <1>1, <3>1, <3>3 DEF Works
    <3> QED BY <3>2, <3>3
  <2> QED BY <1>1, <2>1, <2>2 DEF Bounded, Works
<1>22. NothingAbsent'
  BY <1>1, <1>6 DEF NothingAbsent, Works, Reads
<1>29. HeldBelow'
  <2> SUFFICES ASSUME NEW m \in Libraries
               PROVE  /\ held'[m] \subseteq Contents \X (1 .. library'[m].fetched)
                      /\ revisit'[m] \subseteq 1 .. library'[m].fetched
    BY DEF HeldBelow
  <2>1. held[m] \subseteq Contents \X (1 .. library[m].fetched)
        /\ revisit[m] \subseteq 1 .. library[m].fetched
    BY DEF HeldBelow
  <2>2. CASE m # l
    BY <1>1, <2>1, <2>2 DEF Works, Reads
  <2>3. CASE m = l
    <3>1. 1 .. library[l].fetched \subseteq 1 .. library'[l].fetched
      BY <1>2, <1>5
    <3>2. read \subseteq 1 .. library'[l].fetched
      <4>1. \A i \in read : i \in Nat \ {0} /\ i <= last
        <5>1. \A i \in Messages : i \in Nat \ {0}
          BY ScanStoreAssumption DEF Messages
        <5> QED BY <5>1
      <4>2. last <= library'[l].fetched /\ library'[l].fetched \in Nat
        BY <1>3, <1>5
      <4> QED BY <4>1, <4>2
    <3>3. Stores(library[l].mode) \subseteq Contents
      BY DEF Stores
    <3>4. held'[m] = held[m] \union (Stores(library[l].mode) \X read)
          /\ revisit'[m] = revisit[m] \ read
      BY <1>1, <2>3 DEF Reads
    <3>5. revisit'[m] \subseteq 1 .. library'[l].fetched
      BY <2>1, <2>3, <3>1, <3>4
    <3>6. held[m] \subseteq Contents \X (1 .. library'[l].fetched)
      BY <2>1, <2>3, <3>1
    <3>7. Stores(library[l].mode) \X read \subseteq Contents \X (1 .. library'[l].fetched)
      BY <3>2, <3>3
    <3> QED BY <2>3, <3>4, <3>5, <3>6, <3>7
  <2> QED BY <2>2, <2>3
<1>30. NextPastFetched'
  <2>1. jobs'[j].fetched < jobs'[j].next
    <3>1. jobs[j].fetched < jobs[j].next
      BY <1>1 DEF NextPastFetched
    <3>2. jobs'[j].next = IF jobs[j].next <= last + 1 THEN last + 1 ELSE jobs[j].next
      BY <1>1, <1>2, MaxOfTwo, last + 1 \in Nat
    <3>3. jobs'[j].fetched = IF jobs[j].fetched <= last THEN last ELSE jobs[j].fetched
      BY <1>1, <1>2, MaxOfTwo DEF fetched
    <3> QED BY <1>2, <3>1, <3>2, <3>3
  <2>2. \A k \in JobIds \ {j} : jobs'[k] = jobs[k]
    BY <1>1 DEF Works
  <2> QED BY <1>1, <2>1, <2>2 DEF NextPastFetched, Works
<1>31. Revisits'
  <2> SUFFICES ASSUME NEW m \in Libraries, NEW i \in revisit'[m]
               PROVE  AwaitsRevisit(m, i, Ongoing)' \/ FreshlyLost(m, i)'
    BY DEF Revisits
  <2>1. i \in revisit[m] /\ i \in Nat
    BY <1>1, <1>2 DEF Reads, Messages
  <2>2. CASE FreshlyLost(m, i)
    BY <1>15, <2>2
  <2>3. CASE AwaitsRevisit(m, i, Ongoing)
    <3>1. PICK k \in JobsIn(m, Ongoing) :
            jobs[k].kind = "full" /\ jobs[k].next <= i /\ i <= jobs[k].snap
      BY <2>3 DEF AwaitsRevisit
    <3>2. k \in JobIds /\ k \in JobsIn(m, Ongoing)' /\ jobs[k].lib = m
      BY <1>6, <3>1 DEF JobsIn
    <3>3. CASE k # j
      <4>1. jobs'[k] = jobs[k]
        BY <1>1, <3>2, <3>3 DEF Works
      <4> QED BY <3>1, <3>2, <4>1 DEF AwaitsRevisit
    <3>4. CASE k = j /\ i <= last
      <4>1. target = 0 /\ m = l
        BY <1>2, <3>1, <3>2, <3>4 DEF Rows, JobRows
      <4>2. i \in jobs[j].next .. last
        BY <1>2, <2>1, <3>1, <3>4
      <4>3. i \notin read
        BY <1>1, <4>1 DEF Reads
      <4> QED BY <1>15, <2>1, <4>1, <4>2, <4>3
    <3>5. CASE k = j /\ ~(i <= last)
      <4>1. last + 1 <= i /\ jobs'[j].next <= i
        BY <1>2, <1>4, <2>1, <3>1, <3>5
      <4>2. jobs'[j].kind = "full" /\ i <= jobs'[j].snap
        BY <1>1, <3>1, <3>5 DEF Works
      <4> QED BY <3>2, <3>5, <4>1, <4>2 DEF AwaitsRevisit
    <3> QED BY <3>3, <3>4, <3>5
  <2> QED BY <2>1, <2>2, <2>3 DEF Revisits
<1>23. Coverage'
  <2>1. ASSUME NEW m \in Libraries PROVE Covered(m, library[m].fetched)'
    <3>1. Covered(m, library[m].fetched)
      BY DEF Coverage
    <3>2. Covered(l, jobs[j].fetched)
      BY <1>1 DEF Coverage
    <3>3. CASE m = l
      BY <1>2, <1>3, <1>5, <1>9, <1>10, <3>1, <3>2, <3>3, CoveredGrows
    <3>4. CASE m # l
      BY <1>1, <1>9, <3>1, <3>4, CoveredGrows DEF Works
    <3> QED BY <3>3, <3>4
  <2>2. ASSUME NEW k \in JobIds, jobs[k].status # "deleted"
        PROVE  /\ Covered(jobs[k].lib, jobs[k].start - 1)'
               /\ Covered(jobs[k].lib, jobs[k].next - 1)'
               /\ Covered(jobs[k].lib, jobs[k].fetched)'
    <3>1. /\ Covered(jobs[k].lib, jobs[k].start - 1) /\ Covered(jobs[k].lib, jobs[k].next - 1)
          /\ Covered(jobs[k].lib, jobs[k].fetched) /\ jobs[k].lib \in Libraries
      BY <2>2 DEF Coverage, Rows, JobRows
    <3>2. CASE k = j
      <4>1. jobs'[j].next - 1 \in {jobs[j].next - 1, last}
        BY <1>2, <1>4
      <4> QED BY <1>1, <1>3, <1>9, <1>10, <3>1, <3>2, <4>1, CoveredGrows DEF Works
    <3>3. CASE k # j
      BY <1>1, <1>9, <3>1, <3>3, CoveredGrows DEF Works
    <3> QED BY <3>2, <3>3
  <2>3. \A m \in Libraries : \A f \in Unresolved(m)' : Covered(m, failures[f].last)'
    BY <1>1, <1>7, <1>9, CoveredGrows DEF Coverage
  <2> QED BY <1>1, <2>1, <2>2, <2>3 DEF Coverage, Works
<1>24. Cursors'
  <2> SUFFICES ASSUME NEW k \in JobIds, jobs'[k].status # "deleted",
                      NEW f \in DOMAIN jobs'[k].targets
               PROVE  /\ failures[f].lib = jobs'[k].lib
                      /\ failures[f].status \in {"repairing", "resolved"}
                      /\ failures[f].first .. jobs'[k].targets[f].next - 1 \subseteq Kept(jobs[k].lib)'
                      /\ jobs'[k].status \in Recoverable /\ ~jobs'[k].targets[f].done
                           => failures[f].status = "repairing"
    BY <1>1 DEF Cursors, Works
  <2>1. CASE k = j
    <3>0. f \in DOMAIN jobs[j].targets /\ jobs[j].status = "running"
      BY <1>1, <1>13, <2>1
    <3>1. /\ failures[f].lib = l /\ failures[f].status \in {"repairing", "resolved"}
          /\ failures[f].first .. jobs[j].targets[f].next - 1 \subseteq Kept(l)
          /\ ~jobs[j].targets[f].done => failures[f].status = "repairing"
      BY <3>0 DEF Cursors, Recoverable
    <3>4. jobs'[j].lib = l
      BY <1>1 DEF Works
    <3>2. CASE f # target
      <4>1. jobs'[j].targets[f] = jobs[j].targets[f] /\ Kept(l) \subseteq Kept(l)'
        BY <1>2, <1>8, <1>12, <3>0, <3>2
      <4> QED BY <2>1, <3>1, <3>4, <4>1
    <3>3. CASE f = target
      <4>1. target # 0
        BY <1>11, <1>13, <2>1, <3>3
      <4>2. jobs'[j].targets[f].next - 1 = last
        BY <1>12, <1>13, <2>1, <3>3
      <4>3. failures[f].first .. last \subseteq Kept(l)'
        BY <1>14, <3>3, <4>1
      <4>4. ~jobs[j].targets[f].done
        BY <3>3, <4>1
      <4> QED BY <2>1, <3>1, <3>4, <4>2, <4>3, <4>4
    <3> QED BY <3>2, <3>3
  <2>2. CASE k # j
    <3>1. jobs'[k] = jobs[k] /\ jobs[k].lib \in Libraries
      BY <1>1, <1>2, <2>2 DEF Works, Rows, JobRows
    <3> QED BY <1>8, <3>1 DEF Cursors
  <2> QED BY <2>1, <2>2
<1>25. Marks'
  <2> SUFFICES ASSUME NEW k \in JobIds
               PROVE  LET m == jobs'[k].lib IN
                 /\ jobs'[k].status # "deleted" =>
                      jobs'[k].fetched <= library'[m].fetched /\ jobs'[k].indexed <= library'[m].indexed
                 /\ jobs'[k].status \in Recoverable =>
                      \/ jobs'[k].fetched = library'[m].fetched /\ jobs'[k].indexed = library'[m].indexed
                      \/ library'[m].fetched <= jobs'[k].snap
    BY <1>1 DEF Marks, Works
  <2>1. LET m == jobs[k].lib IN
          /\ m \in Libraries /\ library[m].fetched \in Nat /\ jobs[k].fetched \in Nat
          /\ jobs[k].status # "deleted" =>
               jobs[k].fetched <= library[m].fetched /\ jobs[k].indexed <= library[m].indexed
          /\ jobs[k].status \in Recoverable =>
               \/ jobs[k].fetched = library[m].fetched /\ jobs[k].indexed = library[m].indexed
               \/ library[m].fetched <= jobs[k].snap
    BY DEF Marks, Rows, JobRows, LibraryRows
  <2>2. CASE k = j
    <3>1. library'[l].fetched = Max({library[l].fetched, fetched})
          /\ fetched = Max({jobs[j].fetched, last})
      BY <1>1 DEF fetched
    <3>2. library'[l].fetched = (IF library[l].fetched <= fetched THEN fetched ELSE library[l].fetched)
      BY <1>2, <1>3, <3>1, MaxOfTwo
    <3> QED BY <1>1, <1>2, <1>3, <2>1, <2>2, <3>2 DEF Works, Recoverable
  <2>3. CASE k # j /\ jobs[k].lib = l
    <3>1. jobs[k].status \notin Recoverable
      BY <1>1, <2>3, OnlyOneGoes DEF Recoverable
    <3> QED BY <1>1, <1>2, <1>5, <2>1, <2>3, <3>1 DEF Works
  <2>4. CASE k # j /\ jobs[k].lib # l
    BY <1>1, <2>1, <2>4 DEF Works
  <2> QED BY <2>2, <2>3, <2>4
<1>26. RepairMarks'
  <2> SUFFICES ASSUME NEW k \in JobIds, jobs'[k].kind = "repair", jobs'[k].status \in Recoverable,
                      ~AfterFailed(k)'
               PROVE  \/ jobs'[k].fetched <= jobs'[k].indexed
                      \/ \E f \in DOMAIN jobs'[k].targets :
                           ~jobs'[k].targets[f].done /\ jobs'[k].fetched <= failures[f].last
    BY <1>1 DEF RepairMarks, Works
  <2>1. /\ jobs[k].kind = "repair"
        /\ \/ jobs[k].fetched <= jobs[k].indexed
           \/ \E f \in DOMAIN jobs[k].targets :
                ~jobs[k].targets[f].done /\ jobs[k].fetched <= failures[f].last
    BY <1>1, <1>6 DEF RepairMarks, Works
  <2>2. CASE k # j
    BY <1>1, <2>1, <2>2 DEF Works
  <2>3. CASE k = j /\ fetched = jobs[j].fetched
    <3>1. CASE jobs[j].fetched <= jobs[j].indexed
      BY <1>1, <2>3, <3>1
    <3>2. CASE \E f \in DOMAIN jobs[j].targets :
                 ~jobs[j].targets[f].done /\ jobs[j].fetched <= failures[f].last
      <4>1. PICK f \in DOMAIN jobs[j].targets :
              ~jobs[j].targets[f].done /\ jobs[j].fetched <= failures[f].last
        BY <3>2
      <4>2. ~jobs'[j].targets[f].done
        BY <1>12, <4>1
      <4> QED BY <1>1, <1>13, <2>3, <4>1, <4>2
    <3> QED BY <2>1, <2>3, <3>1, <3>2
  <2>4. CASE k = j /\ fetched # jobs[j].fetched
    <3>1. fetched = last
      BY <1>3, <2>4
    <3>2. target # 0
      BY <2>1, <2>4
    <3> QED BY <1>1, <1>12, <1>13, <2>4, <3>1, <3>2
  <2> QED BY <2>2, <2>3, <2>4
<1>27. ReadyIsRepaired'
  BY <1>1, <1>6, <1>7 DEF ReadyIsRepaired, Works
<1>28. NoFailureStranded'
  <2> SUFFICES ASSUME NEW m \in Libraries, NEW f \in Unresolved(m),
                      failures[f].status = "repairing"
               PROVE  \E k \in JobsIn(m, Ongoing)' : f \in Unfinished(k)'
    BY <1>1, <1>7 DEF NoFailureStranded, Ongoing
  <2>1. PICK k \in JobsIn(m, Ongoing) : f \in Unfinished(k)
    BY DEF NoFailureStranded, Ongoing
  <2>2. f \in Unfinished(k)'
    <3>1. CASE k = j
      BY <1>1, <1>12, <1>13, <2>1, <3>1 DEF Unfinished
    <3>2. CASE k # j
      BY <1>1, <2>1, <3>2 DEF Unfinished, Works, JobsIn
    <3> QED BY <3>1, <3>2
  <2> QED BY <1>6, <2>1, <2>2
<1> QED BY <1>6, <1>9, <1>10, <1>20, <1>21, <1>22, <1>23, <1>24, <1>25, <1>26, <1>27, <1>28,
           <1>29, <1>30, <1>31

(* Job j is indexed as far as `through`, failures in `resolved` are        *)
(* repaired by it, others of its library reach further.                    *)
Indexes(j, through, resolved) ==
  LET l == jobs[j].lib IN
  /\ Works(j) /\ contents' = contents /\ jobs[j].status = "running" /\ through <= jobs[j].fetched
  /\ jobs'[j].next = jobs[j].next /\ jobs'[j].fetched = jobs[j].fetched
  /\ jobs'[j].indexed = IndexedTo(j, through)
  /\ DOMAIN jobs'[j].targets = DOMAIN jobs[j].targets
  /\ \A f \in DOMAIN jobs[j].targets :
       /\ DOMAIN jobs'[j].targets[f] = {"next", "done"}
       /\ jobs'[j].targets[f].next = jobs[j].targets[f].next
       /\ jobs'[j].targets[f].done = (IF f \in resolved THEN TRUE ELSE jobs[j].targets[f].done)
  /\ library'[l].fetched = library[l].fetched
  /\ library'[l].indexed = Max({library[l].indexed, IndexedTo(j, through)})
  /\ DOMAIN failures' = FailureIds /\ Numbered(failures')
  /\ \A f \in FailureIds :
       /\ DOMAIN failures'[f] = {"lib", "job", "first", "last", "through", "status"}
       /\ failures'[f].lib = failures[f].lib /\ failures'[f].job = failures[f].job
       /\ failures'[f].first = failures[f].first /\ failures'[f].last = failures[f].last
       /\ failures'[f].status = (IF f \in resolved THEN "resolved" ELSE failures[f].status)
       /\ \/ failures'[f].through = failures[f].through
          \/ failures[f].lib = l /\ failures'[f].through = Max({failures[f].through, through})
  /\ \A f \in resolved : Resolvable(j, f) /\ failures[f].last <= through

(* A publication or an index checkpoint keeps the tables correct and       *)
(* indexes its job as far as it says.                                      *)
LEMMA IndexKeeps ==
  ASSUME StoreInv, NEW j \in JobIds, NEW l, l = jobs[j].lib,
         NEW through \in Nat, NEW resolved, Indexes(j, through, resolved)
  PROVE  StoreInv' /\ (\A m \in Libraries : Grows(m))
         /\ jobs'[j].indexed >= through /\ jobs'[j].indexed >= jobs[j].indexed
<1> USE DEF StoreInv
<1> DEFINE indexed == IndexedTo(j, through)
<1>1. /\ Works(j) /\ contents' = contents /\ jobs[j].status = "running" /\ through <= jobs[j].fetched
      /\ jobs'[j].next = jobs[j].next /\ jobs'[j].fetched = jobs[j].fetched
      /\ jobs'[j].indexed = indexed
      /\ library'[l].fetched = library[l].fetched
      /\ library'[l].indexed = Max({library[l].indexed, indexed})
  BY DEF Indexes
<1>2. /\ Rows /\ l \in Libraries
      /\ jobs[j].next \in Nat \ {0} /\ jobs[j].fetched \in Nat /\ jobs[j].indexed \in Nat
      /\ jobs[j].snap \in Nat /\ jobs[j].kind \in Kinds /\ library[l].fetched \in Nat
      /\ library[l].indexed \in Nat /\ latest[l] \in Nat
  BY DEF Rows, JobRows, LibraryRows, Messages
<1>3. /\ indexed \in {jobs[j].indexed, through} /\ jobs[j].indexed <= indexed
      /\ through <= indexed /\ indexed \in Nat
  <2>1. indexed = Max({jobs[j].indexed, through})
    BY DEF IndexedTo
  <2>2. /\ Max({jobs[j].indexed, through}) \in {jobs[j].indexed, through}
        /\ jobs[j].indexed <= Max({jobs[j].indexed, through})
        /\ through <= Max({jobs[j].indexed, through})
    BY <1>2, MaxOfTwo
  <2> QED BY <1>2, <2>1, <2>2
<1> HIDE DEF indexed
<1>4. library'[l].indexed = (IF library[l].indexed <= indexed THEN indexed ELSE library[l].indexed)
  BY <1>1, <1>2, <1>3, MaxOfTwo
<1>5. /\ jobs[j].indexed <= jobs[j].fetched /\ jobs[j].fetched <= library[l].fetched
      /\ library[l].indexed <= library[l].fetched /\ library[l].fetched <= latest[l]
  BY <1>1, <1>2 DEF Bounded, Marks
<1>6. /\ \A m, S : JobsIn(m, S)' = JobsIn(m, S)
      /\ \A k \in JobIds : AfterFailed(k)' <=> AfterFailed(k)
      /\ OneJob' /\ EndedIsIndexed'
      /\ library[l].status \notin {"absent", "ready", "partial"}
  BY <1>1, WorkFrames
<1>7. /\ DOMAIN failures' = FailureIds /\ Numbered(failures')
      /\ \A f \in FailureIds :
           /\ DOMAIN failures'[f] = {"lib", "job", "first", "last", "through", "status"}
           /\ failures'[f].lib = failures[f].lib /\ failures'[f].job = failures[f].job
           /\ failures'[f].first = failures[f].first /\ failures'[f].last = failures[f].last
           /\ failures'[f].status = (IF f \in resolved THEN "resolved" ELSE failures[f].status)
  BY DEF Indexes
<1>8. /\ DOMAIN jobs'[j].targets = DOMAIN jobs[j].targets
      /\ \A f \in DOMAIN jobs[j].targets :
           /\ DOMAIN jobs'[j].targets[f] = {"next", "done"}
           /\ jobs'[j].targets[f].next = jobs[j].targets[f].next
           /\ jobs'[j].targets[f].done = (IF f \in resolved THEN TRUE ELSE jobs[j].targets[f].done)
  BY DEF Indexes
<1>9. \A f \in resolved :
        /\ f \in DOMAIN jobs[j].targets /\ jobs[j].targets[f].next > failures[f].last
        /\ failures[f].last <= through
  BY DEF Indexes, Resolvable
<1>10. \A f \in FailureIds : failures[f].first \in Nat \ {0} /\ failures[f].last \in Nat
                             /\ failures[f].through \in Nat
  BY <1>2 DEF Rows, FailureRows
<1>11. \A k \in JobIds \ {j} : jobs'[k] = jobs[k]
  BY <1>1 DEF Works
<1>12. DOMAIN jobs[j].targets \subseteq FailureIds
       /\ \A f \in DOMAIN jobs[j].targets : jobs[j].targets[f].next \in Nat \ {0}
  BY <1>2 DEF Rows, JobRows
<1>13. \A f \in FailureIds :
         /\ failures'[f].through \in Nat /\ failures[f].through <= failures'[f].through
         /\ failures'[f].through <= latest[failures[f].lib]
  <2> SUFFICES ASSUME NEW f \in FailureIds
               PROVE  /\ failures'[f].through \in Nat /\ failures[f].through <= failures'[f].through
                      /\ failures'[f].through <= latest[failures[f].lib]
    OBVIOUS
  <2>1. failures[f].through <= latest[failures[f].lib] /\ failures[f].through \in Nat
    BY <1>10 DEF Bounded
  <2>2. CASE failures'[f].through = failures[f].through
    BY <2>1, <2>2
  <2>3. CASE failures[f].lib = l /\ failures'[f].through = Max({failures[f].through, through})
    <3>1. failures'[f].through = (IF failures[f].through <= through THEN through ELSE failures[f].through)
      BY <2>1, <2>3, MaxOfTwo
    <3> QED BY <1>1, <1>2, <1>5, <2>1, <2>3, <3>1
  <2> QED BY <2>2, <2>3 DEF Indexes
<1>14. /\ \A m : Unresolved(m)' \subseteq Unresolved(m)
       /\ \A m : \A f \in Unresolved(m) : f \in resolved \/ f \in Unresolved(m)'
       /\ \A f \in FailureIds : RangeOf(f)' = RangeOf(f)
  BY <1>7 DEF Unresolved, RangeOf
<1>29. \A m \in Libraries : Kept(m)' = Kept(m)
  <2>1. ASSUME NEW m \in Libraries PROVE library'[m].mode = library[m].mode
    BY <1>1 DEF Works
  <2> QED BY <1>1, <2>1, SameKept
<1>30. ASSUME NEW m \in Libraries, NEW i \in revisit[m], FreshlyLost(m, i)
       PROVE  FreshlyLost(m, i)'
  <2>1. PICK f \in Unresolved(m) : i \in RangeOf(f) /\ Fresh(f, i)
    BY <1>30 DEF FreshlyLost
  <2>2. f \in FailureIds /\ failures[f].last \in Nat /\ i \in Nat /\ i <= failures[f].last
    BY <1>2, <1>10, <2>1 DEF Unresolved, RangeOf, Rows, Messages
  <2>3. f \notin resolved
    <3> SUFFICES ASSUME f \in resolved PROVE FALSE
      OBVIOUS
    <3>1. f \in DOMAIN jobs[j].targets /\ jobs[j].targets[f].next > failures[f].last
      BY <1>9
    <3>2. jobs[j].targets[f].next <= i /\ jobs[j].targets[f].next \in Nat
      BY <1>1, <1>12, <2>1, <3>1 DEF Fresh
    <3> QED BY <2>2, <3>1, <3>2
  <2>4. \A k \in JobIds : /\ jobs'[k].status = jobs[k].status
                           /\ DOMAIN jobs'[k].targets = DOMAIN jobs[k].targets
                           /\ \A g \in DOMAIN jobs[k].targets :
                                jobs'[k].targets[g].next = jobs[k].targets[g].next
    BY <1>1, <1>8, <1>11 DEF Works
  <2>5. Fresh(f, i)'
    BY <1>1, <2>1, <2>4 DEF Fresh, Works
  <2> QED BY <1>14, <2>1, <2>2, <2>3, <2>5 DEF FreshlyLost
<1>15. ASSUME NEW m \in Libraries PROVE Grows(m)
  <2>0. revisit' = revisit
    BY <1>1 DEF contents
  <2> SUFFICES ASSUME NEW f \in Unresolved(m), NEW i \in RangeOf(f)
               PROVE  i \in Kept(m) \/ \E g \in Unresolved(m)' : i \in RangeOf(g)'
    BY <1>29, <1>30, <2>0 DEF Grows
  <2>1. f \in FailureIds /\ failures[f].lib = m
    BY DEF Unresolved
  <2>2. CASE f \in resolved
    <3>1. failures[f].lib = l /\ failures[f].first .. jobs[j].targets[f].next - 1 \subseteq Kept(l)
      BY <1>1, <1>9, <2>2 DEF Cursors
    <3>2. jobs[j].targets[f].next - 1 >= failures[f].last /\ jobs[j].targets[f].next \in Nat
      BY <1>9, <1>10, <1>12, <2>1, <2>2
    <3> QED BY <1>10, <2>1, <3>1, <3>2 DEF RangeOf
  <2>3. CASE f \notin resolved
    BY <1>14, <2>1, <2>3
  <2> QED BY <2>2, <2>3
<1>20. Rows'
  <2>1. LibraryRows'
    BY <1>1, <1>2, <1>3, <1>4 DEF Works, Rows, LibraryRows
  <2>2. JobRows'
    <3>1. jobs[j].status \in JobStatuses /\ jobs[j].control \in {"none", "pause", "stop"}
          /\ jobs[j].start \in Nat \ {0} /\ (jobs[j].kind # "repair" => DOMAIN jobs[j].targets = {})
      BY <1>2 DEF Rows, JobRows
    <3>2. \A f \in DOMAIN jobs'[j].targets :
            /\ DOMAIN jobs'[j].targets[f] = {"next", "done"}
            /\ jobs'[j].targets[f].next \in Nat \ {0}
      BY <1>8, <1>12
    <3>3. DOMAIN jobs'[j].targets \subseteq FailureIds
          /\ (jobs[j].kind # "repair" => DOMAIN jobs'[j].targets = {})
      BY <1>8, <1>12, <3>1
    <3>4. JobRows /\ FailureIds' = FailureIds /\ JobIds' = JobIds
      BY <1>1, <1>2, <1>7 DEF Works, Rows
    <3>5. ASSUME NEW k \in JobIds, k # j
          PROVE  jobs'[k] = jobs[k]
      BY <1>11, <3>5
    <3> QED BY <1>1, <1>2, <1>3, <3>1, <3>2, <3>3, <3>4, <3>5 DEF Works, JobRows
  <2>3. FailureRows'
    <3>1. \A k \in JobIds : jobs'[k].lib = jobs[k].lib
      BY <1>1 DEF Works
    <3> QED BY <1>1, <1>2, <1>7, <1>10, <1>13, <3>1 DEF Works, Rows, FailureRows, FailureStatuses
  <2>4. held' = held /\ revisit' = revisit
    BY <1>1 DEF contents
  <2> QED BY <1>1, <1>2, <1>7, <2>1, <2>2, <2>3, <2>4 DEF Works, Rows
<1>21. Bounded'
  <2>1. ASSUME NEW m \in Libraries
        PROVE  library'[m].indexed <= library'[m].fetched /\ library'[m].fetched <= latest'[m]
    <3>1. CASE m = l
      BY <1>1, <1>2, <1>3, <1>4, <1>5, <3>1 DEF Works
    <3>2. CASE m # l
      BY <1>1, <3>2 DEF Works, Bounded
    <3> QED BY <3>1, <3>2
  <2>2. ASSUME NEW k \in JobIds
        PROVE  /\ jobs'[k].indexed <= jobs'[k].fetched
               /\ jobs'[k].snap <= latest'[jobs'[k].lib]
               /\ jobs'[k].control # "none" => jobs'[k].status = "running"
    <3>1. CASE k = j
      BY <1>1, <1>2, <1>3, <1>5, <3>1 DEF Works, Bounded
    <3>2. CASE k # j
      BY <1>1, <3>2 DEF Works, Bounded
    <3> QED BY <3>1, <3>2
  <2>3. ASSUME NEW f \in FailureIds
        PROVE  /\ failures'[f].first <= failures'[f].last
               /\ failures'[f].last <= failures'[f].through
               /\ failures'[f].through <= latest'[failures'[f].lib]
    <3>1. failures[f].first <= failures[f].last /\ failures[f].last <= failures[f].through
      BY DEF Bounded
    <3> QED BY <1>1, <1>7, <1>10, <1>13, <3>1 DEF Works
  <2> QED BY <1>1, <1>7, <2>1, <2>2, <2>3 DEF Bounded, Works
<1>22. NothingAbsent' /\ HeldBelow'
  <2>1. held' = held /\ revisit' = revisit
    BY <1>1 DEF contents
  <2>2. NothingAbsent'
    BY <1>1, <1>6, <2>1 DEF NothingAbsent, Works
  <2>3. HeldBelow'
    BY <1>1, <2>1 DEF HeldBelow, Works
  <2> QED BY <2>2, <2>3
<1>31. NextPastFetched'
  BY <1>1, <1>11 DEF NextPastFetched, Works
<1>32. Revisits'
  <2> SUFFICES ASSUME NEW m \in Libraries, NEW i \in revisit[m]
               PROVE  AwaitsRevisit(m, i, Ongoing)' \/ FreshlyLost(m, i)'
    BY <1>1 DEF Revisits, contents
  <2>1. CASE FreshlyLost(m, i)
    BY <1>30, <2>1
  <2>2. CASE AwaitsRevisit(m, i, Ongoing)
    <3>1. \A k \in JobIds : /\ jobs'[k].kind = jobs[k].kind /\ jobs'[k].next = jobs[k].next
                             /\ jobs'[k].snap = jobs[k].snap
      BY <1>1, <1>11 DEF Works
    <3>2. JobsIn(m, Ongoing)' = JobsIn(m, Ongoing) /\ JobsIn(m, Ongoing) \subseteq JobIds
      BY <1>6 DEF JobsIn
    <3>3. revisit' = revisit
      BY <1>1 DEF contents
    <3> QED BY <2>2, <3>1, <3>2, <3>3 DEF AwaitsRevisit
  <2> QED BY <2>1, <2>2 DEF Revisits
<1>23. Coverage'
  <2>1. ASSUME NEW m \in Libraries PROVE Covered(m, library[m].fetched)'
    BY <1>1, <1>15, CoveredGrows DEF Coverage, Works
  <2>2. ASSUME NEW k \in JobIds, jobs[k].status # "deleted"
        PROVE  /\ Covered(jobs[k].lib, jobs[k].start - 1)'
               /\ Covered(jobs[k].lib, jobs[k].next - 1)'
               /\ Covered(jobs[k].lib, jobs[k].fetched)'
    <3>1. /\ Covered(jobs[k].lib, jobs[k].start - 1) /\ Covered(jobs[k].lib, jobs[k].next - 1)
          /\ Covered(jobs[k].lib, jobs[k].fetched) /\ jobs[k].lib \in Libraries
      BY <2>2 DEF Coverage, Rows, JobRows
    <3>2. jobs'[k].lib = jobs[k].lib /\ jobs'[k].start = jobs[k].start
          /\ jobs'[k].next = jobs[k].next /\ jobs'[k].fetched = jobs[k].fetched
      BY <1>1 DEF Works
    <3> QED BY <1>15, <3>1, <3>2, CoveredGrows
  <2>3. ASSUME NEW m \in Libraries, NEW f \in Unresolved(m)'
        PROVE  Covered(m, failures[f].last)'
    <3>1. f \in Unresolved(m) /\ f \in FailureIds /\ Covered(m, failures[f].last)
      BY <1>14 DEF Coverage, Unresolved
    <3> QED BY <1>7, <1>15, <3>1, CoveredGrows
  <2> QED BY <1>1, <2>1, <2>2, <2>3 DEF Coverage, Works
<1>24. Cursors'
  <2> SUFFICES ASSUME NEW k \in JobIds, jobs'[k].status # "deleted",
                      NEW f \in DOMAIN jobs'[k].targets
               PROVE  /\ failures'[f].lib = jobs'[k].lib
                      /\ failures'[f].status \in {"repairing", "resolved"}
                      /\ failures'[f].first .. jobs'[k].targets[f].next - 1 \subseteq Kept(jobs[k].lib)'
                      /\ jobs'[k].status \in Recoverable /\ ~jobs'[k].targets[f].done
                           => failures'[f].status = "repairing"
    BY <1>1 DEF Cursors, Works
  <2>1. /\ jobs'[k].lib = jobs[k].lib /\ jobs'[k].status = jobs[k].status
        /\ DOMAIN jobs'[k].targets = DOMAIN jobs[k].targets
        /\ jobs'[k].targets[f].next = jobs[k].targets[f].next
    BY <1>1, <1>8 DEF Works
  <2>2. /\ failures[f].lib = jobs[k].lib /\ failures[f].status \in {"repairing", "resolved"}
        /\ failures[f].first .. jobs[k].targets[f].next - 1 \subseteq Kept(jobs[k].lib)
        /\ jobs[k].status \in Recoverable /\ ~jobs[k].targets[f].done
             => failures[f].status = "repairing"
    BY <2>1 DEF Cursors
  <2>3. f \in FailureIds /\ jobs[k].lib \in Libraries
    BY <1>2, <2>1 DEF Rows, JobRows
  <2>4. /\ failures'[f].lib = failures[f].lib /\ failures'[f].first = failures[f].first
        /\ failures'[f].status \in {failures[f].status, "resolved"}
    BY <1>7, <2>3
  <2>5. jobs[k].status \in Recoverable /\ ~jobs'[k].targets[f].done => failures'[f].status = "repairing"
    <3>1. CASE k = j
      BY <1>7, <1>8, <2>1, <2>2, <2>3, <3>1
    <3>2. CASE k # j
      <4> SUFFICES ASSUME jobs[k].status \in Recoverable, ~jobs[k].targets[f].done
                   PROVE  f \notin resolved
        BY <1>7, <1>11, <2>2, <2>3, <3>2
      <4>1. \A g \in resolved : failures[g].lib = l
        BY <1>1, <1>9 DEF Cursors
      <4>2. jobs[k].lib # l
        BY <1>1, <3>2, OnlyOneGoes DEF Recoverable
      <4> QED BY <2>2, <4>1, <4>2
    <3> QED BY <3>1, <3>2
  <2>6. PICK m \in Libraries : m = jobs[k].lib
    BY <2>3
  <2>7. Kept(m)' = Kept(m)
    BY <1>29
  <2>8. failures'[f].first .. jobs'[k].targets[f].next - 1 \subseteq Kept(m)'
    BY <2>1, <2>2, <2>4, <2>6, <2>7
  <2>9. m = jobs'[k].lib
    BY <2>1, <2>6
  <2>10. failures'[f].lib = jobs'[k].lib /\ failures'[f].status \in {"repairing", "resolved"}
    BY <2>1, <2>2, <2>4
  <2> QED BY <2>1, <2>5, <2>8, <2>9, <2>10
<1>25. Marks'
  <2> SUFFICES ASSUME NEW k \in JobIds
               PROVE  LET m == jobs'[k].lib IN
                 /\ jobs'[k].status # "deleted" =>
                      jobs'[k].fetched <= library'[m].fetched /\ jobs'[k].indexed <= library'[m].indexed
                 /\ jobs'[k].status \in Recoverable =>
                      \/ jobs'[k].fetched = library'[m].fetched /\ jobs'[k].indexed = library'[m].indexed
                      \/ library'[m].fetched <= jobs'[k].snap
    BY <1>1 DEF Marks, Works
  <2>1. LET m == jobs[k].lib IN
          /\ m \in Libraries /\ library[m].indexed \in Nat /\ jobs[k].indexed \in Nat
          /\ jobs[k].status # "deleted" =>
               jobs[k].fetched <= library[m].fetched /\ jobs[k].indexed <= library[m].indexed
          /\ jobs[k].status \in Recoverable =>
               \/ jobs[k].fetched = library[m].fetched /\ jobs[k].indexed = library[m].indexed
               \/ library[m].fetched <= jobs[k].snap
    BY DEF Marks, Rows, JobRows, LibraryRows
  <2>2. CASE k = j
    BY <1>1, <1>2, <1>3, <1>4, <2>1, <2>2 DEF Works, Recoverable
  <2>3. CASE k # j /\ jobs[k].lib = l
    <3>1. jobs[k].status \notin Recoverable
      BY <1>1, <2>3, OnlyOneGoes DEF Recoverable
    <3> QED BY <1>1, <1>2, <1>3, <1>4, <2>1, <2>3, <3>1 DEF Works
  <2>4. CASE k # j /\ jobs[k].lib # l
    BY <1>1, <2>1, <2>4 DEF Works
  <2> QED BY <2>2, <2>3, <2>4
<1>26. RepairMarks'
  <2> SUFFICES ASSUME NEW k \in JobIds, jobs'[k].kind = "repair", jobs'[k].status \in Recoverable,
                      ~AfterFailed(k)'
               PROVE  \/ jobs'[k].fetched <= jobs'[k].indexed
                      \/ \E f \in DOMAIN jobs'[k].targets :
                           ~jobs'[k].targets[f].done /\ jobs'[k].fetched <= failures'[f].last
    BY <1>1 DEF RepairMarks, Works
  <2>1. /\ jobs[k].kind = "repair"
        /\ \/ jobs[k].fetched <= jobs[k].indexed
           \/ \E f \in DOMAIN jobs[k].targets :
                ~jobs[k].targets[f].done /\ jobs[k].fetched <= failures[f].last
    BY <1>1, <1>6 DEF RepairMarks, Works
  <2>2. CASE k # j
    <3>1. DOMAIN jobs[k].targets \subseteq FailureIds
      BY <1>2 DEF Rows, JobRows
    <3> QED BY <1>7, <1>11, <2>1, <2>2, <3>1
  <2>3. CASE k = j /\ jobs[j].fetched <= jobs[j].indexed
    BY <1>1, <1>2, <1>3, <2>3
  <2>4. CASE k = j /\ ~(jobs[j].fetched <= jobs[j].indexed)
    <3>1. PICK f \in DOMAIN jobs[j].targets :
            ~jobs[j].targets[f].done /\ jobs[j].fetched <= failures[f].last
      BY <2>1, <2>4
    <3>2. CASE f \in resolved
      BY <1>1, <1>2, <1>3, <1>9, <1>10, <1>12, <2>4, <3>1, <3>2
    <3>3. CASE f \notin resolved
      <4>1. ~jobs'[j].targets[f].done /\ failures'[f].last = failures[f].last
        BY <1>7, <1>8, <1>12, <3>1, <3>3
      <4> QED BY <1>1, <1>8, <2>4, <3>1, <4>1
    <3> QED BY <3>2, <3>3
  <2> QED BY <2>2, <2>3, <2>4
<1>27. ReadyIsRepaired'
  BY <1>1, <1>6, <1>14 DEF ReadyIsRepaired, Works
<1>28. NoFailureStranded'
  <2> SUFFICES ASSUME NEW m \in Libraries, NEW f \in Unresolved(m)',
                      failures'[f].status = "repairing"
               PROVE  \E k \in JobsIn(m, Ongoing)' : f \in Unfinished(k)'
    BY <1>1 DEF NoFailureStranded, Ongoing
  <2>0. f \in Unresolved(m) /\ f \in FailureIds /\ f \notin resolved /\ failures[f].status = "repairing"
    BY <1>7, <1>14 DEF Unresolved
  <2>1. PICK k \in JobsIn(m, Ongoing) : f \in Unfinished(k)
    BY <2>0 DEF NoFailureStranded, Ongoing
  <2>2. f \in Unfinished(k)'
    <3>1. CASE k = j
      BY <1>8, <2>0, <2>1, <3>1 DEF Unfinished
    <3>2. CASE k # j
      BY <1>11, <2>0, <2>1, <3>2 DEF Unfinished, JobsIn
    <3> QED BY <3>1, <3>2
  <2> QED BY <1>6, <2>1, <2>2
<1> QED BY <1>1, <1>3, <1>6, <1>15, <1>20, <1>21, <1>22, <1>23, <1>24, <1>25, <1>26, <1>27, <1>28,
           <1>31, <1>32


(* advance_index_checkpoint indexes and resolves nothing.                  *)
LEMMA AdvanceIndexes ==
  ASSUME StoreInv, NEW j \in JobIds, NEW through \in Nat, Advance(j, through), latest' = latest
  PROVE  Indexes(j, through, {})
<1> DEFINE l == jobs[j].lib
           r == [jobs[j] EXCEPT !.indexed = IndexedTo(j, through)]
           q == [library[l] EXCEPT !.indexed = Max({@, IndexedTo(j, through)})]
<1>1. /\ jobs[j].status = "running" /\ through <= jobs[j].fetched
      /\ jobs' = [jobs EXCEPT ![j] = r]
      /\ library' = [library EXCEPT ![l] = q]
      /\ UNCHANGED <<failures, contents>>
  BY DEF Advance
<1>2. /\ DOMAIN jobs[j] = JobFields /\ l \in Libraries /\ DOMAIN library = Libraries
      /\ DOMAIN library[l] = {"mode", "status", "fetched", "indexed"}
      /\ Numbered(jobs) /\ Numbered(failures)
      /\ \A f \in DOMAIN jobs[j].targets : DOMAIN jobs[j].targets[f] = {"next", "done"}
      /\ \A f \in FailureIds :
           DOMAIN failures[f] = {"lib", "job", "first", "last", "through", "status"}
  BY DEF StoreInv, Rows, JobRows, LibraryRows, FailureRows
<1>3. /\ DOMAIN r = JobFields /\ r.lib = l /\ r.kind = jobs[j].kind
      /\ r.status = jobs[j].status /\ r.control = jobs[j].control
      /\ r.start = jobs[j].start /\ r.snap = jobs[j].snap /\ r.next = jobs[j].next
      /\ r.fetched = jobs[j].fetched /\ r.indexed = IndexedTo(j, through)
      /\ r.targets = jobs[j].targets
  BY <1>2 DEF JobFields
<1>4. /\ DOMAIN q = {"mode", "status", "fetched", "indexed"} /\ q.mode = library[l].mode
      /\ q.status = library[l].status /\ q.fetched = library[l].fetched
      /\ q.indexed = Max({library[l].indexed, IndexedTo(j, through)})
  BY <1>2
<1> HIDE DEF r, q
<1>5. /\ DOMAIN jobs' = JobIds /\ jobs' = [k \in JobIds |-> jobs'[k]] /\ jobs'[j] = r
      /\ \A k \in JobIds \ {j} : jobs'[k] = jobs[k]
      /\ DOMAIN library' = Libraries /\ library'[l] = q
      /\ \A m \in Libraries \ {l} : library'[m] = library[m]
  BY <1>1, <1>2
<1>6. Works(j)
  BY <1>2, <1>3, <1>4, <1>5, SameNumbers DEF Works
<1> QED BY <1>1, <1>2, <1>3, <1>4, <1>5, <1>6 DEF Indexes

(* publish_indexed_packages indexes, resolves its targets and lets         *)
(* failures reach further.                                                 *)
LEMMA PublishIndexes ==
  ASSUME StoreInv, NEW j \in JobIds, NEW through \in Nat,
         NEW uncertain \in SUBSET Unresolved(jobs[j].lib), NEW resolved,
         \A f \in resolved : failures[f].last <= through,
         Publish(j, through, uncertain, resolved), latest' = latest
  PROVE  Indexes(j, through, resolved)
<1> DEFINE l == jobs[j].lib
           tg == [f \in DOMAIN jobs[j].targets |->
                    IF f \in resolved THEN [jobs[j].targets[f] EXCEPT !.done = TRUE]
                    ELSE jobs[j].targets[f]]
           r == [jobs[j] EXCEPT !.indexed = IndexedTo(j, through), !.targets = tg]
           q == [library[l] EXCEPT !.indexed = Max({@, IndexedTo(j, through)})]
<1>1. /\ jobs[j].status = "running" /\ through <= jobs[j].fetched
      /\ \A f \in resolved : Resolvable(j, f)
      /\ jobs' = [jobs EXCEPT ![j] = r]
      /\ library' = [library EXCEPT ![l] = q]
      /\ contents' = contents
  BY DEF Publish, MayPublish
<1>2. /\ DOMAIN jobs[j] = JobFields /\ l \in Libraries /\ DOMAIN library = Libraries
      /\ DOMAIN library[l] = {"mode", "status", "fetched", "indexed"}
      /\ Numbered(jobs) /\ Numbered(failures)
      /\ \A f \in DOMAIN jobs[j].targets : DOMAIN jobs[j].targets[f] = {"next", "done"}
      /\ \A f \in FailureIds :
           DOMAIN failures[f] = {"lib", "job", "first", "last", "through", "status"}
  BY DEF StoreInv, Rows, JobRows, LibraryRows, FailureRows
<1>3. /\ DOMAIN r = JobFields /\ r.lib = l /\ r.kind = jobs[j].kind
      /\ r.status = jobs[j].status /\ r.control = jobs[j].control
      /\ r.start = jobs[j].start /\ r.snap = jobs[j].snap /\ r.next = jobs[j].next
      /\ r.fetched = jobs[j].fetched /\ r.indexed = IndexedTo(j, through)
      /\ r.targets = tg
  BY <1>2 DEF JobFields
<1>4. /\ DOMAIN q = {"mode", "status", "fetched", "indexed"} /\ q.mode = library[l].mode
      /\ q.status = library[l].status /\ q.fetched = library[l].fetched
      /\ q.indexed = Max({library[l].indexed, IndexedTo(j, through)})
  BY <1>2
<1>5. /\ DOMAIN tg = DOMAIN jobs[j].targets
      /\ \A f \in DOMAIN jobs[j].targets :
           /\ DOMAIN tg[f] = {"next", "done"}
           /\ tg[f].next = jobs[j].targets[f].next
           /\ tg[f].done = (IF f \in resolved THEN TRUE ELSE jobs[j].targets[f].done)
  BY <1>2
<1> HIDE DEF r, q, tg
<1>6. /\ DOMAIN jobs' = JobIds /\ jobs' = [k \in JobIds |-> jobs'[k]] /\ jobs'[j] = r
      /\ \A k \in JobIds \ {j} : jobs'[k] = jobs[k]
      /\ DOMAIN library' = Libraries /\ library'[l] = q
      /\ \A m \in Libraries \ {l} : library'[m] = library[m]
  BY <1>1, <1>2
<1>7. Works(j)
  BY <1>2, <1>3, <1>4, <1>6, SameNumbers DEF Works
<1>8. failures' = [f \in FailureIds |->
         IF f \in resolved THEN [failures[f] EXCEPT !.status = "resolved"]
         ELSE IF f \in uncertain
              THEN [failures[f] EXCEPT !.through = Max({@, through})]
              ELSE failures[f]]
  BY DEF Publish
<1>9. DOMAIN failures' = FailureIds /\ Numbered(failures')
  BY <1>2, <1>8, SameNumbers
<1>10. ASSUME NEW f \in FailureIds
       PROVE  /\ DOMAIN failures'[f] = {"lib", "job", "first", "last", "through", "status"}
              /\ failures'[f].lib = failures[f].lib /\ failures'[f].job = failures[f].job
              /\ failures'[f].first = failures[f].first /\ failures'[f].last = failures[f].last
              /\ failures'[f].status = (IF f \in resolved THEN "resolved" ELSE failures[f].status)
              /\ \/ failures'[f].through = failures[f].through
                 \/ failures[f].lib = l /\ failures'[f].through = Max({failures[f].through, through})
  <2>1. CASE f \in resolved
    BY <1>2, <1>8, <2>1
  <2>2. CASE f \notin resolved /\ f \in uncertain
    <3>1. failures[f].lib = l
      BY <2>2 DEF Unresolved
    <3> QED BY <1>2, <1>8, <2>2, <3>1
  <2>3. CASE f \notin resolved /\ f \notin uncertain
    BY <1>2, <1>8, <2>3
  <2> QED BY <2>1, <2>2, <2>3
<1> QED BY <1>1, <1>3, <1>4, <1>6, <1>7, <1>5, <1>9, <1>10 DEF Indexes

(* Range m of library l takes up first .. last; ranges of one scan that it *)
(* meets become part of it.                                                *)
Takes(m, l, first, last) ==
  /\ UNCHANGED <<library, jobs, contents, latest>>
  /\ Numbered(failures') /\ FailureIds \subseteq DOMAIN failures' /\ m \in DOMAIN failures'
  /\ DOMAIN failures'[m] = {"lib", "job", "first", "last", "through", "status"}
  /\ failures'[m].status = "open" /\ failures'[m].lib = l
  /\ failures'[m].job \in JobIds /\ jobs[failures'[m].job].lib = l
  /\ failures'[m].first \in Nat \ {0} /\ failures'[m].first <= first
  /\ failures'[m].last \in Nat /\ last <= failures'[m].last
  /\ failures'[m].through \in Nat /\ failures'[m].last <= failures'[m].through
  /\ failures'[m].through <= latest[l]
  /\ failures'[m].last = last
       \/ \E f \in Unresolved(l) : failures'[m].last = failures[f].last
  /\ m \in FailureIds => failures[m].status = "open"
  /\ \A f \in DOMAIN failures' \ {m} :
       /\ f \in FailureIds
       /\ \/ failures'[f] = failures[f]
          \/ /\ failures[f].status = "open" /\ failures'[f].status = "deleted"
             /\ DOMAIN failures'[f] = {"lib", "job", "first", "last", "through", "status"}
             /\ failures'[f].lib = failures[f].lib /\ failures'[f].job = failures[f].job
             /\ failures'[f].first = failures[f].first /\ failures'[f].last = failures[f].last
             /\ failures'[f].through = failures[f].through
  /\ \A f \in FailureIds :
       \/ f # m /\ failures'[f] = failures[f]
       \/ /\ failures[f].lib = l
          /\ failures'[m].first <= failures[f].first /\ failures[f].last <= failures'[m].last

(* record_failed_range holds its range in a new row or in the one that     *)
(* merges the adjacent ranges.                                             *)
LEMMA RecordTakes ==
  ASSUME StoreInv, NEW j \in JobIds, NEW l, l = jobs[j].lib, NEW first \in Nat \ {0}, NEW last \in Nat,
         last <= jobs[j].snap, RecordFailure(j, first, last), latest' = latest
  PROVE  \E m : Takes(m, l, first, last)
<1> DEFINE near == {f \in FailureIds : /\ failures[f].job = j /\ failures[f].status = "open"
                                       /\ failures[f].first <= last + 1
                                       /\ failures[f].last >= first - 1}
           firsts == {first} \union {failures[f].first : f \in near}
           lasts == {last} \union {failures[f].last : f \in near}
           ends == {last} \union {failures[f].through : f \in near}
<1>1. /\ Numbered(failures) /\ l \in Libraries /\ latest[l] \in Nat
      /\ \A f \in FailureIds :
           /\ DOMAIN failures[f] = {"lib", "job", "first", "last", "through", "status"}
           /\ failures[f].job \in JobIds /\ failures[f].lib = jobs[failures[f].job].lib
           /\ failures[f].first \in Nat \ {0} /\ failures[f].last \in Nat
           /\ failures[f].through \in Nat
  BY DEF StoreInv, Rows, FailureRows, JobRows, Messages
<1>2. last <= latest[l] /\ \A f \in FailureIds :
         /\ failures[f].last <= failures[f].through
         /\ failures[f].through <= latest[failures[f].lib]
  <2>1. jobs[j].snap \in Nat /\ jobs[j].snap <= latest[l]
    BY DEF StoreInv, Rows, JobRows, Bounded
  <2> QED BY <1>1, <2>1 DEF StoreInv, Bounded
<1>3. UNCHANGED <<library, jobs, contents, latest>>
  BY DEF RecordFailure
<1>4. CASE near = {}
  <2> DEFINE row == [lib |-> l, job |-> j, first |-> first, last |-> last,
                     through |-> last, status |-> "open"]
             m == Len(failures) + 1
  <2>1. failures' = Append(failures, row)
    BY <1>4 DEF RecordFailure
  <2>2. /\ DOMAIN row = {"lib", "job", "first", "last", "through", "status"}
        /\ row.lib = l /\ row.job = j /\ row.first = first /\ row.last = last
        /\ row.through = last /\ row.status = "open"
    OBVIOUS
  <2> HIDE DEF row
  <2>3. /\ m \notin FailureIds /\ DOMAIN failures' = FailureIds \union {m} /\ Numbered(failures')
        /\ failures'[m] = row /\ \A f \in FailureIds : failures'[f] = failures[f]
    BY <1>1, <2>1, AppendRow
  <2> HIDE DEF m
  <2>4. Takes(m, l, first, last)
    BY <1>1, <1>2, <1>3, <2>2, <2>3 DEF Takes
  <2> QED BY <2>4
<1>5. CASE near # {}
  <2> DEFINE m == Min(near)
             row == [failures[m] EXCEPT !.first = Min(firsts), !.last = Max(lasts),
                                        !.through = Max(ends)]
  <2>1. failures' = [f \in FailureIds |->
           IF f = m THEN row
           ELSE IF f \in near THEN [failures[f] EXCEPT !.status = "deleted"]
           ELSE failures[f]]
    BY <1>5 DEF RecordFailure
  <2>2. m \in near
    BY <1>1, <1>5, NumbersAreNat, MinOfNats
  <2>3. \A f \in near : f \in FailureIds /\ failures[f].lib = l /\ failures[f].status = "open"
                        /\ f \in Unresolved(l)
    BY <1>1 DEF Unresolved
  <2> DEFINE a == Min(firsts)
             b == Max(lasts)
             c == Max(ends)
  <2>4. a \in firsts /\ \A x \in firsts : a <= x
    <3>1. firsts \subseteq Nat /\ firsts # {}
      BY <1>1, <2>3
    <3> QED BY <3>1, MinOfNats
  <2>5. b \in lasts /\ \A x \in lasts : x <= b
    <3>1. lasts \subseteq Nat /\ \A x \in lasts : x <= latest[l]
      BY <1>1, <1>2, <2>3
    <3> QED BY <1>1, <3>1, MaxOfNats
  <2>6. c \in ends /\ \A x \in ends : x <= c
    <3>1. ends \subseteq Nat /\ \A x \in ends : x <= latest[l]
      BY <1>1, <1>2, <2>3
    <3> QED BY <1>1, <3>1, MaxOfNats
  <2>7. /\ DOMAIN row = {"lib", "job", "first", "last", "through", "status"}
        /\ row.lib = l /\ row.job = j /\ row.first = a /\ row.last = b
        /\ row.through = c /\ row.status = "open"
    BY <1>1, <2>2, <2>3
  <2> HIDE DEF row, a, b, c
  <2>8. /\ a \in Nat \ {0} /\ a <= first /\ \A f \in near : a <= failures[f].first
    BY <1>1, <2>3, <2>4
  <2>9. /\ b \in Nat /\ last <= b /\ \A f \in near : failures[f].last <= b
        /\ b = last \/ \E f \in Unresolved(l) : b = failures[f].last
    BY <1>1, <2>3, <2>5
  <2>10. c \in Nat /\ b <= c /\ c <= latest[l]
    <3>1. c \in Nat /\ c <= latest[l]
      BY <1>1, <1>2, <2>3, <2>6
    <3>2. last <= c /\ \A f \in near : failures[f].through <= c
      BY <2>6
    <3>3. CASE b = last
      BY <3>1, <3>2, <3>3
    <3>4. CASE b # last
      <4>1. PICK f \in near : b = failures[f].last
        BY <2>5, <3>4
      <4> QED BY <1>1, <1>2, <2>3, <3>1, <3>2, <4>1
    <3> QED BY <3>3, <3>4
  <2>11. DOMAIN failures' = FailureIds /\ Numbered(failures')
    BY <1>1, <2>1, SameNumbers
  <2>12. failures'[m] = row
    BY <2>1, <2>2, <2>3
  <2>13. ASSUME NEW f \in FailureIds, f # m
         PROVE  \/ failures'[f] = failures[f] /\ f \notin near
                \/ /\ f \in near /\ failures'[f].status = "deleted"
                   /\ DOMAIN failures'[f] = {"lib", "job", "first", "last", "through", "status"}
                   /\ failures'[f].lib = failures[f].lib /\ failures'[f].job = failures[f].job
                   /\ failures'[f].first = failures[f].first /\ failures'[f].last = failures[f].last
                   /\ failures'[f].through = failures[f].through
    BY <1>1, <2>1, <2>13
  <2> HIDE DEF near, m
  <2>14. Takes(m, l, first, last)
    BY <1>3, <2>2, <2>3, <2>7, <2>8, <2>9, <2>10, <2>11, <2>12, <2>13 DEF Takes
  <2> QED BY <2>14
<1> QED BY <1>4, <1>5

(* A range that is recorded after all before it is covered keeps the       *)
(* tables correct, covers that far, and no repair has read past it.        *)
LEMMA TakesKeeps ==
  ASSUME StoreInv, NEW l \in Libraries, NEW first \in Nat \ {0}, NEW last \in Nat,
         first <= last, library[l].status \notin {"absent", "ready"}, Covered(l, first - 1),
         NEW m, Takes(m, l, first, last)
  PROVE  /\ StoreInv' /\ Covered(l, last)' /\ \A k \in Libraries : Grows(k)
         /\ \A i \in first .. last : FreshlyLost(l, i)'
<1> USE DEF StoreInv
<1>1. /\ library' = library /\ jobs' = jobs /\ contents' = contents /\ latest' = latest
      /\ FailureIds \subseteq DOMAIN failures' /\ m \in DOMAIN failures' /\ Numbered(failures')
      /\ failures'[m].status = "open" /\ failures'[m].lib = l
      /\ failures'[m].first <= first /\ last <= failures'[m].last
      /\ failures'[m].first \in Nat \ {0} /\ failures'[m].last \in Nat
  BY DEF Takes
<1>2. ASSUME NEW f \in DOMAIN failures', f # m
      PROVE  /\ f \in FailureIds
             /\ DOMAIN failures'[f] = {"lib", "job", "first", "last", "through", "status"}
             /\ failures'[f].lib = failures[f].lib /\ failures'[f].job = failures[f].job
             /\ failures'[f].first = failures[f].first /\ failures'[f].last = failures[f].last
             /\ failures'[f].through = failures[f].through
             /\ failures'[f].status \in {failures[f].status, "deleted"}
  BY <1>2 DEF Takes, Rows, FailureRows
<1>3. \A f \in FailureIds : failures[f].status # "open" => f # m /\ failures'[f] = failures[f]
  BY DEF Takes
<1>4. \A f \in FailureIds :
        /\ failures[f].first \in Nat \ {0} /\ failures[f].last \in Nat
        /\ failures[f].through \in Nat /\ failures[f].lib \in Libraries
  BY DEF Rows, FailureRows, JobRows
<1>30. \A i : Fresh(m, i)'
  <2>1. ASSUME NEW k \in JobIds, jobs[k].status # "deleted" PROVE m \notin DOMAIN jobs[k].targets
    <3> SUFFICES ASSUME m \in DOMAIN jobs[k].targets PROVE FALSE
      OBVIOUS
    <3>1. m \in FailureIds /\ failures[m].status \in {"repairing", "resolved"}
      BY <2>1 DEF Cursors, Rows, JobRows
    <3> QED BY <3>1 DEF Takes
  <2> QED BY <1>1, <2>1 DEF Fresh
<1>31. ASSUME NEW k \in Libraries, NEW i \in revisit[k], FreshlyLost(k, i)
       PROVE  FreshlyLost(k, i)'
  <2>1. PICK f \in Unresolved(k) : i \in RangeOf(f) /\ Fresh(f, i)
    BY <1>31 DEF FreshlyLost
  <2>2. f \in FailureIds /\ failures[f].lib = k /\ failures[f].status \in {"open", "repairing"}
        /\ i \in Nat /\ failures[f].first <= i /\ i <= failures[f].last
    BY <1>4, <2>1 DEF Unresolved, RangeOf, Rows, Messages
  <2>3. CASE f # m /\ failures'[f] = failures[f]
    <3>1. f \in Unresolved(k)' /\ i \in RangeOf(f)'
      BY <1>1, <2>2, <2>3 DEF Unresolved, RangeOf
    <3>2. Fresh(f, i)'
      BY <1>1, <2>1 DEF Fresh
    <3> QED BY <3>1, <3>2 DEF FreshlyLost
  <2>4. CASE /\ failures[f].lib = l
             /\ failures'[m].first <= failures[f].first /\ failures[f].last <= failures'[m].last
    <3>1. m \in Unresolved(k)'
      BY <1>1, <2>2, <2>4 DEF Unresolved
    <3>2. i \in RangeOf(m)'
      BY <1>1, <1>4, <2>2, <2>4 DEF RangeOf
    <3> QED BY <1>30, <3>1, <3>2 DEF FreshlyLost
  <2> QED BY <2>2, <2>3, <2>4 DEF Takes
<1>32. \A k : Kept(k)' = Kept(k)
  BY <1>1, SameKept
<1>33. \A i \in first .. last : FreshlyLost(l, i)'
  <2>1. m \in Unresolved(l)'
    BY <1>1 DEF Unresolved
  <2>2. \A i \in first .. last : i \in RangeOf(m)'
    BY <1>1 DEF RangeOf
  <2> QED BY <1>30, <2>1, <2>2 DEF FreshlyLost
<1>5. ASSUME NEW k \in Libraries PROVE Grows(k)
  <2>0. revisit' = revisit
    BY <1>1 DEF contents
  <2> SUFFICES ASSUME NEW f \in Unresolved(k), NEW i \in RangeOf(f)
               PROVE  \E g \in Unresolved(k)' : i \in RangeOf(g)'
    BY <1>31, <1>32, <2>0 DEF Grows
  <2>1. f \in FailureIds /\ failures[f].lib = k /\ failures[f].status \in {"open", "repairing"}
        /\ i \in Nat /\ failures[f].first <= i /\ i <= failures[f].last
    BY <1>4 DEF Unresolved, RangeOf
  <2>2. CASE f # m /\ failures'[f] = failures[f]
    <3>1. f \in Unresolved(k)' /\ i \in RangeOf(f)'
      BY <1>1, <2>1, <2>2 DEF Unresolved, RangeOf
    <3> QED BY <3>1
  <2>3. CASE /\ failures[f].lib = l
             /\ failures'[m].first <= failures[f].first /\ failures[f].last <= failures'[m].last
    <3>1. m \in Unresolved(k)'
      BY <1>1, <2>1, <2>3 DEF Unresolved
    <3>2. i \in RangeOf(m)'
      BY <1>1, <1>4, <2>1, <2>3 DEF RangeOf
    <3> QED BY <3>1, <3>2
  <2> QED BY <2>1, <2>2, <2>3 DEF Takes
<1>6. Covered(l, last)'
  <2>1. Covered(l, first - 1)'
    BY <1>5, CoveredGrows
  <2>2. m \in Unresolved(l)'
    BY <1>1 DEF Unresolved
  <2>3. \A i \in first .. last : i \in RangeOf(m)'
    BY <1>1 DEF RangeOf
  <2> QED BY <2>1, <2>2, <2>3 DEF Covered
<1>7. /\ \A k, S : JobsIn(k, S)' = JobsIn(k, S)
      /\ \A k : RetriedRepair(k)' <=> RetriedRepair(k)
      /\ \A k \in JobIds : AfterFailed(k)' <=> AfterFailed(k)
  BY <1>1, SameStatuses
<1>8. \A k \in Libraries : \A f \in Unresolved(k)' :
        \/ f = m /\ k = l
        \/ f # m /\ f \in Unresolved(k) /\ failures'[f].status = failures[f].status
  <2> SUFFICES ASSUME NEW k \in Libraries, NEW f \in Unresolved(k)'
               PROVE  \/ f = m /\ k = l
                      \/ f # m /\ f \in Unresolved(k) /\ failures'[f].status = failures[f].status
    OBVIOUS
  <2>1. f \in DOMAIN failures' /\ failures'[f].lib = k /\ failures'[f].status \in {"open", "repairing"}
    BY DEF Unresolved
  <2>2. CASE f = m
    <3>1. k = l
      BY <1>1, <2>1, <2>2
    <3> QED BY <2>2, <3>1
  <2>3. CASE f # m
    BY <1>2, <2>1, <2>3 DEF Unresolved
  <2> QED BY <2>2, <2>3
<1>9. ASSUME NEW j \in JobIds, jobs[j].status # "deleted", NEW f \in DOMAIN jobs[j].targets
      PROVE  f \in FailureIds /\ failures'[f] = failures[f]
  BY <1>3, <1>9 DEF Cursors, Rows, JobRows
<1>20. Rows'
  <2>1. JobRows'
    BY <1>1 DEF Rows, JobRows
  <2>2. FailureRows'
    <3> SUFFICES ASSUME NEW f \in DOMAIN failures'
                 PROVE  /\ DOMAIN failures'[f] = {"lib", "job", "first", "last", "through", "status"}
                        /\ failures'[f].job \in JobIds /\ failures'[f].lib = jobs[failures'[f].job].lib
                        /\ failures'[f].status \in FailureStatuses
                        /\ failures'[f].first \in Nat \ {0} /\ failures'[f].last \in Nat
                        /\ failures'[f].through \in Nat
      BY <1>1 DEF FailureRows
    <3>1. CASE f = m
      BY <3>1 DEF Takes, FailureStatuses
    <3>2. CASE f # m
      BY <1>2, <3>2 DEF Rows, FailureRows, FailureStatuses
    <3> QED BY <3>1, <3>2
  <2> QED BY <1>1, <2>1, <2>2 DEF Rows, LibraryRows, contents
<1>21. Bounded'
  <2>1. ASSUME NEW f \in DOMAIN failures'
        PROVE  /\ failures'[f].first <= failures'[f].last
               /\ failures'[f].last <= failures'[f].through
               /\ failures'[f].through <= latest'[failures'[f].lib]
    <3>1. CASE f = m
      BY <1>1, <3>1 DEF Takes
    <3>2. CASE f # m
      BY <1>1, <1>2, <3>2 DEF Bounded
    <3> QED BY <3>1, <3>2
  <2> QED BY <1>1, <2>1 DEF Bounded
<1>22. OneJob' /\ NothingAbsent' /\ HeldBelow' /\ NextPastFetched' /\ Marks'
  BY <1>1 DEF OneJob, NothingAbsent, HeldBelow, NextPastFetched, Marks, contents
<1>28. Revisits'
  <2> SUFFICES ASSUME NEW k \in Libraries, NEW i \in revisit[k]
               PROVE  AwaitsRevisit(k, i, Ongoing)' \/ FreshlyLost(k, i)'
    BY <1>1 DEF Revisits, contents
  <2>1. AwaitsRevisit(k, i, Ongoing)' <=> AwaitsRevisit(k, i, Ongoing)
    BY <1>1 DEF AwaitsRevisit, JobsIn, contents
  <2> QED BY <1>31, <2>1 DEF Revisits
<1>23. Coverage'
  <2>1. \A k \in Libraries : Covered(k, library[k].fetched)'
    BY <1>1, <1>5, CoveredGrows DEF Coverage
  <2>2. ASSUME NEW j \in JobIds, jobs[j].status # "deleted"
        PROVE  /\ Covered(jobs[j].lib, jobs[j].start - 1)'
               /\ Covered(jobs[j].lib, jobs[j].next - 1)'
               /\ Covered(jobs[j].lib, jobs[j].fetched)'
    BY <1>1, <1>5, <2>2, CoveredGrows DEF Coverage, Rows, JobRows
  <2>3. ASSUME NEW k \in Libraries, NEW f \in Unresolved(k)' PROVE Covered(k, failures[f].last)'
    <3>1. CASE f # m
      <4>1. f \in Unresolved(k) /\ f \in FailureIds /\ failures'[f].last = failures[f].last
        BY <1>2, <1>8, <3>1 DEF Unresolved
      <4> QED BY <1>5, <4>1, CoveredGrows DEF Coverage
    <3>2. CASE f = m /\ failures'[m].last = last
      BY <1>6, <1>8, <3>2
    <3>3. CASE f = m /\ \E g \in Unresolved(l) : failures'[m].last = failures[g].last
      <4>1. PICK g \in Unresolved(l) : failures'[m].last = failures[g].last
        BY <3>3
      <4>2. Covered(l, failures[g].last)
        BY DEF Coverage
      <4>3. k = l /\ Grows(l)
        BY <1>5, <1>8, <3>3
      <4> QED BY <3>3, <4>1, <4>2, <4>3, CoveredGrows
    <3> QED BY <3>1, <3>2, <3>3 DEF Takes
  <2> QED BY <1>1, <2>1, <2>2, <2>3 DEF Coverage
<1>24. Cursors'
  BY <1>1, <1>9, <1>32 DEF Cursors
<1>25. RepairMarks'
  <2> SUFFICES ASSUME NEW j \in JobIds, jobs[j].kind = "repair", jobs[j].status \in Recoverable,
                      ~AfterFailed(j), ~(jobs[j].fetched <= jobs[j].indexed)
               PROVE  \E f \in DOMAIN jobs[j].targets :
                        ~jobs[j].targets[f].done /\ jobs[j].fetched <= failures'[f].last
    BY <1>1, <1>7 DEF RepairMarks
  <2> QED BY <1>9 DEF RepairMarks, Recoverable
<1>26. EndedIsIndexed' /\ ReadyIsRepaired'
  BY <1>1, <1>7, <1>8 DEF EndedIsIndexed, ReadyIsRepaired
<1>27. NoFailureStranded'
  <2> SUFFICES ASSUME NEW k \in Libraries, NEW f \in Unresolved(k)',
                      failures'[f].status = "repairing"
               PROVE  \E j \in JobsIn(k, Ongoing)' : f \in Unfinished(j)'
    BY <1>1 DEF NoFailureStranded, Ongoing
  <2>1. f \in Unresolved(k) /\ f \in FailureIds /\ failures[f].status = "repairing"
    BY <1>1, <1>8 DEF Unresolved
  <2>2. PICK j \in JobsIn(k, Ongoing) : f \in Unfinished(j)
    BY <2>1 DEF NoFailureStranded, Ongoing
  <2>3. f \in Unfinished(j)'
    BY <1>1, <1>3, <2>1, <2>2 DEF Unfinished
  <2> QED BY <1>7, <2>2, <2>3
<1> QED BY <1>5, <1>6, <1>20, <1>21, <1>22, <1>23, <1>24, <1>25, <1>26, <1>27, <1>28, <1>33

-----------------------------------------------------------------------------
(* A job that may be created for library l.                                *)
NewRow(l, r, S) ==
  /\ DOMAIN r = JobFields
  /\ r.lib = l /\ r.kind \in Kinds /\ r.status = "queued" /\ r.control = "none"
  /\ r.start \in Nat \ {0} /\ r.next \in Nat \ {0}
  /\ r.snap \in Nat /\ r.fetched \in Nat /\ r.indexed \in Nat
  /\ r.indexed <= r.fetched /\ r.fetched < r.next /\ r.snap <= latest[l]
  /\ Covered(l, r.start - 1) /\ Covered(l, r.next - 1)
  /\ r.fetched <= library[l].fetched /\ r.indexed <= library[l].indexed
  /\ \/ r.fetched = library[l].fetched /\ r.indexed = library[l].indexed
     \/ library[l].fetched <= r.snap
  /\ DOMAIN r.targets \subseteq FailureIds
  /\ r.kind # "repair" => DOMAIN r.targets = {}
  /\ \A f \in DOMAIN r.targets :
       /\ DOMAIN r.targets[f] = {"next", "done"}
       /\ r.targets[f].next \in Nat \ {0} /\ ~r.targets[f].done
       /\ failures[f].lib = l /\ (f \in S \/ failures[f].status = "repairing")
       /\ failures[f].first .. r.targets[f].next - 1 \subseteq Kept(l)
       /\ \/ r.targets[f].next = failures[f].first
          \/ \E k \in JobIds : /\ jobs[k].status # "deleted" /\ f \in DOMAIN jobs[k].targets
                               /\ r.targets[f].next = jobs[k].targets[f].next
  /\ r.kind = "repair" =>
       \/ r.fetched <= r.indexed
       \/ \E i \in JobsIn(l, {"failed"}) : jobs[i].kind = "repair"
  /\ S \subseteq DOMAIN r.targets /\ \A f \in S : failures[f].status = "open"

(* With a change of the mode, all below the watermark is to be read again  *)
(* by the new job.                                                         *)
Renews(l, r) ==
  /\ revisit' = [revisit EXCEPT ![l] = 1 .. library[l].fetched]
  /\ r.kind = "full" /\ r.next = 1 /\ library[l].fetched <= r.snap

(* It gets the row n; the failures S come under repair by it.              *)
Inserts(l, n, r, S) ==
  /\ l \in Libraries /\ JobsIn(l, Recoverable) = {}
  /\ UNCHANGED <<held, latest>>
  /\ Renews(l, r) \/ (revisit' = revisit /\ library'[l].mode = library[l].mode)
  /\ n \in Nat \ {0} /\ n \notin JobIds /\ \A j \in JobIds : j < n
  /\ DOMAIN jobs' = JobIds \union {n} /\ Numbered(jobs')
  /\ jobs'[n] = r /\ \A j \in JobIds : jobs'[j] = jobs[j]
  /\ DOMAIN library' = Libraries /\ \A m \in Libraries \ {l} : library'[m] = library[m]
  /\ DOMAIN library'[l] = {"mode", "status", "fetched", "indexed"}
  /\ library'[l].mode \in Modes \union {"messages"} /\ library'[l].status = "indexing"
  /\ library'[l].fetched = library[l].fetched /\ library'[l].indexed = library[l].indexed
  /\ DOMAIN failures' = FailureIds /\ Numbered(failures')
  /\ \A f \in FailureIds :
       /\ DOMAIN failures'[f] = {"lib", "job", "first", "last", "through", "status"}
       /\ failures'[f].lib = failures[f].lib /\ failures'[f].job = failures[f].job
       /\ failures'[f].first = failures[f].first /\ failures'[f].last = failures[f].last
       /\ failures'[f].through = failures[f].through
       /\ failures'[f].status = (IF f \in S THEN "repairing" ELSE failures[f].status)

(* A new job of a library that has no recoverable one keeps the tables     *)
(* correct.                                                                *)
LEMMA InsertKeeps ==
  ASSUME StoreInv, NEW l, NEW n, NEW r, NEW S, NewRow(l, r, S), Inserts(l, n, r, S)
  PROVE  StoreInv' /\ \A m \in Libraries : Grows(m)
<1> USE DEF StoreInv
<1>1. /\ l \in Libraries /\ JobsIn(l, Recoverable) = {}
      /\ held' = held /\ latest' = latest
      /\ n \in Nat \ {0} /\ n \notin JobIds /\ \A j \in JobIds : j < n
      /\ DOMAIN jobs' = JobIds \union {n} /\ Numbered(jobs')
      /\ jobs'[n] = r /\ \A j \in JobIds : jobs'[j] = jobs[j]
      /\ DOMAIN library' = Libraries /\ \A m \in Libraries \ {l} : library'[m] = library[m]
      /\ library'[l].status = "indexing"
      /\ library'[l].fetched = library[l].fetched /\ library'[l].indexed = library[l].indexed
  BY DEF Inserts
<1>2. /\ DOMAIN failures' = FailureIds /\ Numbered(failures')
      /\ \A f \in FailureIds :
           /\ DOMAIN failures'[f] = {"lib", "job", "first", "last", "through", "status"}
           /\ failures'[f].lib = failures[f].lib /\ failures'[f].job = failures[f].job
           /\ failures'[f].first = failures[f].first /\ failures'[f].last = failures[f].last
           /\ failures'[f].through = failures[f].through
           /\ failures'[f].status = (IF f \in S THEN "repairing" ELSE failures[f].status)
  BY DEF Inserts
<1>3. /\ r.lib = l /\ r.kind \in Kinds /\ r.status = "queued" /\ r.control = "none"
      /\ r.fetched \in Nat /\ r.indexed \in Nat /\ r.snap \in Nat
      /\ S \subseteq DOMAIN r.targets /\ \A f \in S : failures[f].status = "open"
      /\ DOMAIN r.targets \subseteq FailureIds
  BY DEF NewRow
<1>4. /\ \A m : Unresolved(m)' = Unresolved(m)
      /\ \A f \in FailureIds : RangeOf(f)' = RangeOf(f)
  <2>1. \A f \in FailureIds : failures'[f].status \in {"open", "repairing"}
                                <=> failures[f].status \in {"open", "repairing"}
    BY <1>2, <1>3
  <2> QED BY <1>2, <2>1 DEF Unresolved, RangeOf
<1>31. /\ held \in [Libraries -> SUBSET (Contents \X Messages)]
       /\ revisit \in [Libraries -> SUBSET Messages] /\ library[l].fetched \in Nat
       /\ library[l].fetched <= latest[l] /\ latest[l] \in Messages /\ MaxMessage \in Nat
  BY <1>1, ScanStoreAssumption DEF Rows, LibraryRows, Bounded
<1>32. ASSUME NEW m \in Libraries PROVE Kept(m) \subseteq Kept(m)'
  <2>1. CASE revisit'[m] = revisit[m] /\ library'[m].mode = library[m].mode
    BY <1>1, <2>1 DEF Kept
  <2>2. CASE m = l /\ revisit'[l] = 1 .. library[l].fetched
    <3>1. \E c : c \in Stores(library[l].mode)
      <4>1. "media" \in Contents /\ "posts" \in Contents
        BY DEF Contents
      <4> QED BY <4>1 DEF Stores
    <3>2. held[l] \subseteq Contents \X (1 .. library[l].fetched)
          /\ revisit[l] \subseteq 1 .. library[l].fetched
      BY <1>1 DEF HeldBelow
    <3>3. Kept(l) \subseteq 1 .. library[l].fetched
      BY <3>1, <3>2 DEF Kept
    <3> QED BY <2>2, <3>3 DEF Kept
  <2> QED BY <1>1, <1>31, <2>1, <2>2 DEF Inserts, Renews
<1>33. ASSUME NEW m \in Libraries, NEW i \in Nat, FreshlyLost(m, i) PROVE FreshlyLost(m, i)'
  <2>1. PICK f \in Unresolved(m) : i \in RangeOf(f) /\ Fresh(f, i)
    BY <1>33 DEF FreshlyLost
  <2>5. f \in FailureIds
    BY <2>1 DEF Unresolved
  <2>6. failures[f].first \in Nat /\ failures[f].last \in Nat
    BY <2>5 DEF Rows, FailureRows
  <2>7. failures[f].first <= i
    BY <2>1, <2>6 DEF RangeOf
  <2>2. f \in FailureIds /\ failures[f].first <= i /\ f \in Unresolved(m)' /\ i \in RangeOf(f)'
    BY <1>4, <2>1, <2>5, <2>7
  <2>3. f \in DOMAIN r.targets => r.targets[f].next <= i
    BY <2>1, <2>2 DEF NewRow, Fresh
  <2>4. Fresh(f, i)'
    BY <1>1, <2>1, <2>3 DEF Fresh
  <2> QED BY <2>2, <2>4 DEF FreshlyLost
<1>5. ASSUME NEW m \in Libraries PROVE Grows(m)
  <2>1. revisit[m] \subseteq Nat
    BY <1>31 DEF Messages
  <2>2. \A f \in Unresolved(m) : \A i \in RangeOf(f) : \E g \in Unresolved(m)' : i \in RangeOf(g)'
    BY <1>4 DEF Unresolved
  <2> QED BY <1>32, <1>33, <2>1, <2>2 DEF Grows
<1>6. ASSUME NEW m, NEW T PROVE JobsIn(m, T) \subseteq JobsIn(m, T)'
  BY <1>1 DEF JobsIn
<1>7. ASSUME NEW m \in Libraries \ {l}, NEW T PROVE JobsIn(m, T)' = JobsIn(m, T)
  BY <1>1, <1>3 DEF JobsIn
<1>8. \A k \in JobIds : jobs[k].lib = l => jobs[k].status \notin Recoverable
  BY <1>1 DEF JobsIn
<1>9. /\ \A k \in JobIds : jobs[k].lib \in Libraries
      /\ library[l].fetched \in Nat /\ library[l].indexed \in Nat
  BY <1>1 DEF Rows, JobRows, LibraryRows
<1>10. "queued" \in Recoverable /\ "queued" \in JobStatuses \ {"deleted"}
  BY DEF Recoverable, JobStatuses
<1>20. Rows'
  <2>1. LibraryRows'
    BY <1>1 DEF Inserts, Rows, LibraryRows, Statuses
  <2>2. JobRows'
    <3> SUFFICES ASSUME NEW j \in JobIds \union {n}
                 PROVE  /\ DOMAIN jobs'[j] = JobFields
                        /\ jobs'[j].lib \in Libraries /\ jobs'[j].kind \in Kinds
                        /\ jobs'[j].status \in JobStatuses
                        /\ jobs'[j].control \in {"none", "pause", "stop"}
                        /\ jobs'[j].start \in Nat \ {0} /\ jobs'[j].next \in Nat \ {0}
                        /\ jobs'[j].snap \in Nat /\ jobs'[j].fetched \in Nat /\ jobs'[j].indexed \in Nat
                        /\ DOMAIN jobs'[j].targets \subseteq FailureIds
                        /\ jobs'[j].kind # "repair" => DOMAIN jobs'[j].targets = {}
                        /\ \A f \in DOMAIN jobs'[j].targets :
                             /\ DOMAIN jobs'[j].targets[f] = {"next", "done"}
                             /\ jobs'[j].targets[f].next \in Nat \ {0}
      BY <1>1, <1>2 DEF JobRows
    <3>1. CASE j = n
      BY <1>1, <1>10, <3>1 DEF NewRow
    <3>2. CASE j # n
      BY <1>1, <3>2 DEF Rows, JobRows
    <3> QED BY <3>1, <3>2
  <2>3. FailureRows'
    BY <1>1, <1>2 DEF Rows, FailureRows, FailureStatuses
  <2>4. revisit' \in [Libraries -> SUBSET Messages]
    <3>1. 1 .. library[l].fetched \subseteq Messages
      BY <1>31 DEF Messages
    <3> QED BY <1>1, <1>31, <3>1 DEF Inserts, Renews
  <2> QED BY <1>1, <1>2, <2>1, <2>2, <2>3, <2>4 DEF Rows
<1>21. Bounded'
  <2>1. \A m \in Libraries : library'[m].indexed <= library'[m].fetched
                             /\ library'[m].fetched <= latest'[m]
    BY <1>1 DEF Bounded
  <2>2. ASSUME NEW j \in JobIds \union {n}
        PROVE  /\ jobs'[j].indexed <= jobs'[j].fetched
               /\ jobs'[j].snap <= latest'[jobs'[j].lib]
               /\ jobs'[j].control # "none" => jobs'[j].status = "running"
    <3>1. CASE j = n
      BY <1>1, <3>1 DEF NewRow
    <3>2. CASE j # n
      BY <1>1, <3>2 DEF Bounded
    <3> QED BY <3>1, <3>2
  <2> QED BY <1>1, <1>2, <2>1, <2>2 DEF Bounded
<1>22. OneJob'
  <2> SUFFICES ASSUME NEW j \in JobIds \union {n}
               PROVE  LET m == jobs'[j].lib IN
                 /\ jobs'[j].status # "deleted" => library'[m].status # "absent"
                 /\ jobs'[j].status \in Recoverable =>
                      /\ library'[m].status \notin {"ready", "partial"}
                      /\ \A k \in JobIds \union {n} : jobs'[k].lib = m => k <= j
    BY <1>1 DEF OneJob
  <2>1. \A k \in JobIds : k \in Nat
    BY NumbersAreNat DEF Rows
  <2>2. CASE j = n
    BY <1>1, <1>3, <2>1, <2>2
  <2>3. CASE j # n /\ jobs[j].lib = l
    BY <1>1, <1>8, <2>3
  <2>4. CASE j # n /\ jobs[j].lib # l
    BY <1>1, <1>3, <1>9, <2>4 DEF OneJob
  <2> QED BY <2>2, <2>3, <2>4
<1>34. \A m \in Libraries : revisit'[m] = revisit[m] \/ (m = l /\ Renews(l, r)
                                                        /\ revisit'[l] = 1 .. library[l].fetched)
  BY <1>1, <1>31 DEF Inserts, Renews
<1>23. NothingAbsent' /\ HeldBelow'
  <2>1. NothingAbsent'
    BY <1>1, <1>34 DEF NothingAbsent
  <2>2. \A m \in Libraries : library'[m].fetched = library[m].fetched
    BY <1>1
  <2>3. HeldBelow'
    BY <1>1, <1>34, <2>2 DEF HeldBelow
  <2> QED BY <2>1, <2>3
<1>35. NextPastFetched'
  BY <1>1 DEF NextPastFetched, NewRow
<1>36. Revisits'
  <2> SUFFICES ASSUME NEW m \in Libraries, NEW i \in revisit'[m]
               PROVE  AwaitsRevisit(m, i, Ongoing)' \/ FreshlyLost(m, i)'
    BY DEF Revisits
  <2>1. CASE revisit'[m] = revisit[m]
    <3>1. CASE FreshlyLost(m, i)
      BY <1>31, <1>33, <2>1, <3>1 DEF Messages
    <3>2. CASE AwaitsRevisit(m, i, Ongoing)
      <4>1. PICK k \in JobsIn(m, Ongoing) :
              jobs[k].kind = "full" /\ jobs[k].next <= i /\ i <= jobs[k].snap
        BY <3>2 DEF AwaitsRevisit
      <4>2. k \in JobsIn(m, Ongoing)' /\ jobs'[k] = jobs[k]
        BY <1>1, <1>6, <4>1 DEF JobsIn
      <4> QED BY <4>1, <4>2 DEF AwaitsRevisit
    <3> QED BY <2>1, <3>1, <3>2 DEF Revisits
  <2>2. CASE /\ m = l /\ Renews(l, r) /\ revisit'[l] = 1 .. library[l].fetched
    <3>1. n \in JobsIn(l, Ongoing)'
      BY <1>1, <1>3, <1>10 DEF JobsIn, Ongoing
    <3>2. 1 <= i /\ i <= r.snap
      BY <1>3, <1>31, <2>2 DEF Renews
    <3>3. jobs'[n].kind = "full" /\ jobs'[n].next <= i /\ i <= jobs'[n].snap
      BY <1>1, <2>2, <3>2 DEF Renews
    <3> QED BY <2>2, <3>1, <3>3 DEF AwaitsRevisit
  <2> QED BY <1>34, <2>1, <2>2
<1>24. Coverage'
  <2>1. ASSUME NEW m \in Libraries PROVE Covered(m, library[m].fetched)'
    <3>1. library'[m].fetched = library[m].fetched
      BY <1>1
    <3> QED BY <1>5, <3>1, CoveredGrows DEF Coverage
  <2>2. ASSUME NEW j \in JobIds \union {n}, jobs'[j].status # "deleted"
        PROVE  /\ Covered(jobs[j].lib, jobs[j].start - 1)'
               /\ Covered(jobs[j].lib, jobs[j].next - 1)'
               /\ Covered(jobs[j].lib, jobs[j].fetched)'
    <3>1. CASE j = n
      <4>1. Covered(l, r.start - 1) /\ Covered(l, r.next - 1) /\ Covered(l, r.fetched)
        <5>1. Covered(l, library[l].fetched) /\ r.fetched <= library[l].fetched
          BY <1>1 DEF Coverage, NewRow
        <5>2. Covered(l, r.fetched)
          BY <1>3, <1>9, <5>1, CoveredBelow
        <5> QED BY <5>2 DEF NewRow
      <4> QED BY <1>1, <1>3, <1>5, <3>1, <4>1, CoveredGrows
    <3>2. CASE j # n
      <4>1. j \in JobIds /\ jobs'[j] = jobs[j]
        BY <1>1, <3>2
      <4> QED BY <1>5, <1>9, <2>2, <4>1, CoveredGrows DEF Coverage
    <3> QED BY <3>1, <3>2
  <2>3. ASSUME NEW m \in Libraries, NEW f \in Unresolved(m)' PROVE Covered(m, failures[f].last)'
    <3>1. f \in Unresolved(m) /\ failures'[f].last = failures[f].last
      BY <1>2, <1>4 DEF Unresolved
    <3> QED BY <1>5, <3>1, CoveredGrows DEF Coverage
  <2> QED BY <1>1, <2>1, <2>2, <2>3 DEF Coverage
<1>25. Cursors'
  <2> SUFFICES ASSUME NEW j \in JobIds \union {n}, jobs'[j].status # "deleted",
                      NEW f \in DOMAIN jobs'[j].targets
               PROVE  /\ failures'[f].lib = jobs'[j].lib
                      /\ failures'[f].status \in {"repairing", "resolved"}
                      /\ failures'[f].first .. jobs'[j].targets[f].next - 1 \subseteq Kept(jobs[j].lib)'
                      /\ jobs'[j].status \in Recoverable /\ ~jobs'[j].targets[f].done
                           => failures'[f].status = "repairing"
    BY <1>1 DEF Cursors
  <2>1. CASE j = n
    <3>1. /\ f \in DOMAIN r.targets /\ f \in FailureIds /\ failures[f].lib = l
          /\ f \in S \/ failures[f].status = "repairing"
          /\ failures[f].first .. r.targets[f].next - 1 \subseteq Kept(l)
      BY <1>1, <1>3, <2>1 DEF NewRow
    <3>2. failures'[f].status = "repairing" /\ failures'[f].lib = l /\ failures'[f].first = failures[f].first
      BY <1>2, <3>1
    <3>3. jobs'[j].lib = l /\ Kept(l) \subseteq Kept(l)'
      BY <1>1, <1>3, <1>32, <2>1
    <3> QED BY <1>1, <1>3, <2>1, <3>1, <3>2, <3>3
  <2>2. CASE j # n
    <3>1. jobs'[j] = jobs[j] /\ j \in JobIds /\ f \in FailureIds
      BY <1>1, <2>2 DEF Rows, JobRows
    <3>2. failures[f].status \in {"repairing", "resolved"}
      BY <3>1 DEF Cursors
    <3>3. /\ failures'[f].lib = failures[f].lib /\ failures'[f].status = failures[f].status
          /\ failures'[f].first = failures[f].first
      BY <1>2, <1>3, <3>1, <3>2
    <3>4. PICK m \in Libraries : m = jobs[j].lib
      BY <1>9, <3>1
    <3>5. Kept(m) \subseteq Kept(m)'
      BY <1>32
    <3> QED BY <3>1, <3>3, <3>4, <3>5 DEF Cursors
  <2> QED BY <2>1, <2>2
<1>26. Marks'
  <2> SUFFICES ASSUME NEW j \in JobIds \union {n}
               PROVE  LET m == jobs'[j].lib IN
                 /\ jobs'[j].status # "deleted" =>
                      jobs'[j].fetched <= library'[m].fetched /\ jobs'[j].indexed <= library'[m].indexed
                 /\ jobs'[j].status \in Recoverable =>
                      \/ jobs'[j].fetched = library'[m].fetched /\ jobs'[j].indexed = library'[m].indexed
                      \/ library'[m].fetched <= jobs'[j].snap
    BY <1>1 DEF Marks
  <2>1. CASE j = n
    BY <1>1, <1>3, <2>1 DEF NewRow
  <2>2. CASE j # n
    <3>1. jobs'[j] = jobs[j] /\ jobs[j].lib \in Libraries
      BY <1>1, <1>9, <2>2
    <3>2. library'[jobs[j].lib].fetched = library[jobs[j].lib].fetched
          /\ library'[jobs[j].lib].indexed = library[jobs[j].lib].indexed
      BY <1>1, <3>1
    <3> QED BY <2>2, <3>1, <3>2 DEF Marks
  <2> QED BY <2>1, <2>2
<1>27. RepairMarks'
  <2> SUFFICES ASSUME NEW j \in JobIds \union {n}, jobs'[j].kind = "repair",
                      jobs'[j].status \in Recoverable
               PROVE  \/ AfterFailed(j)'
                      \/ jobs'[j].fetched <= jobs'[j].indexed
                      \/ \E f \in DOMAIN jobs'[j].targets :
                           ~jobs'[j].targets[f].done /\ jobs'[j].fetched <= failures'[f].last
    BY <1>1 DEF RepairMarks
  <2>1. CASE j = n /\ r.fetched <= r.indexed
    BY <1>1, <2>1
  <2>2. CASE j = n /\ ~(r.fetched <= r.indexed)
    <3>1. PICK i \in JobsIn(l, {"failed"}) : jobs[i].kind = "repair"
      BY <1>1, <2>2 DEF NewRow
    <3>2. i \in JobIds /\ i < n /\ i \in JobsIn(l, {"failed"})' /\ jobs'[i].kind = "repair"
      BY <1>1, <1>6, <3>1 DEF JobsIn
    <3> QED BY <1>1, <1>3, <2>2, <3>2 DEF AfterFailed
  <2>3. CASE j # n
    <3>1. jobs'[j] = jobs[j] /\ j \in JobIds
      BY <1>1, <2>3
    <3>2. CASE AfterFailed(j)
      <4>0. PICK m : m = jobs[j].lib
        OBVIOUS
      <4>1. PICK i \in JobsIn(m, {"failed"}) : jobs[i].kind = "repair" /\ i < j
        BY <3>2, <4>0 DEF AfterFailed
      <4>2. i \in JobsIn(m, {"failed"})' /\ jobs'[i].kind = "repair" /\ jobs'[j].lib = m
        BY <1>1, <1>6, <3>1, <4>0, <4>1 DEF JobsIn
      <4> QED BY <4>1, <4>2 DEF AfterFailed
    <3>3. CASE jobs[j].fetched <= jobs[j].indexed
      BY <3>1, <3>3
    <3>4. CASE \E f \in DOMAIN jobs[j].targets :
                 ~jobs[j].targets[f].done /\ jobs[j].fetched <= failures[f].last
      <4>1. DOMAIN jobs[j].targets \subseteq FailureIds
        BY <3>1 DEF Rows, JobRows
      <4> QED BY <1>2, <3>1, <3>4, <4>1
    <3> QED BY <2>3, <3>1, <3>2, <3>3, <3>4 DEF RepairMarks
  <2> QED BY <2>1, <2>2, <2>3
<1>28. EndedIsIndexed'
  <2> SUFFICES ASSUME NEW m \in Libraries \ {l}, library[m].status \in {"ready", "partial"},
                      RetriedRepair(m)
               PROVE  RetriedRepair(m)'
    BY <1>1 DEF EndedIsIndexed
  <2>1. PICK i \in JobsIn(m, {"failed"}), j \in JobsIn(m, Finished) :
          /\ jobs[i].kind = "repair" /\ jobs[j].kind = "repair" /\ i < j
          /\ \A k \in JobsIn(m, JobStatuses) : k <= j
    BY DEF RetriedRepair
  <2>2. jobs'[i] = jobs[i] /\ jobs'[j] = jobs[j]
    BY <1>1, <2>1 DEF JobsIn
  <2> QED BY <1>7, <2>1, <2>2 DEF RetriedRepair
<1>29. ReadyIsRepaired'
  BY <1>1, <1>4 DEF ReadyIsRepaired
<1>30. NoFailureStranded'
  <2> SUFFICES ASSUME NEW m \in Libraries, NEW f \in Unresolved(m),
                      failures'[f].status = "repairing"
               PROVE  \E j \in JobsIn(m, Ongoing)' : f \in Unfinished(j)'
    BY <1>1, <1>4 DEF NoFailureStranded, Ongoing
  <2>1. f \in FailureIds /\ failures[f].lib = m
    BY DEF Unresolved
  <2>2. CASE f \in S
    <3>1. f \in DOMAIN r.targets /\ ~r.targets[f].done /\ m = l
      BY <1>3, <2>1, <2>2 DEF NewRow
    <3>2. n \in JobsIn(m, Ongoing)'
      BY <1>1, <1>3, <1>10, <3>1 DEF JobsIn, Ongoing
    <3>3. f \in Unfinished(n)'
      BY <1>1, <1>2, <2>1, <2>2, <3>1 DEF Unfinished
    <3> QED BY <3>2, <3>3
  <2>3. CASE f \notin S
    <3>1. failures[f].status = "repairing"
      BY <1>2, <2>1, <2>3
    <3>2. PICK j \in JobsIn(m, Ongoing) : f \in Unfinished(j)
      BY <3>1 DEF NoFailureStranded, Ongoing
    <3>3. j \in JobsIn(m, Ongoing)' /\ j \in JobIds
      BY <1>6, <3>2 DEF JobsIn
    <3>4. f \in Unfinished(j)'
      BY <1>1, <2>1, <3>1, <3>2, <3>3 DEF Unfinished
    <3> QED BY <3>3, <3>4
  <2> QED BY <2>2, <2>3
<1> QED BY <1>5, <1>20, <1>21, <1>22, <1>23, <1>24, <1>25, <1>26, <1>27, <1>28, <1>29, <1>30,
           <1>35, <1>36

(* What the transactions that create a job have in common.                 *)
LEMMA InsertInserts ==
  ASSUME StoreInv, NEW l \in Libraries, JobsIn(l, Recoverable) = {},
         NEW r, jobs' = Append(jobs, r), NEW q, library' = [library EXCEPT ![l] = q],
         DOMAIN q = {"mode", "status", "fetched", "indexed"},
         q.mode \in Modes \union {"messages"}, q.status = "indexing",
         q.fetched = library[l].fetched, q.indexed = library[l].indexed,
         UNCHANGED <<held, latest>>, NEW S,
         Renews(l, r) \/ (revisit' = revisit /\ q.mode = library[l].mode),
         failures' = [f \in FailureIds |->
           IF f \in S THEN [failures[f] EXCEPT !.status = "repairing"] ELSE failures[f]]
  PROVE  Inserts(l, Len(jobs) + 1, r, S)
<1> DEFINE n == Len(jobs) + 1
<1>1. Numbered(jobs) /\ Numbered(failures) /\ DOMAIN library = Libraries
      /\ \A f \in FailureIds :
           DOMAIN failures[f] = {"lib", "job", "first", "last", "through", "status"}
  BY DEF StoreInv, Rows, LibraryRows, FailureRows
<1>2. /\ n \in Nat \ {0} /\ n \notin JobIds /\ \A j \in JobIds : j < n
      /\ DOMAIN jobs' = JobIds \union {n} /\ Numbered(jobs')
      /\ jobs'[n] = r /\ \A j \in JobIds : jobs'[j] = jobs[j]
  BY <1>1, AppendRow
<1> HIDE DEF n
<1>3. DOMAIN failures' = FailureIds /\ Numbered(failures')
  BY <1>1, SameNumbers
<1>4. \A f \in FailureIds :
        /\ DOMAIN failures'[f] = {"lib", "job", "first", "last", "through", "status"}
        /\ failures'[f].lib = failures[f].lib /\ failures'[f].job = failures[f].job
        /\ failures'[f].first = failures[f].first /\ failures'[f].last = failures[f].last
        /\ failures'[f].through = failures[f].through
        /\ failures'[f].status = (IF f \in S THEN "repairing" ELSE failures[f].status)
  BY <1>1
<1>5. DOMAIN library' = Libraries /\ library'[l] = q
      /\ \A m \in Libraries \ {l} : library'[m] = library[m]
  BY <1>1
<1>6. Inserts(l, n, r, S)
  BY <1>2, <1>3, <1>4, <1>5 DEF Inserts
<1> QED BY <1>6 DEF n

(* Changes without failures to repair.                                     *)
LEMMA SameFailures ==
  ASSUME StoreInv, failures' = failures
  PROVE  failures' = [f \in FailureIds |->
           IF f \in {} THEN [failures[f] EXCEPT !.status = "repairing"] ELSE failures[f]]
<1>1. \E n \in Nat : DOMAIN failures = 1 .. n /\ failures = [f \in 1 .. n |-> failures[f]]
  <2>1. failures \in Seq({failures[i] : i \in FailureIds})
    BY DEF StoreInv, Rows, Numbered
  <2> QED BY <2>1, LenProperties
<1>2. \A f : f \notin {}
  OBVIOUS
<1> QED BY <1>1, <1>2

(* create_scan_job keeps the tables correct.                               *)
LEMMA CreateScanKeeps ==
  ASSUME StoreInv, NEW l \in Libraries, NEW kind \in {"full", "incremental"},
         NEW first \in Nat \ {0}, NEW snap \in Nat, snap <= latest[l], Covered(l, first - 1),
         CreateScanJob(l, kind, first, snap), latest' = latest
  PROVE  StoreInv' /\ (\A m \in Libraries : Grows(m)) /\ \E n, r : Inserts(l, n, r, {})
<1> DEFINE r == NewJob(l, kind, first, snap, <<>>)
           q == [library[l] EXCEPT !.status = "indexing"]
           b == library[l].fetched
<1>1. /\ MayCreate(l) /\ snap >= first - 1
      /\ jobs' = Append(jobs, r) /\ library' = [library EXCEPT ![l] = q]
      /\ UNCHANGED <<failures, contents>>
  BY DEF CreateScanJob, Insert
<1>2. /\ DOMAIN library[l] = {"mode", "status", "fetched", "indexed"}
      /\ library[l].mode \in Modes \union {"messages"}
      /\ b \in Nat /\ library[l].indexed \in Nat /\ library[l].indexed <= b
      /\ Covered(l, b)
  BY DEF StoreInv, Rows, LibraryRows, Bounded, Coverage
<1>3. /\ DOMAIN q = {"mode", "status", "fetched", "indexed"}
      /\ q.mode = library[l].mode /\ q.status = "indexing"
      /\ q.fetched = b /\ q.indexed = library[l].indexed
  BY <1>2
<1>4. /\ Max({first, b + 1}) \in {first, b + 1}
  BY <1>2, b + 1 \in Nat, MaxOfTwo
<1>5. /\ DOMAIN r = JobFields /\ r.lib = l /\ r.kind = kind /\ r.status = "queued"
      /\ r.control = "none" /\ r.start = first /\ r.snap = snap
      /\ r.next = Max({first, b + 1}) /\ r.fetched = b /\ r.indexed = library[l].indexed
      /\ DOMAIN r.targets = {}
  BY DEF NewJob, JobFields
<1> HIDE DEF r, q
<1>6. Covered(l, r.next - 1) /\ r.next \in Nat \ {0}
  BY <1>2, <1>4, <1>5
<1>9. r.fetched < r.next
  <2>1. b + 1 <= Max({first, b + 1})
    BY <1>2, b + 1 \in Nat, MaxOfTwo
  <2> QED BY <1>2, <1>4, <1>5, <2>1
<1> HIDE DEF b
<1>7. NewRow(l, r, {})
  BY <1>2, <1>5, <1>6, <1>9 DEF NewRow, Kinds, b
<1>8. Inserts(l, Len(jobs) + 1, r, {})
  BY <1>1, <1>2, <1>3, SameFailures, InsertInserts DEF MayCreate, b, contents
<1> QED BY <1>7, <1>8, InsertKeeps

(* create_or_get_library_with_full_job keeps the tables correct for a new  *)
(* library.                                                                *)
LEMMA CreateLibraryKeeps ==
  ASSUME StoreInv, NEW l \in Libraries, NEW mode \in Modes,
         CreateLibrary(l, mode, latest[l]), latest' = latest
  PROVE  StoreInv' /\ (\A m \in Libraries : Grows(m)) /\ \E n, r : Inserts(l, n, r, {})
<1> DEFINE q == [mode |-> mode, status |-> "indexing", fetched |-> 0, indexed |-> 0]
           r == [lib |-> l, kind |-> "full", status |-> "queued", control |-> "none",
                 waits |-> FALSE, start |-> 1, snap |-> latest[l], next |-> 1,
                 fetched |-> 0, indexed |-> 0, retries |-> 0, targets |-> <<>>]
<1>1. /\ library[l].status = "absent"
      /\ jobs' = Append(jobs, r) /\ library' = [library EXCEPT ![l] = q]
      /\ held' = [held EXCEPT ![l] = {}] /\ revisit' = [revisit EXCEPT ![l] = {}]
      /\ failures' = failures
  BY DEF CreateLibrary
<1>2. /\ library[l].fetched = 0 /\ library[l].indexed = 0 /\ held[l] = {} /\ latest[l] \in Nat
      /\ held \in [Libraries -> SUBSET (Contents \X Messages)]
  BY <1>1 DEF StoreInv, NothingAbsent, Rows, Messages
<1>3. /\ DOMAIN q = {"mode", "status", "fetched", "indexed"}
      /\ q.mode = mode /\ q.status = "indexing" /\ q.fetched = 0 /\ q.indexed = 0
  OBVIOUS
<1>4. held' = held /\ revisit' = [revisit EXCEPT ![l] = 1 .. library[l].fetched]
  <2>1. 1 .. library[l].fetched = {}
    BY <1>2
  <2> QED BY <1>1, <1>2, <2>1
<1>5. /\ DOMAIN r = JobFields /\ r.lib = l /\ r.kind = "full" /\ r.status = "queued"
      /\ r.control = "none" /\ r.start = 1 /\ r.snap = latest[l]
      /\ r.next = 1 /\ r.fetched = 0 /\ r.indexed = 0
      /\ DOMAIN r.targets = {}
  BY DEF JobFields
<1> HIDE DEF r, q
<1>6. JobsIn(l, Recoverable) = {}
  BY <1>1 DEF StoreInv, OneJob, JobsIn, Recoverable
<1>7. Covered(l, 0)
  BY DEF Covered
<1>8. NewRow(l, r, {})
  BY <1>2, <1>5, <1>7 DEF NewRow, Kinds
<1>10. Renews(l, r)
  BY <1>2, <1>4, <1>5 DEF Renews
<1>9. Inserts(l, Len(jobs) + 1, r, {})
  BY <1>1, <1>2, <1>3, <1>4, <1>6, <1>10, SameFailures, InsertInserts
<1> QED BY <1>8, <1>9, InsertKeeps

(* It keeps them correct for a library whose mode it changes.              *)
LEMMA ChangeModeKeeps ==
  ASSUME StoreInv, NEW l \in Libraries, NEW mode \in Modes,
         ChangeMode(l, mode, latest[l]), latest' = latest
  PROVE  StoreInv' /\ (\A m \in Libraries : Grows(m)) /\ \E n, r : Inserts(l, n, r, {})
<1> DEFINE q == [library[l] EXCEPT !.mode = mode, !.status = "indexing"]
           r == [NewJob(l, "full", 1, latest[l], <<>>)
                   EXCEPT !.next = 1, !.fetched = 0, !.indexed = 0]
<1>1. /\ MayCreate(l)
      /\ jobs' = Append(jobs, r) /\ library' = [library EXCEPT ![l] = q]
      /\ revisit' = [revisit EXCEPT ![l] = 1 .. library[l].fetched]
      /\ UNCHANGED <<failures, held>>
  BY DEF ChangeMode
<1>2. /\ DOMAIN library[l] = {"mode", "status", "fetched", "indexed"}
      /\ library[l].fetched \in Nat /\ library[l].indexed \in Nat /\ latest[l] \in Nat
      /\ library[l].fetched <= latest[l]
  BY DEF StoreInv, Rows, LibraryRows, Bounded, Messages
<1>3. /\ DOMAIN q = {"mode", "status", "fetched", "indexed"}
      /\ q.mode = mode /\ q.status = "indexing"
      /\ q.fetched = library[l].fetched /\ q.indexed = library[l].indexed
  BY <1>2
<1>4. /\ DOMAIN r = JobFields /\ r.lib = l /\ r.kind = "full" /\ r.status = "queued"
      /\ r.control = "none" /\ r.start = 1 /\ r.snap = latest[l]
      /\ r.next = 1 /\ r.fetched = 0 /\ r.indexed = 0
      /\ DOMAIN r.targets = {}
  BY DEF NewJob, JobFields
<1> HIDE DEF r, q
<1>5. Covered(l, 0)
  BY DEF Covered
<1>6. NewRow(l, r, {})
  BY <1>2, <1>4, <1>5 DEF NewRow, Kinds
<1>8. Renews(l, r)
  BY <1>1, <1>2, <1>4 DEF Renews
<1>7. Inserts(l, Len(jobs) + 1, r, {})
  BY <1>1, <1>2, <1>3, <1>8, SameFailures, InsertInserts DEF MayCreate
<1> QED BY <1>6, <1>7, InsertKeeps

(* create_repair_job keeps the tables correct: its targets are under       *)
(* repair from then on.                                                    *)
LEMMA CreateRepairKeeps ==
  ASSUME StoreInv, NEW l \in Libraries, NEW S, CreateRepairJob(l, S), latest' = latest
  PROVE  StoreInv' /\ (\A m \in Libraries : Grows(m)) /\ \E n, r : Inserts(l, n, r, S)
<1> DEFINE firsts == {failures[f].first : f \in S}
           ends == {failures[f].through : f \in S}
           first == Min(firsts)
           snap == Max(ends)
           tg == Targets(S, [f \in S |-> failures[f].first])
           r == NewJob(l, "repair", first, snap, tg)
           q == [library[l] EXCEPT !.status = "indexing"]
           b == library[l].fetched
<1>1. /\ MayCreate(l) /\ library[l].status = "partial" /\ S # {} /\ S \subseteq Open(l)
      /\ jobs' = Append(jobs, r) /\ library' = [library EXCEPT ![l] = q]
      /\ failures' = [f \in FailureIds |->
           IF f \in S THEN [failures[f] EXCEPT !.status = "repairing"] ELSE failures[f]]
      /\ held' = held /\ revisit' = revisit
  BY DEF CreateRepairJob, Insert, contents
<1>2. /\ DOMAIN library[l] = {"mode", "status", "fetched", "indexed"}
      /\ library[l].mode \in Modes \union {"messages"}
      /\ b \in Nat /\ library[l].indexed \in Nat /\ library[l].indexed <= b
      /\ Covered(l, b) /\ latest[l] \in Nat
  BY DEF StoreInv, Rows, LibraryRows, Bounded, Coverage, Messages
<1>3. /\ DOMAIN q = {"mode", "status", "fetched", "indexed"}
      /\ q.mode = library[l].mode /\ q.status = "indexing"
      /\ q.fetched = b /\ q.indexed = library[l].indexed
  BY <1>2
<1>4. \A f \in S :
        /\ f \in FailureIds /\ failures[f].lib = l /\ failures[f].status = "open"
        /\ failures[f].first \in Nat \ {0} /\ failures[f].last \in Nat
        /\ failures[f].through \in Nat /\ failures[f].first <= failures[f].last
        /\ failures[f].through <= latest[l] /\ Covered(l, failures[f].last)
  BY <1>1 DEF Open, Unresolved, StoreInv, Rows, FailureRows, Bounded, Coverage
<1>5. first \in Nat \ {0} /\ \E f \in S : first = failures[f].first
  <2>1. firsts \subseteq Nat /\ firsts # {}
    BY <1>1, <1>4
  <2>2. first \in firsts
    BY <2>1, MinOfNats
  <2> QED BY <1>4, <2>2
<1>6. snap \in Nat /\ snap <= latest[l]
  <2>1. ends \subseteq Nat /\ ends # {} /\ \A x \in ends : x <= latest[l]
    BY <1>1, <1>4
  <2>2. snap \in ends
    BY <1>2, <2>1, MaxOfNats
  <2> QED BY <1>4, <2>2
<1>7. /\ DOMAIN tg = S
      /\ \A f \in S : /\ DOMAIN tg[f] = {"next", "done"}
                      /\ tg[f].next = failures[f].first /\ tg[f].done = FALSE
  BY DEF Targets
<1> HIDE DEF first, snap, tg, firsts, ends
<1>8. /\ DOMAIN r = JobFields /\ r.lib = l /\ r.kind = "repair" /\ r.status = "queued"
      /\ r.control = "none" /\ r.start = first /\ r.snap = snap
      /\ r.next = Max({first, b + 1}) /\ r.fetched = b /\ r.indexed = library[l].indexed
      /\ r.targets = tg
  BY DEF NewJob, JobFields
<1>9. Covered(l, first - 1)
  BY <1>4, <1>5, CoveredBelow
<1>10. /\ Max({first, b + 1}) \in {first, b + 1}
  BY <1>2, <1>5, MaxOfTwo
<1> HIDE DEF r, q
<1>11. Covered(l, r.next - 1) /\ r.next \in Nat \ {0}
  BY <1>2, <1>5, <1>8, <1>9, <1>10
<1>18. r.fetched < r.next
  <2>1. b + 1 <= Max({first, b + 1})
    BY <1>2, <1>5, b + 1 \in Nat, MaxOfTwo
  <2> QED BY <1>2, <1>5, <1>8, <1>10, <2>1
<1> HIDE DEF b
<1>12. r.fetched <= r.indexed \/ \E i \in JobsIn(l, {"failed"}) : jobs[i].kind = "repair"
  BY <1>1, <1>2, <1>8 DEF StoreInv, EndedIsIndexed, RetriedRepair, b
<1>13. \A f \in S : failures[f].first .. tg[f].next - 1 \subseteq Kept(l)
  BY <1>4, <1>7
<1>14. /\ DOMAIN r.targets = S /\ S \subseteq FailureIds
       /\ \A f \in S :
            /\ DOMAIN r.targets[f] = {"next", "done"}
            /\ r.targets[f].next \in Nat \ {0} /\ ~r.targets[f].done
            /\ failures[f].lib = l /\ failures[f].status = "open"
            /\ failures[f].first .. r.targets[f].next - 1 \subseteq Kept(l)
            /\ r.targets[f].next = failures[f].first
  BY <1>4, <1>7, <1>8, <1>13
<1>15. /\ r.indexed <= r.fetched /\ r.fetched <= b /\ r.indexed <= library[l].indexed
       /\ r.fetched \in Nat /\ r.indexed \in Nat
  BY <1>2, <1>8
<1>16. NewRow(l, r, S)
  BY <1>5, <1>6, <1>8, <1>9, <1>11, <1>12, <1>14, <1>15, <1>18 DEF NewRow, Kinds, b
<1>17. Inserts(l, Len(jobs) + 1, r, S)
  BY <1>1, <1>2, <1>3, InsertInserts DEF MayCreate, b
<1> QED BY <1>16, <1>17, InsertKeeps

(* retry_failed_repair_job keeps the tables correct: the unfinished        *)
(* targets go over to the new job.                                         *)
LEMMA RetryRepairKeeps ==
  ASSUME StoreInv, NEW j \in JobIds, NEW l, l = jobs[j].lib, RetryRepairJob(j), latest' = latest
  PROVE  StoreInv' /\ (\A m \in Libraries : Grows(m)) /\ \E n, r : Inserts(l, n, r, {})
<1> DEFINE S == Unfinished(j)
           tg == Targets(S, [f \in S |-> jobs[j].targets[f].next])
           r == NewJob(l, "repair", jobs[j].start, jobs[j].snap, tg)
           q == [library[l] EXCEPT !.status = "indexing"]
           b == library[l].fetched
<1>1. /\ jobs[j].kind = "repair" /\ jobs[j].status = "failed" /\ MayCreate(l)
      /\ jobs' = Append(jobs, r) /\ library' = [library EXCEPT ![l] = q]
      /\ UNCHANGED <<failures, contents>>
  BY DEF RetryRepairJob, Insert
<1>2. /\ l \in Libraries /\ DOMAIN library[l] = {"mode", "status", "fetched", "indexed"}
      /\ library[l].mode \in Modes \union {"messages"}
      /\ b \in Nat /\ library[l].indexed \in Nat /\ library[l].indexed <= b
      /\ Covered(l, b)
  BY DEF StoreInv, Rows, JobRows, LibraryRows, Bounded, Coverage
<1>3. /\ DOMAIN q = {"mode", "status", "fetched", "indexed"}
      /\ q.mode = library[l].mode /\ q.status = "indexing"
      /\ q.fetched = b /\ q.indexed = library[l].indexed
  BY <1>2
<1>4. /\ jobs[j].start \in Nat \ {0} /\ jobs[j].snap \in Nat /\ jobs[j].snap <= latest[l]
      /\ Covered(l, jobs[j].start - 1)
  BY <1>1 DEF StoreInv, Rows, JobRows, Bounded, Coverage
<1>5. \A f \in S :
        /\ f \in FailureIds /\ f \in DOMAIN jobs[j].targets
        /\ jobs[j].targets[f].next \in Nat \ {0}
        /\ failures[f].lib = l /\ failures[f].status = "repairing"
        /\ failures[f].first .. jobs[j].targets[f].next - 1 \subseteq Kept(l)
  BY <1>1 DEF Unfinished, StoreInv, Rows, JobRows, Cursors
<1>6. /\ DOMAIN tg = S
      /\ \A f \in S : /\ DOMAIN tg[f] = {"next", "done"}
                      /\ tg[f].next = jobs[j].targets[f].next /\ tg[f].done = FALSE
  BY DEF Targets
<1> HIDE DEF S, tg
<1>7. /\ DOMAIN r = JobFields /\ r.lib = l /\ r.kind = "repair" /\ r.status = "queued"
      /\ r.control = "none" /\ r.start = jobs[j].start /\ r.snap = jobs[j].snap
      /\ r.next = Max({jobs[j].start, b + 1}) /\ r.fetched = b /\ r.indexed = library[l].indexed
      /\ r.targets = tg
  BY DEF NewJob, JobFields
<1>8. /\ Max({jobs[j].start, b + 1}) \in {jobs[j].start, b + 1}
  BY <1>2, <1>4, MaxOfTwo
<1> HIDE DEF r, q
<1>9. Covered(l, r.next - 1) /\ r.next \in Nat \ {0}
  BY <1>2, <1>4, <1>7, <1>8
<1>15. r.fetched < r.next
  <2>1. b + 1 <= Max({jobs[j].start, b + 1})
    BY <1>2, <1>4, b + 1 \in Nat, MaxOfTwo
  <2> QED BY <1>2, <1>4, <1>7, <1>8, <2>1
<1> HIDE DEF b
<1>10. j \in JobsIn(l, {"failed"})
  BY <1>1 DEF JobsIn
<1>11. /\ DOMAIN r.targets \subseteq FailureIds
       /\ \A f \in DOMAIN r.targets :
            /\ DOMAIN r.targets[f] = {"next", "done"}
            /\ r.targets[f].next \in Nat \ {0} /\ ~r.targets[f].done
            /\ failures[f].lib = l /\ failures[f].status = "repairing"
            /\ failures[f].first .. r.targets[f].next - 1 \subseteq Kept(l)
            /\ f \in DOMAIN jobs[j].targets /\ r.targets[f].next = jobs[j].targets[f].next
  BY <1>5, <1>6, <1>7
<1>12. /\ r.indexed <= r.fetched /\ r.fetched <= b /\ r.indexed <= library[l].indexed
       /\ r.fetched \in Nat /\ r.indexed \in Nat
  BY <1>2, <1>7
<1>13. NewRow(l, r, {})
  BY <1>1, <1>4, <1>7, <1>9, <1>10, <1>11, <1>12, <1>15 DEF NewRow, Kinds, b
<1>14. Inserts(l, Len(jobs) + 1, r, {})
  BY <1>1, <1>2, <1>3, SameFailures, InsertInserts DEF MayCreate, b, contents
<1> QED BY <1>14, <1>13, InsertKeeps

(* A library is deleted with all that belongs to it, others stay.          *)
LEMMA DeleteKeeps ==
  ASSUME StoreInv, NEW l \in Libraries, DeleteLibrary(l), latest' = latest
  PROVE  /\ StoreInv' /\ (\A m \in Libraries \ {l} : Grows(m) /\ library'[m] = library[m])
         /\ DOMAIN jobs' = JobIds /\ DOMAIN failures' = FailureIds
         /\ \A j \in JobIds : IF jobs[j].lib = l THEN jobs'[j].status = "deleted"
                              ELSE jobs'[j] = jobs[j]
         /\ \A f \in FailureIds : failures'[f].last = failures[f].last
<1> USE DEF StoreInv
<1>1. /\ DOMAIN library = Libraries /\ held \in [Libraries -> SUBSET (Contents \X Messages)]
      /\ revisit \in [Libraries -> SUBSET Messages]
      /\ Numbered(jobs) /\ Numbered(failures)
      /\ \A j \in JobIds : DOMAIN jobs[j] = JobFields /\ jobs[j].lib \in Libraries
      /\ \A f \in FailureIds :
           DOMAIN failures[f] = {"lib", "job", "first", "last", "through", "status"}
  BY DEF Rows, LibraryRows, JobRows, FailureRows
<1>2. /\ library'[l] = NoLibrary /\ DOMAIN library' = Libraries
      /\ \A m \in Libraries \ {l} : library'[m] = library[m] /\ held'[m] = held[m]
      /\ held' \in [Libraries -> SUBSET (Contents \X Messages)] /\ held'[l] = {}
      /\ \A m \in Libraries \ {l} : revisit'[m] = revisit[m]
      /\ revisit' \in [Libraries -> SUBSET Messages] /\ revisit'[l] = {}
  BY <1>1 DEF DeleteLibrary
<1>3. /\ DOMAIN NoLibrary = {"mode", "status", "fetched", "indexed"}
      /\ NoLibrary.mode = "messages" /\ NoLibrary.status = "absent"
      /\ NoLibrary.fetched = 0 /\ NoLibrary.indexed = 0
  BY DEF NoLibrary
<1>4. /\ DOMAIN jobs' = JobIds /\ DOMAIN failures' = FailureIds
      /\ Numbered(jobs') /\ Numbered(failures')
  BY <1>1, SameNumbers DEF DeleteLibrary
<1>5. ASSUME NEW j \in JobIds
      PROVE  \/ jobs[j].lib # l /\ jobs'[j] = jobs[j]
             \/ /\ jobs[j].lib = l /\ DOMAIN jobs'[j] = JobFields /\ SameWork(j)
                /\ jobs'[j].control = jobs[j].control /\ jobs'[j].status = "deleted"
  <2>1. CASE jobs[j].lib # l
    BY <2>1 DEF DeleteLibrary
  <2>2. CASE jobs[j].lib = l
    <3>1. jobs'[j] = [jobs[j] EXCEPT !.status = "deleted"]
      BY <2>2 DEF DeleteLibrary
    <3> QED BY <1>1, <2>2, <3>1 DEF SameWork, JobFields
  <2> QED BY <2>1, <2>2
<1>6. ASSUME NEW f \in FailureIds
      PROVE  \/ failures[f].lib # l /\ failures'[f] = failures[f]
             \/ /\ failures[f].lib = l /\ failures'[f].status = "deleted"
                /\ DOMAIN failures'[f] = {"lib", "job", "first", "last", "through", "status"}
                /\ failures'[f].lib = l /\ failures'[f].job = failures[f].job
                /\ failures'[f].first = failures[f].first
                /\ failures'[f].last = failures[f].last
                /\ failures'[f].through = failures[f].through
  BY <1>1 DEF DeleteLibrary
<1>7. /\ Unresolved(l)' = {}
      /\ \A m \in Libraries \ {l} : Unresolved(m)' = Unresolved(m)
      /\ \A f \in FailureIds : RangeOf(f)' = RangeOf(f)
  BY <1>4, <1>6 DEF Unresolved, RangeOf
<1>31. \A m \in Libraries \ {l} : Kept(m)' = Kept(m)
  BY <1>2 DEF Kept
<1>32. ASSUME NEW m \in Libraries \ {l}, NEW i, FreshlyLost(m, i) PROVE FreshlyLost(m, i)'
  <2>1. PICK f \in Unresolved(m) : i \in RangeOf(f) /\ Fresh(f, i)
    BY <1>32 DEF FreshlyLost
  <2>2. f \in FailureIds /\ f \in Unresolved(m)' /\ i \in RangeOf(f)'
    BY <1>7, <2>1 DEF Unresolved
  <2>3. Fresh(f, i)'
    BY <1>4, <1>5, <2>1 DEF Fresh
  <2> QED BY <2>2, <2>3 DEF FreshlyLost
<1>8. ASSUME NEW m \in Libraries \ {l}
      PROVE  Grows(m) /\ \A S : JobsIn(m, S)' = JobsIn(m, S)
  <2>1. Grows(m)
    BY <1>2, <1>4, <1>7, <1>31, <1>32 DEF Grows, Unresolved
  <2>2. ASSUME NEW S PROVE JobsIn(m, S)' = JobsIn(m, S)
    BY <1>4, <1>5 DEF JobsIn, SameWork
  <2> QED BY <2>1, <2>2
<1>9. \A j \in JobIds : jobs[j].lib = l => jobs[j].control = "none"
  BY DEF DeleteLibrary, JobsIn, Recoverable, Bounded
<1>20. Rows'
  <2>1. LibraryRows'
    BY <1>2, <1>3 DEF Rows, LibraryRows, Statuses
  <2>2. JobRows'
    BY <1>4, <1>5 DEF Rows, JobRows, SameWork, JobStatuses
  <2>3. FailureRows'
    <3>1. \A j \in JobIds : jobs'[j].lib = jobs[j].lib
      BY <1>5 DEF SameWork
    <3> QED BY <1>4, <1>6, <3>1 DEF Rows, FailureRows, FailureStatuses
  <2> QED BY <1>2, <1>4, <2>1, <2>2, <2>3 DEF Rows
<1>21. Bounded'
  <2>1. \A m \in Libraries : library'[m].indexed <= library'[m].fetched
                             /\ library'[m].fetched <= latest'[m]
    BY <1>2, <1>3 DEF Bounded, Rows, Messages
  <2>2. \A j \in JobIds : /\ jobs'[j].indexed <= jobs'[j].fetched
                          /\ jobs'[j].snap <= latest'[jobs'[j].lib]
                          /\ jobs'[j].control # "none" => jobs'[j].status = "running"
    BY <1>5, <1>9 DEF Bounded, SameWork
  <2>3. \A f \in FailureIds : /\ failures'[f].first <= failures'[f].last
                              /\ failures'[f].last <= failures'[f].through
                              /\ failures'[f].through <= latest'[failures'[f].lib]
    BY <1>6 DEF Bounded
  <2> QED BY <1>4, <2>1, <2>2, <2>3 DEF Bounded
<1>22. OneJob'
  BY <1>1, <1>2, <1>4, <1>5 DEF OneJob, SameWork, Recoverable
<1>23. NothingAbsent' /\ HeldBelow'
  <2>1. NothingAbsent'
    BY <1>2, <1>3 DEF NothingAbsent
  <2>2. HeldBelow'
    BY <1>2 DEF HeldBelow
  <2> QED BY <2>1, <2>2
<1>33. NextPastFetched'
  BY <1>4, <1>5 DEF NextPastFetched
<1>34. Revisits'
  <2> SUFFICES ASSUME NEW m \in Libraries \ {l}, NEW i \in revisit[m]
               PROVE  AwaitsRevisit(m, i, Ongoing)' \/ FreshlyLost(m, i)'
    BY <1>2 DEF Revisits
  <2>1. CASE FreshlyLost(m, i)
    BY <1>32, <2>1
  <2>2. CASE AwaitsRevisit(m, i, Ongoing)
    <3>1. PICK k \in JobsIn(m, Ongoing) :
            jobs[k].kind = "full" /\ jobs[k].next <= i /\ i <= jobs[k].snap
      BY <2>2 DEF AwaitsRevisit
    <3>2. k \in JobsIn(m, Ongoing)' /\ jobs'[k] = jobs[k]
      BY <1>5, <1>8, <3>1 DEF JobsIn
    <3> QED BY <1>2, <2>2, <3>1, <3>2 DEF AwaitsRevisit
  <2> QED BY <2>1, <2>2 DEF Revisits
<1>24. Coverage'
  <2>1. ASSUME NEW m \in Libraries PROVE Covered(m, library[m].fetched)'
    BY <1>2, <1>3, <1>8, CoveredGrows DEF Coverage, Covered
  <2>2. ASSUME NEW j \in JobIds, jobs'[j].status # "deleted"
        PROVE  /\ Covered(jobs[j].lib, jobs[j].start - 1)'
               /\ Covered(jobs[j].lib, jobs[j].next - 1)'
               /\ Covered(jobs[j].lib, jobs[j].fetched)'
    <3>1. jobs'[j] = jobs[j] /\ jobs[j].lib \in Libraries \ {l}
      BY <1>1, <1>5, <2>2
    <3> QED BY <1>8, <2>2, <3>1, CoveredGrows DEF Coverage
  <2>3. ASSUME NEW m \in Libraries, NEW f \in Unresolved(m)' PROVE Covered(m, failures[f].last)'
    <3>1. m # l /\ f \in Unresolved(m) /\ failures'[f].last = failures[f].last
      BY <1>6, <1>7 DEF Unresolved
    <3> QED BY <1>8, <3>1, CoveredGrows DEF Coverage
  <2> QED BY <1>4, <2>1, <2>2, <2>3 DEF Coverage
<1>25. Cursors'
  <2> SUFFICES ASSUME NEW j \in JobIds, jobs'[j].status # "deleted",
                      NEW f \in DOMAIN jobs'[j].targets
               PROVE  /\ failures'[f].lib = jobs'[j].lib
                      /\ failures'[f].status \in {"repairing", "resolved"}
                      /\ failures'[f].first .. jobs'[j].targets[f].next - 1 \subseteq Kept(jobs[j].lib)'
                      /\ jobs'[j].status \in Recoverable /\ ~jobs'[j].targets[f].done
                           => failures'[f].status = "repairing"
    BY <1>4 DEF Cursors
  <2>1. jobs'[j] = jobs[j] /\ jobs[j].lib \in Libraries \ {l} /\ f \in FailureIds
    BY <1>1, <1>5 DEF Rows, JobRows
  <2>2. failures[f].lib = jobs[j].lib
    BY <2>1 DEF Cursors
  <2>3. failures'[f] = failures[f]
    BY <1>6, <2>1, <2>2
  <2>4. PICK m \in Libraries \ {l} : m = jobs[j].lib
    BY <2>1
  <2>5. Kept(m)' = Kept(m)
    BY <1>31
  <2> QED BY <2>1, <2>3, <2>4, <2>5 DEF Cursors
<1>26. Marks'
  <2>1. \A j \in JobIds : jobs'[j].status # "deleted" =>
          jobs'[j] = jobs[j] /\ library'[jobs[j].lib] = library[jobs[j].lib]
    BY <1>1, <1>2, <1>5
  <2> QED BY <1>4, <2>1 DEF Marks, Recoverable
<1>27. RepairMarks'
  <2> SUFFICES ASSUME NEW j \in JobIds, jobs'[j].kind = "repair", jobs'[j].status \in Recoverable
               PROVE  \/ AfterFailed(j)'
                      \/ jobs'[j].fetched <= jobs'[j].indexed
                      \/ \E f \in DOMAIN jobs'[j].targets :
                           ~jobs'[j].targets[f].done /\ jobs'[j].fetched <= failures'[f].last
    BY <1>4 DEF RepairMarks
  <2>1. jobs'[j] = jobs[j] /\ DOMAIN jobs[j].targets \subseteq FailureIds
    BY <1>5 DEF Recoverable, Rows, JobRows
  <2>2. PICK m \in Libraries \ {l} : m = jobs[j].lib
    BY <1>1, <1>5 DEF Recoverable
  <2>3. AfterFailed(j) => AfterFailed(j)'
    <3>1. JobsIn(m, {"failed"})' = JobsIn(m, {"failed"}) /\ jobs'[j].lib = m
      BY <1>8, <2>1, <2>2
    <3>2. \A i \in JobsIn(m, {"failed"}) : jobs'[i].kind = jobs[i].kind
      BY <1>5 DEF JobsIn, SameWork
    <3> QED BY <2>2, <3>1, <3>2 DEF AfterFailed
  <2>4. \A f \in FailureIds : failures'[f].last = failures[f].last
    BY <1>6
  <2> QED BY <2>1, <2>3, <2>4 DEF RepairMarks
<1>28. EndedIsIndexed'
  <2> SUFFICES ASSUME NEW m \in Libraries \ {l}, RetriedRepair(m)
               PROVE  RetriedRepair(m)'
    BY <1>2, <1>3 DEF EndedIsIndexed
  <2>1. PICK i \in JobsIn(m, {"failed"}), j \in JobsIn(m, Finished) :
          /\ jobs[i].kind = "repair" /\ jobs[j].kind = "repair" /\ i < j
          /\ \A k \in JobsIn(m, JobStatuses) : k <= j
    BY DEF RetriedRepair
  <2>2. jobs'[i].kind = "repair" /\ jobs'[j].kind = "repair"
    BY <1>5, <2>1 DEF JobsIn, SameWork
  <2> QED BY <1>8, <2>1, <2>2 DEF RetriedRepair
<1>29. ReadyIsRepaired'
  BY <1>2, <1>7 DEF ReadyIsRepaired
<1>30. NoFailureStranded'
  <2> SUFFICES ASSUME NEW m \in Libraries \ {l}, NEW f \in Unresolved(m),
                      failures'[f].status = "repairing"
               PROVE  \E j \in JobsIn(m, Ongoing)' : f \in Unfinished(j)'
    BY <1>7 DEF NoFailureStranded, Ongoing
  <2>1. failures'[f] = failures[f]
    BY <1>6 DEF Unresolved
  <2>2. PICK j \in JobsIn(m, Ongoing) : f \in Unfinished(j)
    BY <2>1 DEF NoFailureStranded, Ongoing
  <2>3. jobs'[j] = jobs[j]
    BY <1>5, <2>2 DEF JobsIn
  <2> QED BY <1>8, <2>1, <2>2, <2>3 DEF Unfinished
<1> QED BY <1>4, <1>5, <1>2, <1>6, <1>8, <1>20, <1>21, <1>22, <1>23, <1>24, <1>25, <1>26, <1>27,
           <1>28, <1>29, <1>30, <1>33, <1>34

(* A new message of the channel keeps the tables correct.                  *)
LEMMA PostKeeps ==
  ASSUME StoreInv, Post
  PROVE  StoreInv' /\ UNCHANGED scans
<1>1. UNCHANGED scans /\ latest' \in [Libraries -> Messages]
      /\ \A l \in Libraries : latest[l] \in Nat /\ latest[l] <= latest'[l]
  <2>1. latest \in [Libraries -> Messages] /\ MaxMessage \in Nat
    BY ScanStoreAssumption DEF StoreInv, Rows
  <2> QED BY <2>1 DEF Post, Messages, vars
<1>2. library' = library /\ jobs' = jobs /\ failures' = failures /\ contents' = contents
  BY <1>1 DEF scans
<1>5. held' = held /\ revisit' = revisit
  BY <1>2 DEF contents
<1>3. Rows' /\ OneJob' /\ NothingAbsent' /\ HeldBelow' /\ Coverage' /\ Cursors' /\ Marks' /\ RepairMarks'
      /\ EndedIsIndexed' /\ ReadyIsRepaired' /\ NoFailureStranded'
      /\ NextPastFetched' /\ Revisits'
  BY <1>1, <1>2, <1>5 DEF StoreInv, HeldBelow, NextPastFetched, Revisits, AwaitsRevisit,
     FreshlyLost, Fresh, Kept, Rows, LibraryRows, JobRows, FailureRows, OneJob, NothingAbsent,
     Coverage, Covered, Unresolved, RangeOf, Cursors, Marks, RepairMarks, AfterFailed, JobsIn,
     EndedIsIndexed, RetriedRepair, ReadyIsRepaired, NoFailureStranded, Unfinished
<1>4. Bounded'
  <2>1. /\ \A l \in Libraries : library[l].fetched \in Nat
        /\ \A j \in JobIds : jobs[j].snap \in Nat /\ jobs[j].lib \in Libraries
        /\ \A f \in FailureIds : failures[f].through \in Nat /\ failures[f].lib \in Libraries
    BY DEF StoreInv, Rows, LibraryRows, JobRows, FailureRows
  <2>2. \A l \in Libraries : library[l].indexed <= library[l].fetched
                             /\ library[l].fetched <= latest'[l]
    BY <1>1, <2>1 DEF StoreInv, Bounded, Rows, Messages
  <2>3. \A j \in JobIds : /\ jobs[j].indexed <= jobs[j].fetched
                          /\ jobs[j].snap <= latest'[jobs[j].lib]
                          /\ jobs[j].control # "none" => jobs[j].status = "running"
    <3>1. \A j \in JobIds : latest'[jobs[j].lib] \in Nat
      BY <1>1, <2>1 DEF Messages
    <3> QED BY <1>1, <2>1, <3>1 DEF StoreInv, Bounded
  <2>4. \A f \in FailureIds : /\ failures[f].first <= failures[f].last
                              /\ failures[f].last <= failures[f].through
                              /\ failures[f].through <= latest'[failures[f].lib]
    <3>1. \A f \in FailureIds : latest'[failures[f].lib] \in Nat
      BY <1>1, <2>1 DEF Messages
    <3> QED BY <1>1, <2>1, <3>1 DEF StoreInv, Bounded
  <2> QED BY <1>2, <2>2, <2>3, <2>4 DEF Bounded
<1> QED BY <1>1, <1>3, <1>4 DEF StoreInv

-----------------------------------------------------------------------------
(* What every transaction leaves to the scheduler and the commands.        *)
LibrariesGo ==
  \A l \in Libraries :
    /\ library[l].fetched <= library'[l].fetched
    /\ library'[l].status = "absent" => library[l].status = "absent"

StoreStep ==
  /\ StoreInv'
  /\ JobIds \subseteq DOMAIN jobs' /\ FailureIds \subseteq DOMAIN failures'

(* What the transactions of others do to the job of the scheduler.         *)
Stays(j) ==
  /\ jobs[j].status \in Recoverable \union {"deleted"} =>
       jobs'[j].status \in Recoverable \union {"deleted"}
  /\ jobs'[j].status # "deleted" =>
       /\ jobs[j].status # "deleted" /\ Grows(jobs[j].lib)
       /\ jobs'[j].lib = jobs[j].lib /\ jobs'[j].kind = jobs[j].kind
       /\ jobs'[j].snap = jobs[j].snap /\ jobs'[j].targets = jobs[j].targets
       /\ jobs'[j].fetched = jobs[j].fetched /\ jobs'[j].indexed = jobs[j].indexed
       /\ jobs'[j].next = jobs[j].next
       /\ jobs[j].status \in Recoverable =>
            revisit'[jobs[j].lib] \subseteq revisit[jobs[j].lib]
       /\ \A f \in DOMAIN jobs[j].targets : failures'[f].last = failures[f].last
Others == \A j \in JobIds : Stays(j)

(* What a transaction that only moves statuses leaves to everybody.        *)
LEMMA StatusSteps ==
  ASSUME StoreInv, StatusOnly
  PROVE  StoreStep /\ LibrariesGo /\ DOMAIN jobs' = JobIds /\ \A l \in Libraries : Grows(l)
<1>1. ASSUME NEW l \in Libraries PROVE Grows(l)
  <2>1. Kept(l)' = Kept(l)
    BY SameKept DEF StatusOnly, LibraryMoves
  <2>2. failures' = failures /\ Unresolved(l)' = Unresolved(l) /\ \A f : RangeOf(f)' = RangeOf(f)
    BY DEF StatusOnly, Unresolved, RangeOf
  <2>3. \A i : FreshlyLost(l, i)' <=> FreshlyLost(l, i)
    <3>1. DOMAIN jobs' = JobIds
          /\ \A k \in JobIds : /\ jobs'[k].status = "deleted" <=> jobs[k].status = "deleted"
                               /\ jobs'[k].targets = jobs[k].targets
      BY DEF StatusOnly, JobMoves, SameWork
    <3> QED BY <2>2, <3>1, SameFresh
  <2> QED BY <2>1, <2>2, <2>3 DEF Grows
<1>2. \A l \in Libraries : library[l].fetched \in Nat
  BY DEF StoreInv, Rows, LibraryRows
<1> QED BY <1>1, <1>2, StatusKeeps DEF StatusOnly, StoreStep, LibrariesGo, LibraryMoves

(* A job that moves among the recoverable statuses stays the job of the    *)
(* scheduler.                                                              *)
LEMMA OneStays ==
  ASSUME StoreInv, NEW j \in JobIds, StatusOnly, OneMoves(j),
         jobs'[j].status \in Recoverable \union {jobs[j].status}
  PROVE  Others
<1>1. \A l \in Libraries : Grows(l)
  BY StatusSteps
<1> SUFFICES ASSUME NEW k \in JobIds PROVE Stays(k)
  BY DEF Others
<1>2. jobs[k].lib \in Libraries
  BY DEF StoreInv, Rows, JobRows
<1>3. jobs'[k].status # "deleted" => jobs[k].status # "deleted"
  BY DEF StatusOnly, JobMoves
<1>4. /\ jobs'[k].lib = jobs[k].lib /\ jobs'[k].kind = jobs[k].kind
      /\ jobs'[k].snap = jobs[k].snap /\ jobs'[k].targets = jobs[k].targets
      /\ jobs'[k].fetched = jobs[k].fetched /\ jobs'[k].indexed = jobs[k].indexed
      /\ jobs'[k].next = jobs[k].next
  BY DEF StatusOnly, JobMoves, SameWork
<1>5. failures' = failures /\ revisit' = revisit
  BY DEF StatusOnly, contents
<1>6. k = j \/ jobs'[k] = jobs[k]
  BY DEF OneMoves
<1> QED BY <1>1, <1>2, <1>3, <1>4, <1>5, <1>6 DEF Stays

(* A step without a transaction leaves everything to everybody.            *)
LEMMA NothingMoves ==
  ASSUME StoreInv, StoreUnchanged, latest' = latest
  PROVE  StoreStep /\ LibrariesGo /\ Others /\ \A l, n : Covered(l, n)' <=> Covered(l, n)
<1>1. library' = library /\ jobs' = jobs /\ failures' = failures
      /\ contents' = contents /\ held' = held /\ revisit' = revisit
  BY DEF StoreUnchanged, scans, contents
<1>2. StoreInv'
  <2>1. Rows' /\ Bounded' /\ OneJob' /\ NothingAbsent' /\ HeldBelow' /\ Coverage' /\ Cursors'
    BY <1>1 DEF StoreInv, Rows, LibraryRows, JobRows, FailureRows, Bounded, OneJob, NothingAbsent,
       HeldBelow, Coverage, Covered, Kept, Unresolved, RangeOf, Cursors
  <2>2. Marks' /\ RepairMarks' /\ EndedIsIndexed' /\ ReadyIsRepaired' /\ NoFailureStranded'
    BY <1>1 DEF StoreInv, Marks, RepairMarks, AfterFailed, JobsIn, EndedIsIndexed,
       RetriedRepair, ReadyIsRepaired, NoFailureStranded, Unresolved, Unfinished
  <2>3. NextPastFetched' /\ Revisits'
    BY <1>1 DEF StoreInv, NextPastFetched, Revisits, AwaitsRevisit, JobsIn, FreshlyLost, Fresh,
       Unresolved, RangeOf
  <2> QED BY <2>1, <2>2, <2>3 DEF StoreInv
<1>3. \A l : Unresolved(l)' = Unresolved(l) /\ \A f : RangeOf(f)' = RangeOf(f)
  BY <1>1 DEF Unresolved, RangeOf
<1>6. \A l : Kept(l)' = Kept(l)
  BY <1>1, SameKept
<1>7. \A l, i : FreshlyLost(l, i)' <=> FreshlyLost(l, i)
  BY <1>1, SameFresh
<1>4. \A l : Grows(l) /\ \A n : Covered(l, n)' <=> Covered(l, n)
  BY <1>1, <1>3, <1>6, <1>7 DEF Grows, Covered
<1>5. \A l \in Libraries : library[l].fetched \in Nat
  BY DEF StoreInv, Rows, LibraryRows
<1> QED BY <1>1, <1>2, <1>4, <1>5 DEF StoreStep, LibrariesGo, Others, Stays

(* A new job leaves the job of the scheduler alone.                        *)
LEMMA InsertStays ==
  ASSUME StoreInv, StoreInv', NEW l, NEW n, NEW r, NEW S, Inserts(l, n, r, S),
         \A m \in Libraries : Grows(m)
  PROVE  StoreStep /\ LibrariesGo /\ Others
<1>1. /\ l \in Libraries /\ DOMAIN jobs' = JobIds \union {n}
      /\ \A j \in JobIds : jobs'[j] = jobs[j]
      /\ \A m \in Libraries \ {l} : library'[m] = library[m]
      /\ library'[l].status = "indexing" /\ library'[l].fetched = library[l].fetched
      /\ DOMAIN failures' = FailureIds
      /\ \A f \in FailureIds : failures'[f].last = failures[f].last
  BY DEF Inserts
<1>2. /\ \A m \in Libraries : library[m].fetched \in Nat
      /\ \A j \in JobIds : jobs[j].lib \in Libraries /\ DOMAIN jobs[j].targets \subseteq FailureIds
  BY DEF StoreInv, Rows, LibraryRows, JobRows
<1>3. LibrariesGo
  BY <1>1, <1>2 DEF LibrariesGo
<1>5. /\ \A j \in JobIds : jobs[j].lib = l => jobs[j].status \notin Recoverable
      /\ \A m \in Libraries \ {l} : revisit'[m] = revisit[m]
  BY DEF Inserts, JobsIn, Renews, StoreInv, Rows
<1>4. Others
  BY <1>1, <1>2, <1>5 DEF Others, Stays
<1> QED BY <1>1, <1>3, <1>4 DEF StoreStep

(* delete_library leaves the job of the scheduler alone or deletes it.     *)
LEMMA DeleteStays ==
  ASSUME StoreInv, NEW l \in Libraries, DeleteLibrary(l), latest' = latest
  PROVE  StoreStep /\ Others
         /\ \A m \in Libraries \ {l} : library'[m] = library[m]
<1>1. /\ StoreInv' /\ (\A m \in Libraries \ {l} : Grows(m) /\ library'[m] = library[m])
      /\ DOMAIN jobs' = JobIds /\ DOMAIN failures' = FailureIds
      /\ \A j \in JobIds : IF jobs[j].lib = l THEN jobs'[j].status = "deleted"
                           ELSE jobs'[j] = jobs[j]
      /\ \A f \in FailureIds : failures'[f].last = failures[f].last
  BY DeleteKeeps
<1>2. \A j \in JobIds : jobs[j].lib \in Libraries /\ DOMAIN jobs[j].targets \subseteq FailureIds
  BY DEF StoreInv, Rows, JobRows
<1>4. \A m \in Libraries \ {l} : revisit'[m] = revisit[m]
  BY DEF DeleteLibrary, StoreInv, Rows
<1>3. Others
  BY <1>1, <1>2, <1>4 DEF Others, Stays
<1> QED BY <1>1, <1>3 DEF StoreStep

-----------------------------------------------------------------------------
(* What the invariant says of the job the scheduler works on.              *)
LEMMA AtJob ==
  ASSUME IInv, runner.pc \notin Idle
  PROVE  /\ runner.job \in JobIds /\ runner.job # 0 /\ Job.lib \in Libraries
         /\ Job.status \in Recoverable \union {"deleted"}
         /\ Job.status # "deleted" => Standing /\ Indexed
         /\ DOMAIN runner = {"pc", "job", "next", "end", "target", "stage"}
         /\ runner.next \in Nat /\ runner.end \in Nat /\ Job.fetched \in Nat /\ Job.indexed \in Nat
         /\ Job.snap \in Nat /\ Job.next \in Nat \ {0} /\ Job.kind \in Kinds
         /\ runner.target \in {0} \union FailureIds
         /\ library[Job.lib].fetched \in Nat
<1>1. runner.job \in JobIds /\ runner.job # 0
  BY NumbersAreNat DEF IInv, RunnerInv, RunnerShape, StoreInv, Rows
<1> QED BY <1>1 DEF IInv, RunnerInv, RunnerShape, Job, StoreInv, Rows, JobRows, LibraryRows

(* The end of a batch lies in its range.                                   *)
LEMMA LastIsBetween ==
  ASSUME RunnerShape
  PROVE  /\ Last \in Nat /\ Last <= runner.end /\ Last + 1 \in Nat \ {0}
         /\ runner.next <= runner.end => runner.next <= Last
<1>1. runner.next \in Nat /\ runner.end \in Nat /\ Batch \in Nat \ {0}
  BY ScanRunnerAssumption DEF RunnerShape
<1>2. runner.next + Batch - 1 \in Nat
  BY <1>1
<1>3. Min({runner.next + Batch - 1, runner.end})
        = IF runner.next + Batch - 1 <= runner.end THEN runner.next + Batch - 1 ELSE runner.end
  BY <1>1, <1>2, MinOfTwo
<1> QED BY <1>1, <1>2, <1>3 DEF Last

(* What a waiting sweep has read of the watermark stays a lower bound.     *)
LEMMA SweepStays ==
  ASSUME SweepShape, StoreInv, StoreInv', LibrariesGo, sweep' \in {sweep, NoSweep}
  PROVE  SweepShape'
<1>1. \A l \in Libraries : library[l].fetched \in Nat /\ library'[l].fetched \in Nat
  BY DEF StoreInv, Rows, LibraryRows
<1>2. DOMAIN NoSweep = {"lib", "first", "cron"}
  BY DEF NoSweep
<1> QED BY <1>1, <1>2 DEF SweepShape, LibrariesGo

(* The job a Web thread has read stays a row.                              *)
LEMMA RequestStays ==
  ASSUME RequestShape, JobIds \subseteq DOMAIN jobs', request' \in {request, NoRequest}
  PROVE  RequestShape'
BY DEF RequestShape, NoRequest

(* The scheduler lets go of its job, whatever became of it.                *)
Free ==
  /\ DOMAIN runner' = {"pc", "job", "next", "end", "target", "stage"}
  /\ runner'.pc \in Idle /\ runner'.job = 0
  /\ runner'.next \in Nat /\ runner'.end \in Nat
  /\ runner'.target \in {0} \union FailureIds
  /\ runner'.stage \in {"none", "first", "batch", "lost", "resolve"}

(* At the top of its loop and when it is down the scheduler holds no job.  *)
LEMMA LoopFrees ==
  ASSUME Loop \/ runner' = Down
  PROVE  Free
<1>1. CASE Loop
  BY <1>1 DEF Loop, Down, Free, Idle
<1>2. CASE runner' = Down
  BY <1>2 DEF Down, Free, Idle
<1> QED BY <1>1, <1>2

(* Letting go of the job keeps the invariant after any transaction.        *)
LEMMA LetsGo ==
  ASSUME IInv, StoreStep, LibrariesGo, Free,
         request' \in {request, NoRequest}, sweep' \in {sweep, NoSweep}
  PROVE  IInv'
<1>1. RequestShape' /\ SweepShape'
  BY SweepStays, RequestStays DEF IInv, RunnerInv, StoreStep
<1>2. RunnerShape'
  BY DEF Free, RunnerShape, Places, StoreStep
<1> QED BY <1>1, <1>2 DEF IInv, RunnerInv, StoreStep, Free

(* It goes on with its job.                                                *)
LEMMA GoesOn ==
  ASSUME IInv, StoreStep, LibrariesGo, runner.pc \notin Idle,
         DOMAIN runner' = {"pc", "job", "next", "end", "target", "stage"},
         runner'.pc \in Places \ Idle, runner'.job = runner.job,
         runner'.next \in Nat, runner'.end \in Nat, runner'.target \in {0} \union FailureIds,
         runner'.stage \in {"none", "first", "batch", "lost", "resolve"},
         Job'.status \in Recoverable \union {"deleted"},
         Job'.status # "deleted" => Standing' /\ Indexed',
         request' = request, sweep' = sweep
  PROVE  IInv'
<1>1. RequestShape' /\ SweepShape'
  BY SweepStays, RequestStays DEF IInv, RunnerInv, StoreStep
<1>2. RunnerShape'
  BY AtJob DEF RunnerShape, StoreStep
<1> QED BY <1>1, <1>2 DEF IInv, RunnerInv, StoreStep

(* A step of somebody else leaves the scheduler where it stands.           *)
LEMMA OthersKeep ==
  ASSUME IInv, StoreStep, Others, runner' = runner, RequestShape', SweepShape'
  PROVE  IInv'
<1>1. RunnerShape'
  BY DEF IInv, RunnerInv, RunnerShape, StoreStep
<1>2. CASE runner.pc \in Idle
  BY <1>1, <1>2 DEF IInv, RunnerInv, RunnerShape, StoreStep
<1>3. CASE runner.pc \notin Idle
  <2>1. /\ runner.job \in JobIds /\ runner.job # 0 /\ Job.lib \in Libraries
        /\ Job.status \in Recoverable \union {"deleted"}
        /\ Job.status # "deleted" => Standing /\ Indexed
    BY <1>3, AtJob
  <2>2. Stays(runner.job) /\ Job' = jobs'[runner.job]
    BY <2>1 DEF Others, Job
  <2>3. Job'.status \in Recoverable \union {"deleted"}
    BY <2>1, <2>2 DEF Stays, Job
  <2>4. ASSUME Job'.status # "deleted" PROVE Standing' /\ Indexed'
    <3>1. /\ Standing /\ Indexed /\ Grows(Job.lib)
          /\ Job'.lib = Job.lib /\ Job'.kind = Job.kind /\ Job'.snap = Job.snap
          /\ Job'.targets = Job.targets
          /\ Job'.fetched = Job.fetched /\ Job'.indexed = Job.indexed /\ Job'.next = Job.next
          /\ revisit'[Job.lib] \subseteq revisit[Job.lib]
          /\ \A f \in DOMAIN Job.targets : failures'[f].last = failures[f].last
      <4>1. Job.status \in Recoverable
        BY <2>1, <2>2, <2>4 DEF Stays, Job
      <4> QED BY <2>1, <2>2, <2>4, <4>1 DEF Stays, Job
    <3>2. Last' = Last
      BY DEF Last
    <3>3. \A n : Covered(Job.lib, n) => Covered(Job.lib, n)'
      <4>1. PICK l : l = Job.lib
        OBVIOUS
      <4>2. \A n : Covered(l, n) => Covered(l, n)'
        BY <3>1, <4>1, CoveredGrows
      <4> QED BY <3>1, <4>1, <4>2
    <3>6. ASSUME NEW i \in revisit'[Job.lib], FreshlyLost(Job.lib, i)
          PROVE  FreshlyLost(Job.lib, i)'
      <4>1. PICK l : l = Job.lib
        OBVIOUS
      <4>2. FreshlyLost(l, i)'
        BY <3>1, <3>6, <4>1 DEF Grows
      <4> QED BY <3>1, <4>1, <4>2
    <3>4. Standing'
      BY <3>1, <3>2, <3>3, <3>6 DEF Standing, InRange, Before
    <3>5. Indexed'
      BY <3>1, <3>2 DEF Indexed
    <3> QED BY <3>4, <3>5
  <2> QED BY <1>1, <2>1, <2>3, <2>4 DEF IInv, RunnerInv, StoreStep
<1> QED BY <1>2, <1>3

-----------------------------------------------------------------------------
(* The scheduler, up to the first range of a job.                          *)
LEMMA Failing ==
  ASSUME StoreInv, runner.job \in JobIds, latest' = latest, FailBatch \/ FailRunning \/ WaitForLimit
  PROVE  StoreStep /\ LibrariesGo
<1>1. \E s \in {"failed", "waiting_rate_limit"} : Transition(runner.job, s) \/ StoreUnchanged
  BY DEF FailBatch, FailRunning, WaitForLimit
<1>2. PICK s \in {"failed", "waiting_rate_limit"} : Transition(runner.job, s) \/ StoreUnchanged
  BY <1>1
<1>3. CASE StoreUnchanged
  BY <1>3, NothingMoves
<1>4. CASE Transition(runner.job, s)
  <2>1. s \notin Finished
    BY DEF Finished
  <2> QED BY <1>4, <2>1, TransitionMoves, StatusSteps
<1> QED BY <1>2, <1>3, <1>4

(* Recover, at the top of _run_scheduler, keeps the invariant.             *)
LEMMA RecoverStep ==
  ASSUME IInv, Recover
  PROVE  IInv'
<1>1. /\ latest' = latest /\ request' = request /\ sweep' = sweep /\ runner.pc = "loop"
  BY DEF Recover, OnlyRunner, world, At
<1>2. StoreStep /\ LibrariesGo
  <2>1. CASE stopping
    BY <1>1, <2>1, NothingMoves DEF Recover, IInv
  <2>2. CASE ~stopping
    BY <1>1, <2>2, RecoverMoves, StatusSteps DEF Recover, IInv
  <2> QED BY <2>1, <2>2
<1>3. Free
  <2>1. CASE stopping
    BY <2>1, LoopFrees DEF Recover
  <2>2. CASE ~stopping
    <3>1. runner' = [runner EXCEPT !.pc = "claim"]
      BY <2>2 DEF Recover, Goto
    <3> QED BY <1>1, <3>1 DEF IInv, RunnerInv, RunnerShape, Free, Idle
  <2> QED BY <2>1, <2>2
<1> QED BY <1>1, <1>2, <1>3, LetsGo

(* ClaimJob keeps the invariant.                                           *)
LEMMA ClaimStep ==
  ASSUME IInv, ClaimJob
  PROVE  IInv'
<1>1. PICK j \in JobIds : Claim(j) /\ runner' = [Down EXCEPT !.pc = "start", !.job = j]
  BY DEF ClaimJob
<1>2. /\ latest' = latest /\ request' = request /\ sweep' = sweep
  BY DEF ClaimJob, OnlyRunner, world
<1>3. StatusOnly /\ jobs'[j].status = "running"
  BY <1>1, <1>2, ClaimMoves DEF IInv
<1>4. StoreStep /\ LibrariesGo /\ DOMAIN jobs' = JobIds
  BY <1>3, StatusSteps DEF IInv
<1>5. RequestShape' /\ SweepShape'
  BY <1>2, <1>4, SweepStays, RequestStays DEF IInv, RunnerInv, StoreStep
<1>6. /\ DOMAIN runner' = {"pc", "job", "next", "end", "target", "stage"}
      /\ runner'.pc = "start" /\ runner'.job = j /\ runner'.next = 0 /\ runner'.end = 0
      /\ runner'.target = 0 /\ runner'.stage = "none"
  BY <1>1 DEF Down
<1>7. j # 0 /\ "running" \in Recoverable
  BY NumbersAreNat DEF IInv, StoreInv, Rows, Recoverable
<1>8. RunnerShape'
  BY <1>4, <1>6, <1>7 DEF RunnerShape, Places, Idle
<1>9. Standing' /\ Indexed'
  BY <1>6 DEF Standing, Indexed, InRange, Before
<1>10. Job' = jobs'[j]
  BY <1>6 DEF Job
<1> QED BY <1>3, <1>4, <1>5, <1>7, <1>8, <1>9, <1>10 DEF IInv, RunnerInv, StoreStep

(* Falling asleep and waking keep the invariant.                           *)
LEMMA SleepStep ==
  ASSUME IInv, FallAsleep \/ Wake
  PROVE  IInv'
<1>1. /\ StoreUnchanged /\ latest' = latest /\ request' = request /\ sweep' = sweep
  BY DEF FallAsleep, Wake, OnlyRunner, world, StoreUnchanged
<1>2. Free
  <2>1. CASE FallAsleep
    <3>1. runner' = [runner EXCEPT !.pc = "idle"] /\ runner.pc = "claim"
      BY <2>1 DEF FallAsleep, Goto, At
    <3> QED BY <3>1 DEF IInv, RunnerInv, RunnerShape, Free, Idle
  <2>2. CASE Wake
    BY <2>2, LoopFrees DEF Wake
  <2> QED BY <2>1, <2>2
<1> QED BY <1>1, <1>2, NothingMoves, LetsGo DEF IInv

(* Begin keeps the invariant.                                              *)
LEMMA BeginStep ==
  ASSUME IInv, Begin
  PROVE  IInv'
<1>1. /\ latest' = latest /\ request' = request /\ sweep' = sweep /\ runner.pc = "start"
      /\ runner.pc \notin Idle
  BY DEF Begin, OnlyRunner, world, At, Idle
<1>2. /\ runner.job \in JobIds /\ runner.job # 0 /\ Job.lib \in Libraries
      /\ Job.status \in Recoverable \union {"deleted"}
      /\ Job.status # "deleted" => Standing /\ Indexed
      /\ DOMAIN runner = {"pc", "job", "next", "end", "target", "stage"}
      /\ runner.target \in {0} \union FailureIds
      /\ library[Job.lib].fetched \in Nat
  BY <1>1, AtJob
<1>3. CASE Transition(runner.job, "running") /\ runner' = runner
  <2>1. StatusOnly /\ OneMoves(runner.job) /\ jobs'[runner.job].status = "running"
    BY <1>1, <1>2, <1>3, TransitionMoves DEF IInv, Finished
  <2>2. StoreStep /\ LibrariesGo /\ Others
    BY <1>2, <2>1, StatusSteps, OneStays DEF IInv, Recoverable
  <2>3. RequestShape' /\ SweepShape'
    BY <1>1, <2>2, SweepStays, RequestStays DEF IInv, RunnerInv, StoreStep
  <2> QED BY <1>3, <2>2, <2>3, OthersKeep
<1>4. CASE Loop /\ StoreUnchanged
  BY <1>1, <1>4, NothingMoves, LoopFrees, LetsGo DEF IInv
<1>5. CASE /\ Job.status = "running" /\ StoreUnchanged
           /\ runner' = [runner EXCEPT !.next = 1, !.end = library[Job.lib].fetched,
                !.pc = IF Job.kind = "repair" THEN "target"
                       ELSE IF Job.kind = "incremental" /\ Mode # "messages" THEN "refresh"
                       ELSE "first"]
  <2>1. /\ DOMAIN runner' = {"pc", "job", "next", "end", "target", "stage"}
        /\ runner'.pc \in {"target", "refresh", "first"}
        /\ runner'.pc = "target" <=> Job.kind = "repair"
        /\ runner'.job = runner.job /\ runner'.next = 1 /\ runner'.end = library[Job.lib].fetched
        /\ runner'.target = runner.target /\ runner'.stage = runner.stage
    BY <1>2, <1>5
  <2>2. Job' = Job
    BY <1>5, <2>1 DEF Job, StoreUnchanged, scans
  <2>3. StoreStep /\ LibrariesGo
    BY <1>1, <1>5, NothingMoves DEF IInv
  <2>4. Standing /\ runner.target = 0
    BY <1>1, <1>2, <1>5 DEF Standing
  <2>5. Standing' /\ Indexed'
    BY <2>1, <2>2, <2>4 DEF Standing, Indexed, InRange, Before
  <2> QED BY <1>1, <1>2, <2>1, <2>2, <2>3, <2>5, GoesOn
       DEF Places, Idle, IInv, RunnerInv, RunnerShape
<1> QED BY <1>3, <1>4, <1>5 DEF Begin

(* The job is indexed through `through`, and nothing else happens to it.   *)
LEMMA AdvanceSteps ==
  ASSUME IInv, runner.job \in JobIds, NEW through \in Nat, Advance(runner.job, through),
         latest' = latest
  PROVE  /\ StoreStep /\ LibrariesGo /\ \A l \in Libraries : Grows(l)
         /\ jobs'[runner.job].lib = Job.lib /\ jobs'[runner.job].kind = Job.kind
         /\ jobs'[runner.job].status = Job.status /\ jobs'[runner.job].snap = Job.snap
         /\ jobs'[runner.job].fetched = Job.fetched /\ jobs'[runner.job].next = Job.next
         /\ jobs'[runner.job].indexed \in Nat /\ through <= jobs'[runner.job].indexed
         /\ Job.indexed <= jobs'[runner.job].indexed
         /\ jobs'[runner.job].targets = Job.targets /\ failures' = failures
<1>1. Indexes(runner.job, through, {})
  BY AdvanceIndexes DEF IInv
<1>2. /\ StoreInv' /\ (\A m \in Libraries : Grows(m))
      /\ jobs'[runner.job].indexed >= through /\ jobs'[runner.job].indexed >= jobs[runner.job].indexed
  BY <1>1, IndexKeeps DEF IInv
<1>3. /\ DOMAIN jobs' = JobIds /\ DOMAIN failures' = FailureIds
      /\ jobs'[runner.job].lib = Job.lib /\ jobs'[runner.job].kind = Job.kind
      /\ jobs'[runner.job].status = Job.status /\ jobs'[runner.job].snap = Job.snap
      /\ jobs'[runner.job].fetched = Job.fetched /\ jobs'[runner.job].next = Job.next
      /\ library'[Job.lib].fetched = library[Job.lib].fetched
      /\ library'[Job.lib].status = library[Job.lib].status
      /\ \A l \in Libraries \ {Job.lib} : library'[l] = library[l]
  BY <1>1 DEF Indexes, Works, Job
<1>4. jobs'[runner.job].indexed \in Nat
  BY <1>2, <1>3 DEF StoreInv, Rows, JobRows
<1>5. jobs'[runner.job].targets = Job.targets /\ failures' = failures
  <2>1. jobs' = [jobs EXCEPT ![runner.job] =
                   [jobs[runner.job] EXCEPT !.indexed = IndexedTo(runner.job, through)]]
    BY DEF Advance
  <2>2. DOMAIN jobs[runner.job] = JobFields
    BY DEF IInv, StoreInv, Rows, JobRows
  <2> QED BY <2>1, <2>2 DEF Advance, Job, JobFields
<1>6. LibrariesGo
  <2>1. \A l \in Libraries : library[l].fetched \in Nat
    BY DEF IInv, StoreInv, Rows, LibraryRows
  <2> QED BY <1>3, <2>1 DEF LibrariesGo
<1> QED BY <1>2, <1>3, <1>4, <1>5, <1>6 DEF StoreStep, Job

(* IndexBacklog keeps the invariant: a scan starts with everything fetched *)
(* indexed.                                                                *)
LEMMA BacklogStep ==
  ASSUME IInv, IndexBacklog
  PROVE  IInv'
<1>1. /\ latest' = latest /\ request' = request /\ sweep' = sweep /\ runner.pc = "first"
      /\ runner.pc \notin Idle
  BY DEF IndexBacklog, OnlyRunner, world, At, Idle
<1>2. /\ runner.job \in JobIds /\ runner.job # 0 /\ Job.lib \in Libraries
      /\ Job.status \in Recoverable \union {"deleted"}
      /\ Job.status # "deleted" => Standing /\ Indexed
      /\ DOMAIN runner = {"pc", "job", "next", "end", "target", "stage"}
      /\ Job.fetched \in Nat /\ Job.indexed \in Nat /\ Job.snap \in Nat /\ Job.next \in Nat \ {0}
      /\ runner.next \in Nat /\ runner.end \in Nat
      /\ runner.target \in {0} \union FailureIds
  BY <1>1, AtJob
<1>3. runner.stage \in {"none", "first", "batch", "lost", "resolve"}
  BY DEF IInv, RunnerInv, RunnerShape
<1>4. Job.status # "deleted" => /\ Job.kind # "repair" /\ runner.target = 0
                                /\ Covered(Job.lib, Job.next - 1)
  BY <1>1, <1>2 DEF Standing, IInv, StoreInv, Coverage, Job
<1>5. ASSUME runner' = [runner EXCEPT !.pc = "top", !.next = Job.next, !.end = Job.snap, !.target = 0],
             StoreStep, LibrariesGo, Job'.lib = Job.lib, Job'.kind = Job.kind,
             Job'.status = Job.status, Job'.snap = Job.snap,
             Job.status # "deleted" => Covered(Job.lib, Job.next - 1)',
             Job.next' = Job.next, Job'.fetched <= Job'.indexed
      PROVE  IInv'
  <2>1. /\ DOMAIN runner' = {"pc", "job", "next", "end", "target", "stage"}
        /\ runner'.pc = "top" /\ runner'.job = runner.job /\ runner'.next = Job.next
        /\ runner'.end = Job.snap /\ runner'.target = 0 /\ runner'.stage = runner.stage
    BY <1>2, <1>5
  <2>2. ASSUME Job.status # "deleted" PROVE Standing' /\ Indexed'
    BY <1>2, <1>4, <1>5, <2>1, <2>2 DEF Standing, Indexed, InRange, Before
  <2> QED BY <1>1, <1>2, <1>3, <1>5, <2>1, <2>2, GoesOn DEF Places, Idle, InRange
<1>6. CASE Job.indexed >= Job.fetched /\ ScanFrom(Job.next, Job.snap, 0) /\ StoreUnchanged
  <2>1. StoreStep /\ LibrariesGo /\ \A l, n : Covered(l, n)' <=> Covered(l, n)
    BY <1>1, <1>6, NothingMoves DEF IInv
  <2>2. runner' = [runner EXCEPT !.pc = "top", !.next = Job.next, !.end = Job.snap, !.target = 0]
    BY <1>6 DEF ScanFrom
  <2>3. runner'.job = runner.job
    BY <1>2, <2>2
  <2>4. Job' = Job
    BY <1>6, <2>3 DEF Job, StoreUnchanged, scans
  <2> QED BY <1>2, <1>4, <1>5, <1>6, <2>1, <2>2, <2>4
<1>7. CASE /\ Job.indexed < Job.fetched /\ Job.status = "running"
           /\ Advance(runner.job, Job.fetched) /\ ScanFrom(Job.next, Job.snap, 0)
  <2>1. /\ StoreStep /\ LibrariesGo /\ Grows(Job.lib)
        /\ jobs'[runner.job].lib = Job.lib /\ jobs'[runner.job].kind = Job.kind
        /\ jobs'[runner.job].status = Job.status /\ jobs'[runner.job].snap = Job.snap
        /\ jobs'[runner.job].fetched = Job.fetched /\ jobs'[runner.job].next = Job.next
        /\ jobs'[runner.job].indexed \in Nat /\ Job.fetched <= jobs'[runner.job].indexed
    BY <1>1, <1>2, <1>7, AdvanceSteps
  <2>2. runner' = [runner EXCEPT !.pc = "top", !.next = Job.next, !.end = Job.snap, !.target = 0]
    BY <1>7 DEF ScanFrom
  <2>3. runner'.job = runner.job
    BY <1>2, <2>2
  <2>4. Job' = jobs'[runner.job]
    BY <2>3 DEF Job
  <2>5. Covered(Job.lib, Job.next - 1)'
    <3>1. Covered(Job.lib, Job.next - 1)
      BY <1>4, <1>7
    <3> QED BY <2>1, <2>4, <3>1, CoveredGrows
  <2> QED BY <1>5, <2>1, <2>2, <2>4, <2>5
<1>8. CASE FailRunning /\ Loop
  BY <1>1, <1>2, <1>8, Failing, LoopFrees, LetsGo DEF IInv
<1>9. CASE /\ runner' = [runner EXCEPT !.pc = "publish", !.end = Job.fetched, !.stage = "first"]
           /\ StoreUnchanged
  <2>1. StoreStep /\ LibrariesGo
    BY <1>1, <1>9, NothingMoves DEF IInv
  <2>2. /\ DOMAIN runner' = {"pc", "job", "next", "end", "target", "stage"}
        /\ runner'.pc = "publish" /\ runner'.job = runner.job /\ runner'.next = runner.next
        /\ runner'.end = Job.fetched /\ runner'.target = runner.target /\ runner'.stage = "first"
    BY <1>2, <1>9
  <2>3. Job' = Job
    BY <1>9, <2>2 DEF Job, StoreUnchanged, scans
  <2>4. ASSUME Job.status # "deleted" PROVE Standing' /\ Indexed'
    BY <1>2, <1>4, <2>2, <2>3, <2>4 DEF Standing, Indexed, InRange, Before
  <2> QED BY <1>1, <1>2, <2>1, <2>2, <2>3, <2>4, GoesOn DEF Places, Idle, InRange
<1> QED
  <2>1. Job.indexed >= Job.fetched \/ Job.indexed < Job.fetched
    BY <1>2
  <2> QED BY <1>6, <1>7, <1>8, <1>9, <2>1 DEF IndexBacklog

(* NextTarget keeps the invariant: below the cursor of a target everything *)
(* is covered.                                                             *)
LEMMA TargetStep ==
  ASSUME IInv, NextTarget
  PROVE  IInv'
<1>1. /\ latest' = latest /\ request' = request /\ sweep' = sweep /\ runner.pc = "target"
      /\ runner.pc \notin Idle /\ StoreUnchanged
  BY DEF NextTarget, OnlyRunner, world, At, Idle
<1>2. /\ runner.job \in JobIds /\ runner.job # 0 /\ Job.lib \in Libraries
      /\ Job.status \in Recoverable \union {"deleted"}
      /\ Job.status # "deleted" => Standing /\ Indexed
      /\ DOMAIN runner = {"pc", "job", "next", "end", "target", "stage"}
      /\ runner.next \in Nat /\ runner.end \in Nat
      /\ runner.target \in {0} \union FailureIds
  BY <1>1, AtJob
<1>3. runner.stage \in {"none", "first", "batch", "lost", "resolve"}
  BY DEF IInv, RunnerInv, RunnerShape
<1>4. Job.status # "deleted" => Job.kind = "repair"
  BY <1>1, <1>2 DEF Standing
<1>5. StoreStep /\ LibrariesGo /\ \A l, n : Covered(l, n)' <=> Covered(l, n)
  BY <1>1, NothingMoves DEF IInv
<1>6. CASE Goto("finish")
  <2>1. /\ DOMAIN runner' = {"pc", "job", "next", "end", "target", "stage"}
        /\ runner'.pc = "finish" /\ runner'.job = runner.job /\ runner'.next = runner.next
        /\ runner'.end = runner.end /\ runner'.target = runner.target /\ runner'.stage = runner.stage
    BY <1>2, <1>6 DEF Goto
  <2>2. Job' = Job
    BY <1>1, <2>1 DEF Job, StoreUnchanged, scans
  <2>3. ASSUME Job.status # "deleted" PROVE Standing' /\ Indexed'
    BY <1>4, <2>1, <2>2, <2>3 DEF Standing, Indexed, InRange, Before
  <2> QED BY <1>1, <1>2, <1>3, <1>5, <2>1, <2>2, <2>3, GoesOn DEF Places, Idle
<1>7. ASSUME NEW f \in DOMAIN Job.targets, ~Job.targets[f].done,
             ScanFrom(Job.targets[f].next, failures[f].last, f)
      PROVE  IInv'
  <2>1. /\ f \in FailureIds /\ Job.targets[f].next \in Nat \ {0}
        /\ failures[f].first \in Nat \ {0} /\ failures[f].last \in Nat
        /\ f # 0
    BY <1>2, NumbersAreNat DEF IInv, StoreInv, Rows, JobRows, FailureRows, Job
  <2>2. /\ DOMAIN runner' = {"pc", "job", "next", "end", "target", "stage"}
        /\ runner'.pc = "top" /\ runner'.job = runner.job /\ runner'.next = Job.targets[f].next
        /\ runner'.end = failures[f].last /\ runner'.target = f /\ runner'.stage = runner.stage
    BY <1>2, <1>7 DEF ScanFrom
  <2>3. Job' = Job /\ failures' = failures
    BY <1>1, <2>2 DEF Job, StoreUnchanged, scans
  <2>4. ASSUME Job.status # "deleted" PROVE Covered(Job.lib, Job.targets[f].next - 1)
    <3>1. /\ failures[f].lib = Job.lib /\ failures[f].status = "repairing"
          /\ failures[f].first .. Job.targets[f].next - 1 \subseteq Kept(Job.lib)
      BY <1>2, <1>7, <2>4 DEF IInv, StoreInv, Cursors, Job
    <3>2. f \in Unresolved(Job.lib)
      BY <2>1, <3>1 DEF Unresolved
    <3>3. Covered(Job.lib, failures[f].last) /\ failures[f].first <= failures[f].last
      BY <1>2, <2>1, <3>2 DEF IInv, StoreInv, Coverage, Bounded
    <3> SUFFICES ASSUME NEW i \in 1 .. Job.targets[f].next - 1
                 PROVE  i \in Kept(Job.lib) \/ \E g \in Unresolved(Job.lib) : i \in RangeOf(g)
      BY DEF Covered
    <3>4. CASE i <= failures[f].last
      BY <2>1, <3>3, <3>4 DEF Covered
    <3>5. CASE i > failures[f].last
      BY <2>1, <3>1, <3>3, <3>5
    <3> QED BY <2>1, <3>4, <3>5
  <2>5. ASSUME Job.status # "deleted" PROVE Standing' /\ Indexed'
    <3>1. Covered(Job.lib, runner.next - 1)'
      BY <1>5, <2>2, <2>3, <2>4, <2>5
    <3>2. Job.kind = "repair"
      BY <1>4, <2>5
    <3>3. Standing'
      BY <1>7, <2>1, <2>2, <2>3, <3>1, <3>2 DEF Standing, InRange, Before
    <3>4. Indexed'
      BY <2>3, <3>2 DEF Indexed
    <3> QED BY <3>3, <3>4
  <2> QED BY <1>1, <1>2, <1>3, <1>5, <2>1, <2>2, <2>3, <2>5, GoesOn DEF Places, Idle, InRange
<1> QED BY <1>6, <1>7 DEF NextTarget

(* The boundary of a batch, where the scheduler lets go or waits.          *)
LEMMA BoundaryStep ==
  ASSUME IInv, runner.pc \in {"top", "refresh"}, latest' = latest, request' = request, sweep' = sweep,
         \/ Loop /\ StoreUnchanged
         \/ ConsumeControl(runner.job) /\ Loop
         \/ /\ Job.status = "running" /\ Transition(runner.job, "auto_paused_download")
            /\ Goto("waitidle")
  PROVE  IInv'
<1>1. runner.pc \notin Idle
  BY DEF Idle
<1>2. /\ runner.job \in JobIds /\ runner.job # 0
      /\ DOMAIN runner = {"pc", "job", "next", "end", "target", "stage"}
      /\ runner.next \in Nat /\ runner.end \in Nat
      /\ runner.target \in {0} \union FailureIds
  BY <1>1, AtJob
<1>3. CASE Loop /\ StoreUnchanged
  BY <1>3, NothingMoves, LoopFrees, LetsGo DEF IInv
<1>4. CASE ConsumeControl(runner.job) /\ Loop
  BY <1>2, <1>4, ConsumeMoves, StatusSteps, LoopFrees, LetsGo DEF IInv
<1>5. CASE Transition(runner.job, "auto_paused_download") /\ Goto("waitidle")
  <2>1. "auto_paused_download" \notin Finished /\ "auto_paused_download" \in Recoverable
    BY DEF Finished, Recoverable
  <2>2. StatusOnly /\ jobs'[runner.job].status = "auto_paused_download"
    BY <1>2, <1>5, <2>1, TransitionMoves DEF IInv
  <2>3. StoreStep /\ LibrariesGo
    BY <2>2, StatusSteps DEF IInv
  <2>4. /\ DOMAIN runner' = {"pc", "job", "next", "end", "target", "stage"}
        /\ runner'.pc = "waitidle" /\ runner'.job = runner.job /\ runner'.next = runner.next
        /\ runner'.end = runner.end /\ runner'.target = runner.target /\ runner'.stage = runner.stage
    BY <1>2, <1>5 DEF Goto
  <2>5. Job'.status \in Recoverable
    BY <2>1, <2>2, <2>4 DEF Job
  <2>6. Standing' /\ Indexed'
    BY <2>4 DEF Standing, Indexed, InRange, Before
  <2>7. runner.stage \in {"none", "first", "batch", "lost", "resolve"}
    BY DEF IInv, RunnerInv, RunnerShape
  <2> QED BY <1>1, <1>2, <2>3, <2>4, <2>5, <2>6, <2>7, GoesOn DEF Places, Idle
<1> QED BY <1>3, <1>4, <1>5

(* The scheduler goes on to another point of the same batch.               *)
LEMMA PointStep ==
  ASSUME IInv, runner.pc \notin Idle, StoreUnchanged, latest' = latest, request' = request,
         sweep' = sweep, NEW p \in Places \ Idle, Goto(p),
         \/ p \in {"requeue", "waitidle"}
         \/ p \in {"fetch", "comments", "commit"} /\ runner.pc \in Before
              /\ runner.next <= runner.end
         \/ p = "record" /\ runner.pc = "fetch" /\ Job.kind # "repair"
         \/ p = "first" /\ runner.pc = "refresh"
         \/ p = "finish" /\ runner.pc = "top"
  PROVE  IInv'
<1>1. /\ runner.job \in JobIds /\ runner.job # 0
      /\ Job.status \in Recoverable \union {"deleted"}
      /\ Job.status # "deleted" => Standing /\ Indexed
      /\ DOMAIN runner = {"pc", "job", "next", "end", "target", "stage"}
      /\ runner.next \in Nat /\ runner.end \in Nat
      /\ runner.target \in {0} \union FailureIds
  BY AtJob
<1>2. /\ DOMAIN runner' = {"pc", "job", "next", "end", "target", "stage"}
      /\ runner'.pc = p /\ runner'.job = runner.job /\ runner'.next = runner.next
      /\ runner'.end = runner.end /\ runner'.target = runner.target /\ runner'.stage = runner.stage
  BY <1>1 DEF Goto
<1>3. Job' = Job /\ failures' = failures
  BY <1>2 DEF Job, StoreUnchanged, scans
<1>4. StoreStep /\ LibrariesGo /\ \A l, n : Covered(l, n)' <=> Covered(l, n)
  BY NothingMoves DEF IInv
<1>5. ASSUME Job.status # "deleted" PROVE Standing' /\ Indexed'
  <2>1. Standing /\ Indexed
    BY <1>1, <1>5
  <2>2. Covered(Job.lib, runner.next - 1) => Covered(Job.lib, runner.next - 1)'
    BY <1>2, <1>3, <1>4
  <2>3. Standing'
    BY <1>2, <1>3, <2>1, <2>2 DEF Standing, InRange, Before
  <2>4. Indexed'
    BY <1>2, <1>3, <2>1 DEF Indexed, Standing, Before
  <2> QED BY <2>3, <2>4
<1>6. runner.stage \in {"none", "first", "batch", "lost", "resolve"}
  BY DEF IInv, RunnerInv, RunnerShape
<1> QED BY <1>1, <1>2, <1>3, <1>4, <1>5, <1>6, GoesOn

(* Top keeps the invariant.                                                *)
LEMMA TopStep ==
  ASSUME IInv, Top
  PROVE  IInv'
<1>1. /\ latest' = latest /\ request' = request /\ sweep' = sweep /\ runner.pc = "top"
      /\ runner.pc \notin Idle
  BY DEF Top, OnlyRunner, world, At, Idle
<1>2. /\ runner.job \in JobIds /\ runner.job # 0 /\ Job.lib \in Libraries
      /\ Job.status \in Recoverable \union {"deleted"}
      /\ Job.status # "deleted" => Standing /\ Indexed
      /\ DOMAIN runner = {"pc", "job", "next", "end", "target", "stage"}
      /\ runner.next \in Nat /\ runner.end \in Nat
      /\ runner.target \in {0} \union FailureIds
  BY <1>1, AtJob
<1>3. CASE runner.next <= runner.end
  <2>1. Boundary(Goto("fetch"))
    BY <1>3 DEF Top
  <2>2. CASE Goto("fetch") /\ StoreUnchanged
    BY <1>1, <1>3, <2>2, PointStep DEF Places, Idle, InRange, Before
  <2> QED BY <1>1, <2>1, <2>2, BoundaryStep DEF Boundary
<1>4. CASE ~(runner.next <= runner.end) /\ runner.target = 0
  BY <1>1, <1>4, PointStep DEF Top, Places, Idle
<1>5. CASE ~(runner.next <= runner.end) /\ runner.target # 0
  <2>1. /\ runner' = [runner EXCEPT !.pc = "publish", !.stage = "resolve",
                        !.end = failures[runner.target].through]
        /\ StoreUnchanged
    BY <1>5 DEF Top
  <2>2. /\ DOMAIN runner' = {"pc", "job", "next", "end", "target", "stage"}
        /\ runner'.pc = "publish" /\ runner'.job = runner.job /\ runner'.next = runner.next
        /\ runner'.end = failures[runner.target].through
        /\ runner'.target = runner.target /\ runner'.stage = "resolve"
    BY <1>2, <2>1
  <2>3. Job' = Job /\ failures' = failures
    BY <2>1, <2>2 DEF Job, StoreUnchanged, scans
  <2>4. StoreStep /\ LibrariesGo
    BY <1>1, <2>1, NothingMoves DEF IInv
  <2>5. /\ failures[runner.target].through \in Nat
        /\ failures[runner.target].last <= failures[runner.target].through
    BY <1>2, <1>5 DEF IInv, StoreInv, Rows, FailureRows, Bounded
  <2>6. ASSUME Job.status # "deleted" PROVE Standing' /\ Indexed'
    BY <1>1, <1>2, <1>5, <2>2, <2>3, <2>5, <2>6 DEF Standing, Indexed, InRange, Before
  <2> QED BY <1>1, <1>2, <2>2, <2>3, <2>4, <2>5, <2>6, GoesOn DEF Places, Idle, InRange
<1> QED BY <1>3, <1>4, <1>5

(* ResumeQueue and Requeue keep the invariant.                             *)
LEMMA QueueStep ==
  ASSUME IInv, ResumeQueue \/ Requeue
  PROVE  IInv'
<1>1. CASE ResumeQueue
  <2>1. /\ latest' = latest /\ request' = request /\ sweep' = sweep /\ runner.pc = "waitidle"
        /\ runner.pc \notin Idle /\ StoreUnchanged
    BY <1>1 DEF ResumeQueue, OnlyRunner, world, At, Idle
  <2>2. CASE Goto("requeue")
    BY <2>1, <2>2, PointStep DEF Places, Idle
  <2>3. CASE Loop
    BY <2>1, <2>3, NothingMoves, LoopFrees, LetsGo DEF IInv
  <2> QED BY <1>1, <2>2, <2>3 DEF ResumeQueue
<1>2. CASE Requeue
  <2>1. /\ latest' = latest /\ request' = request /\ sweep' = sweep /\ runner.pc = "requeue"
        /\ runner.pc \notin Idle /\ Loop
    BY <1>2 DEF Requeue, world, At, Idle
  <2>2. runner.job \in JobIds
    BY <2>1, AtJob
  <2>3. StoreStep /\ LibrariesGo
    <3>1. CASE Transition(runner.job, "queued")
      BY <2>1, <2>2, <3>1, "queued" \notin Finished, TransitionMoves, StatusSteps DEF IInv, Finished
    <3>2. CASE FailRunning
      BY <2>1, <2>2, <3>2, Failing DEF IInv
    <3> QED BY <1>2, <3>1, <3>2 DEF Requeue
  <2> QED BY <2>1, <2>3, LoopFrees, LetsGo
<1> QED BY <1>1, <1>2

(* The requests of a batch and their faults keep the invariant, also when  *)
(* the job was deleted meanwhile.                                          *)
LEMMA FetchStep ==
  ASSUME IInv, FetchOk \/ FetchFloodWait \/ FetchRefused \/ FetchTransient \/ ScanComments
  PROVE  IInv'
<1>1. /\ latest' = latest /\ request' = request /\ sweep' = sweep
      /\ runner.pc \in {"fetch", "comments"} /\ runner.pc \notin Idle
  BY DEF FetchOk, FetchFloodWait, FetchRefused, FetchTransient, ScanComments, OnlyRunner, FaultOnly,
     world, At, Idle
<1>2. /\ runner.job \in JobIds /\ Job.status \in Recoverable \union {"deleted"}
      /\ Job.status # "deleted" => Standing
  BY <1>1, AtJob
<1>3. CASE FailBatch /\ Loop
  BY <1>1, <1>2, <1>3, Failing, LoopFrees, LetsGo DEF IInv
<1>4. CASE WaitForLimit /\ Loop
  BY <1>1, <1>2, <1>4, Failing, LoopFrees, LetsGo DEF IInv
<1>5. ASSUME NEW p \in {"comments", "commit"}, Goto(p), StoreUnchanged
      PROVE  IInv'
  <2>1. CASE Job.status # "deleted"
    <3>1. runner.next <= runner.end
      BY <1>1, <1>2, <2>1 DEF Standing, Before
    <3> QED BY <1>1, <1>5, <3>1, PointStep DEF Places, Idle, InRange, Before
  <2>2. CASE Job.status = "deleted"
    <3>1. /\ DOMAIN runner = {"pc", "job", "next", "end", "target", "stage"}
          /\ runner.next \in Nat /\ runner.end \in Nat
          /\ runner.target \in {0} \union FailureIds
      BY <1>1, AtJob
    <3>2. /\ DOMAIN runner' = {"pc", "job", "next", "end", "target", "stage"}
          /\ runner'.pc = p /\ runner'.job = runner.job /\ runner'.next = runner.next
          /\ runner'.end = runner.end /\ runner'.target = runner.target /\ runner'.stage = runner.stage
      BY <1>5, <3>1 DEF Goto
    <3>3. Job' = Job
      BY <1>5, <3>2 DEF Job, StoreUnchanged, scans
    <3>4. runner.stage \in {"none", "first", "batch", "lost", "resolve"}
      BY DEF IInv, RunnerInv, RunnerShape
    <3>5. StoreStep /\ LibrariesGo
      BY <1>1, <1>5, NothingMoves DEF IInv
    <3> QED BY <1>1, <1>2, <1>5, <2>2, <3>1, <3>2, <3>3, <3>4, <3>5, GoesOn
         DEF Places, Idle, InRange
  <2> QED BY <2>1, <2>2
<1>6. CASE FetchTransient
  <2>1. CASE RecordRetry(runner.job) /\ runner' = runner
    <3>1. /\ StatusOnly /\ OneMoves(runner.job) /\ jobs[runner.job].status = "running"
          /\ jobs'[runner.job].status = jobs[runner.job].status
      BY <1>1, <1>2, <2>1, RetryMoves DEF IInv, RecordRetry
    <3>2. StoreStep /\ LibrariesGo /\ Others
      BY <1>2, <3>1, StatusSteps, OneStays DEF IInv, Recoverable
    <3>3. RequestShape' /\ SweepShape'
      BY <1>1, <3>2, SweepStays, RequestStays DEF IInv, RunnerInv, StoreStep
    <3> QED BY <2>1, <3>2, <3>3, OthersKeep
  <2>2. CASE Job.kind # "repair" /\ Goto("record") /\ StoreUnchanged
    BY <1>1, <1>6, <2>2, PointStep DEF FetchTransient, At, Places, Idle, InRange
  <2> QED BY <1>3, <1>6, <2>1, <2>2 DEF FetchTransient
<1>7. CASE FetchOk \/ ScanComments
  <2>1. FetchOk => \E p \in {"comments", "commit"} : Goto(p)
    BY DEF FetchOk, Fetched
  <2> QED BY <1>3, <1>5, <1>7, <2>1 DEF FetchOk, ScanComments
<1> QED BY <1>3, <1>4, <1>6, <1>7 DEF FetchFloodWait, FetchRefused

(* Refresh and its failure keep the invariant.                             *)
LEMMA RefreshStep ==
  ASSUME IInv, Refresh \/ RefreshFails
  PROVE  IInv'
<1>1. /\ latest' = latest /\ request' = request /\ sweep' = sweep
      /\ runner.pc = "refresh" /\ runner.pc \notin Idle
  BY DEF Refresh, RefreshFails, OnlyRunner, FaultOnly, world, At, Idle
<1>2. /\ runner.job \in JobIds /\ Job.status \in Recoverable \union {"deleted"}
      /\ Job.status # "deleted" => Standing
      /\ DOMAIN runner = {"pc", "job", "next", "end", "target", "stage"}
      /\ runner.next \in Nat /\ runner.end \in Nat
      /\ runner.target \in {0} \union FailureIds
  BY <1>1, AtJob
<1>3. CASE FailRunning /\ Loop
  BY <1>1, <1>2, <1>3, Failing, LoopFrees, LetsGo DEF IInv
<1>4. CASE Goto("first") /\ StoreUnchanged
  BY <1>1, <1>4, PointStep DEF Places, Idle
<1>5. CASE runner' = [runner EXCEPT !.next = Last + 1] /\ StoreUnchanged
  <2>1. Last + 1 \in Nat
    BY LastIsBetween DEF IInv, RunnerInv
  <2>2. /\ DOMAIN runner' = {"pc", "job", "next", "end", "target", "stage"}
        /\ runner'.pc = "refresh" /\ runner'.job = runner.job /\ runner'.next = Last + 1
        /\ runner'.end = runner.end /\ runner'.target = runner.target /\ runner'.stage = runner.stage
    BY <1>1, <1>2, <1>5
  <2>3. Job' = Job
    BY <1>5, <2>2 DEF Job, StoreUnchanged, scans
  <2>4. runner.stage \in {"none", "first", "batch", "lost", "resolve"}
    BY DEF IInv, RunnerInv, RunnerShape
  <2>5. StoreStep /\ LibrariesGo
    BY <1>1, <1>5, NothingMoves DEF IInv
  <2>6. ASSUME Job.status # "deleted" PROVE Standing' /\ Indexed'
    BY <1>1, <1>2, <2>2, <2>3, <2>6 DEF Standing, Indexed, InRange, Before
  <2> QED BY <1>1, <1>2, <2>1, <2>2, <2>3, <2>4, <2>5, <2>6, GoesOn DEF Places, Idle
<1> QED BY <1>1, <1>3, <1>4, <1>5, BoundaryStep DEF Refresh, RefreshFails, Boundary

-----------------------------------------------------------------------------
(* The batch of the scheduler lies in the channel, and coverage up to it   *)
(* carries over to its end.                                                *)
LEMMA BatchOfJob ==
  ASSUME IInv, Job.status # "deleted", runner.pc \in Before \ {"top"}
  PROVE  /\ runner.next \in Nat \ {0} /\ runner.next <= Last /\ Last \in Nat
         /\ Last <= latest[Job.lib] /\ latest[Job.lib] \in Messages
         /\ Last <= runner.end /\ Covered(Job.lib, runner.next - 1)
         /\ runner.next .. Last \in SUBSET Messages
<1>1. runner.pc \notin Idle /\ runner.pc \in Before /\ runner.pc \in InRange
  BY DEF Idle, Before, InRange
<1>2. /\ runner.job \in JobIds /\ Job.lib \in Libraries /\ Standing
      /\ runner.next \in Nat /\ runner.end \in Nat
      /\ runner.target \in {0} \union FailureIds
  BY <1>1, AtJob
<1>3. latest[Job.lib] \in Messages
  BY <1>2 DEF IInv, StoreInv, Rows
<1>4. /\ runner.next >= 1 /\ Covered(Job.lib, runner.next - 1) /\ runner.next <= runner.end
      /\ runner.end = IF runner.target = 0 THEN Job.snap ELSE failures[runner.target].last
      /\ runner.target # 0 => runner.target \in DOMAIN Job.targets
  BY <1>1, <1>2 DEF Standing
<1>5. runner.end <= latest[Job.lib]
  <2>1. CASE runner.target = 0
    BY <1>2, <1>4, <2>1 DEF IInv, StoreInv, Bounded, Job
  <2>2. CASE runner.target # 0
    <3>1. failures[runner.target].lib = Job.lib
      BY <1>2, <1>4, <2>2 DEF IInv, StoreInv, Cursors, Job
    <3>2. /\ failures[runner.target].last \in Nat /\ failures[runner.target].through \in Nat
          /\ failures[runner.target].last <= failures[runner.target].through
          /\ failures[runner.target].through <= latest[Job.lib]
      BY <1>2, <2>2, <3>1 DEF IInv, StoreInv, Rows, FailureRows, Bounded
    <3> QED BY <1>3, <1>4, <2>2, <3>2 DEF Messages
  <2> QED BY <2>1, <2>2
<1>6. Last \in Nat /\ Last <= runner.end /\ runner.next <= Last
  BY <1>4, LastIsBetween DEF IInv, RunnerInv
<1>7. MaxMessage \in Nat
  BY ScanStoreAssumption
<1> QED BY <1>2, <1>3, <1>4, <1>5, <1>6, <1>7 DEF Messages

(* What a commit changes besides the invariant.                            *)
LEMMA CommitWorks ==
  ASSUME StoreInv, NEW j \in JobIds, NEW l, l = jobs[j].lib, NEW last \in Nat, NEW read,
         NEW target, CommitFetched(j, last, read, target), latest' = latest
  PROVE  /\ DOMAIN jobs' = JobIds /\ failures' = failures /\ LibrariesGo
         /\ jobs'[j].lib = l /\ jobs'[j].kind = jobs[j].kind
         /\ jobs'[j].status = jobs[j].status /\ jobs'[j].snap = jobs[j].snap
         /\ jobs'[j].fetched \in {jobs[j].fetched, last} /\ jobs'[j].indexed = jobs[j].indexed
         /\ last < jobs'[j].next
         /\ target \in DOMAIN jobs[j].targets =>
              /\ target \in DOMAIN jobs'[j].targets
              /\ jobs'[j].targets[target] = [next |-> last + 1, done |-> FALSE]
<1>1. PICK reach : reach = Max({jobs[j].fetched, last})
  OBVIOUS
<1>2. /\ Works(j) /\ failures' = failures /\ last < jobs'[j].next
      /\ jobs'[j].fetched = reach /\ jobs'[j].indexed = jobs[j].indexed
      /\ jobs'[j].targets = [f \in DOMAIN jobs[j].targets |->
           IF f = target THEN [next |-> last + 1, done |-> FALSE] ELSE jobs[j].targets[f]]
      /\ library'[l].fetched = Max({library[l].fetched, reach})
  <2> DEFINE fetched == Max({jobs[j].fetched, last})
  <2>1. /\ Works(j) /\ failures' = failures /\ jobs[j].status = "running"
        /\ last <= jobs[j].snap
        /\ jobs'[j].next = Max({jobs[j].next, last + 1})
        /\ jobs'[j].fetched = fetched /\ jobs'[j].indexed = jobs[j].indexed
        /\ jobs'[j].targets = [f \in DOMAIN jobs[j].targets |->
             IF f = target THEN [next |-> last + 1, done |-> FALSE] ELSE jobs[j].targets[f]]
        /\ library'[l].fetched = Max({library[l].fetched, fetched})
        /\ library'[l].indexed = library[l].indexed
        /\ Reads(l, read)
    BY l = jobs[j].lib, CommitEffect
  <2>2. last < Max({jobs[j].next, last + 1})
    <3>1. jobs[j].next \in Nat /\ last + 1 \in Nat
      BY DEF StoreInv, Rows, JobRows
    <3> QED BY <3>1, MaxOfTwo
  <2> QED BY <1>1, <2>1, <2>2
<1>3. l \in Libraries /\ jobs[j].fetched \in Nat /\ \A m \in Libraries : library[m].fetched \in Nat
  BY DEF StoreInv, Rows, JobRows, LibraryRows
<1>4. reach \in {jobs[j].fetched, last} /\ reach \in Nat
  BY <1>1, <1>3, MaxOfTwo
<1>5. library[l].fetched <= Max({library[l].fetched, reach})
  <2>1. library[l].fetched \in Nat
    BY <1>3
  <2> QED BY <1>4, <2>1, MaxOfTwo
<1>6. LibrariesGo
  BY <1>2, <1>3, <1>5 DEF LibrariesGo, Works
<1> QED BY <1>2, <1>4, <1>6 DEF Works

(* A commit and what the scheduler does next.                              *)
LEMMA CommitSteps ==
  ASSUME IInv, Job.status = "running", latest' = latest, request' = request, sweep' = sweep,
         NEW read, NEW stage,
         \/ runner.pc = "commit" /\ read = runner.next .. Last /\ stage = "batch"
         \/ runner.pc = "skip" /\ read = {} /\ stage = "lost",
         CommitFetched(runner.job, Last, read, runner.target),
         runner' = [runner EXCEPT !.pc = "publish", !.stage = stage]
  PROVE  IInv'
<1>1. runner.pc \notin Idle /\ runner.pc \in Before \ {"top"} /\ runner.pc \in InRange
      /\ stage \in {"batch", "lost"}
  BY DEF Idle, Before, InRange
<1>2. PICK j, l, target, last, next :
        /\ j = runner.job /\ l = jobs[j].lib /\ target = runner.target /\ last = Last
        /\ next = runner.next
  OBVIOUS
<1>3. /\ j \in JobIds /\ l \in Libraries /\ Standing /\ Indexed
      /\ DOMAIN runner = {"pc", "job", "next", "end", "target", "stage"}
      /\ runner.end \in Nat /\ jobs[j].fetched \in Nat /\ jobs[j].indexed \in Nat
      /\ target \in {0} \union FailureIds /\ jobs[j].status = "running"
  BY <1>1, <1>2, AtJob DEF Job
<1>4. /\ next \in Nat \ {0} /\ next <= last /\ last \in Nat
      /\ last <= runner.end /\ Covered(l, next - 1)
      /\ next .. last \in SUBSET Messages
  BY <1>1, <1>2, BatchOfJob DEF Job
<1>5. /\ target = 0 <=> jobs[j].kind # "repair"
      /\ target # 0 => target \in DOMAIN jobs[j].targets /\ ~jobs[j].targets[target].done
                       /\ jobs[j].targets[target].next = next
                       /\ runner.end = failures[target].last
      /\ target = 0 => runner.end = jobs[j].snap
      /\ runner.pc = "skip" => target = 0 /\ Covered(l, last)
      /\ runner.pc = "commit" => read = next .. last
  BY <1>1, <1>2, <1>3 DEF Standing, Job
<1>6. \A i \in 1 .. last : \/ i \in Kept(l) \union read
                           \/ \E f \in Unresolved(l) : i \in RangeOf(f)
  <2>1. CASE runner.pc = "commit"
    <3>1. \A i \in 1 .. last : i \in 1 .. next - 1 \/ i \in next .. last
      BY <1>4
    <3> QED BY <1>4, <1>5, <2>1, <3>1 DEF Covered
  <2>2. CASE runner.pc = "skip"
    BY <1>5, <2>2 DEF Covered
  <2> QED BY <2>1, <2>2
<1>7. target # 0 =>
        /\ ~jobs[j].targets[target].done /\ last <= failures[target].last
        /\ failures[target].first .. last \subseteq Kept(l) \union read
        /\ jobs[j].targets[target].next .. last \subseteq read
  <2> SUFFICES ASSUME target # 0
               PROVE  /\ ~jobs[j].targets[target].done /\ last <= failures[target].last
                      /\ failures[target].first .. last \subseteq Kept(l) \union read
                      /\ jobs[j].targets[target].next .. last \subseteq read
    OBVIOUS
  <2>1. read = next .. last
    BY <1>5
  <2>2. failures[target].first .. next - 1 \subseteq Kept(l)
    BY <1>2, <1>3, <1>5 DEF IInv, StoreInv, Cursors
  <2>3. failures[target].first \in Nat
    BY <1>3 DEF IInv, StoreInv, Rows, FailureRows
  <2> QED BY <1>4, <1>5, <2>1, <2>2, <2>3
<1>8. read \in SUBSET Messages /\ target \in {0} \union DOMAIN jobs[j].targets
      /\ \A i \in read : i <= last
  BY <1>4, <1>5
<1>19. target = 0 =>
         /\ jobs[j].kind # "repair"
         /\ \A i \in jobs[j].next .. last :
              i \in revisit[l] => i \in read \/ FreshlyLost(l, i)
  <2> SUFFICES ASSUME target = 0, NEW i \in jobs[j].next .. last, i \in revisit[l]
               PROVE  i \in read \/ FreshlyLost(l, i)
    BY <1>5
  <2>1. next <= jobs[j].next /\ jobs[j].next \in Nat
    BY <1>1, <1>2, <1>3 DEF Standing, Job, IInv, StoreInv, Rows, JobRows
  <2>2. i \in next .. last
    BY <1>4, <2>1
  <2>3. CASE runner.pc = "commit"
    BY <1>5, <2>2, <2>3
  <2>4. CASE runner.pc = "skip"
    BY <1>2, <1>3, <2>2, <2>4 DEF Standing, Job
  <2> QED BY <2>3, <2>4
<1>9. CommitFetched(j, last, read, target) /\ l = jobs[j].lib
  BY <1>2
<1>10. StoreInv' /\ Covered(l, last)' /\ \A m \in Libraries : Grows(m)
  BY <1>3, <1>4, <1>6, <1>7, <1>8, <1>9, <1>19, CommitKeeps DEF IInv
<1>11. /\ DOMAIN jobs' = JobIds /\ failures' = failures /\ LibrariesGo
       /\ jobs'[j].lib = l /\ jobs'[j].kind = jobs[j].kind
       /\ jobs'[j].status = jobs[j].status /\ jobs'[j].snap = jobs[j].snap
       /\ jobs'[j].fetched \in {jobs[j].fetched, last} /\ jobs'[j].indexed = jobs[j].indexed
       /\ last < jobs'[j].next
       /\ target \in DOMAIN jobs[j].targets =>
            /\ target \in DOMAIN jobs'[j].targets
            /\ jobs'[j].targets[target] = [next |-> last + 1, done |-> FALSE]
  BY <1>3, <1>4, <1>9, CommitWorks DEF IInv
<1>12. /\ DOMAIN runner' = {"pc", "job", "next", "end", "target", "stage"}
       /\ runner'.pc = "publish" /\ runner'.job = j /\ runner'.next = next
       /\ runner'.end = runner.end /\ runner'.target = target /\ runner'.stage = stage
  BY <1>2, <1>3
<1>13. Job' = jobs'[j] /\ Last' = last
  BY <1>2, <1>12 DEF Job, Last
<1>14. StoreStep
  BY <1>10, <1>11 DEF StoreStep
<1>15. Standing'
  <2>1. target # 0 => /\ target \in DOMAIN jobs'[j].targets /\ ~jobs'[j].targets[target].done
                      /\ jobs'[j].targets[target].next = last + 1
    BY <1>5, <1>11
  <2>2. Covered(jobs[j].lib, next - 1)' /\ Covered(jobs[j].lib, last)'
    BY <1>3, <1>4, <1>10, <1>11, CoveredGrows
  <2>3. Covered(Job.lib, runner.next - 1)' /\ Covered(Job.lib, Last)'
    BY <1>12, <1>13, <2>2
  <2>4. (IF runner.target = 0 THEN Job.snap ELSE failures[runner.target].last)' = runner'.end
    BY <1>5, <1>11, <1>12, <1>13
  <2>5. (target = 0 <=> Job'.kind # "repair") /\ runner'.next >= 1
    BY <1>4, <1>5, <1>11, <1>12, <1>13
  <2>6. runner'.target # 0 =>
           /\ runner'.target \in DOMAIN Job'.targets /\ ~Job'.targets[runner'.target].done
           /\ Job'.targets[runner'.target].next = Last' + 1
    BY <1>12, <1>13, <2>1
  <2>7. Last' < Job'.next
    BY <1>11, <1>13
  <2> QED BY <1>1, <1>12, <2>3, <2>4, <2>5, <2>6, <2>7 DEF Standing, InRange, Before
<1>16. Indexed'
  <2>1. Job.kind # "repair" => Job.fetched <= Job.indexed
    BY <1>1, <1>3 DEF Indexed
  <2>2. Job'.kind # "repair" => Job'.fetched <= Job'.indexed \/ Job'.fetched = Last'
    BY <1>2, <1>11, <1>13, <2>1 DEF Job
  <2> QED BY <1>1, <1>12, <2>2 DEF Indexed, Before
<1>17. Job'.status \in Recoverable
  BY <1>3, <1>11, <1>13 DEF Recoverable
<1>18. runner'.pc \in Places \ Idle /\ runner'.next \in Nat
       /\ runner'.stage \in {"none", "first", "batch", "lost", "resolve"}
  BY <1>1, <1>4, <1>12 DEF Places, Idle, InRange
<1> QED BY <1>1, <1>2, <1>3, <1>11, <1>12, <1>14, <1>15, <1>16, <1>17, <1>18, GoesOn

(* Commit and SkipLost keep the invariant.                                 *)
LEMMA CommitStep ==
  ASSUME IInv, Commit \/ SkipLost
  PROVE  IInv'
<1>1. /\ latest' = latest /\ request' = request /\ sweep' = sweep
      /\ runner.pc \in {"commit", "skip"} /\ runner.pc \notin Idle
  BY DEF Commit, SkipLost, OnlyRunner, world, At, Idle
<1>2. runner.job \in JobIds /\ (Job.status # "deleted" => Standing)
  BY <1>1, AtJob
<1>3. CASE FailBatch /\ Loop
  BY <1>1, <1>2, <1>3, Failing, LoopFrees, LetsGo DEF IInv
<1>4. CASE Commit /\ Job.status = "running"
  BY <1>1, <1>4, CommitSteps DEF Commit, At
<1>5. CASE SkipLost /\ Job.status = "running"
  <2>1. runner.target = 0 /\ runner.pc = "skip"
    BY <1>2, <1>5 DEF Standing, SkipLost, At
  <2> QED BY <1>1, <1>5, <2>1, CommitSteps DEF SkipLost
<1> QED BY <1>3, <1>4, <1>5 DEF Commit, SkipLost

(* RecordLost keeps the invariant.                                         *)
LEMMA RecordStep ==
  ASSUME IInv, RecordLost
  PROVE  IInv'
<1>1. /\ latest' = latest /\ request' = request /\ sweep' = sweep
      /\ runner.pc = "record" /\ runner.pc \notin Idle
  BY DEF RecordLost, OnlyRunner, world, At, Idle
<1>2. /\ runner.job \in JobIds /\ Job.lib \in Libraries
      /\ Job.status \in Recoverable \union {"deleted"}
      /\ Job.status # "deleted" => Standing /\ Indexed
      /\ DOMAIN runner = {"pc", "job", "next", "end", "target", "stage"}
      /\ runner.next \in Nat /\ runner.end \in Nat /\ Job.snap \in Nat
  BY <1>1, AtJob
<1>3. CASE StoreUnchanged /\ Loop
  BY <1>1, <1>3, NothingMoves, LoopFrees, LetsGo DEF IInv
<1>4. CASE /\ Job.status # "deleted" /\ RecordFailure(runner.job, runner.next, Last)
           /\ Goto("skip")
  <2>1. /\ runner.next \in Nat \ {0} /\ runner.next <= Last /\ Last \in Nat
        /\ Last <= runner.end /\ Covered(Job.lib, runner.next - 1)
    BY <1>1, <1>4, BatchOfJob DEF Before
  <2>2. runner.target = 0 /\ Job.kind # "repair" /\ runner.end = Job.snap
    BY <1>1, <1>2, <1>4 DEF Standing, InRange, Before
  <2>3. library[Job.lib].status \notin {"absent", "ready"}
    BY <1>2, <1>4 DEF IInv, StoreInv, OneJob, Job, Recoverable
  <2>4. PICK l : l = jobs[runner.job].lib
    OBVIOUS
  <2>5. Last <= jobs[runner.job].snap
    BY <2>1, <2>2 DEF Job
  <2>6. PICK m : Takes(m, l, runner.next, Last)
    BY <1>1, <1>2, <1>4, <2>1, <2>4, <2>5, RecordTakes DEF IInv
  <2>7. /\ StoreInv' /\ Covered(l, Last)' /\ \A k \in Libraries : Grows(k)
        /\ \A i \in runner.next .. Last : FreshlyLost(l, i)'
    <3>0. PICK first, last : first = runner.next /\ last = Last
      OBVIOUS
    <3>1. /\ l \in Libraries /\ first \in Nat \ {0} /\ last \in Nat /\ first <= last
          /\ library[l].status \notin {"absent", "ready"} /\ Covered(l, first - 1)
      BY <1>2, <2>1, <2>3, <2>4, <3>0 DEF Job
    <3>2. Last' = last
      BY <1>2, <1>4, <3>0 DEF Last, Goto
    <3>3. Takes(m, l, first, last)
      BY <2>6, <3>0
    <3>4. StoreInv
      BY DEF IInv
    <3>5. /\ StoreInv' /\ Covered(l, last)' /\ \A k \in Libraries : Grows(k)
          /\ \A i \in first .. last : FreshlyLost(l, i)'
      BY <3>1, <3>3, <3>4, TakesKeeps
    <3>6. Covered(l, Last)'
      BY <3>2, <3>5
    <3> QED BY <3>0, <3>5, <3>6
  <2>8. /\ library' = library /\ jobs' = jobs /\ FailureIds \subseteq DOMAIN failures'
    BY <2>6 DEF Takes
  <2>9. StoreStep /\ LibrariesGo
    <3>1. \A k \in Libraries : library[k].fetched \in Nat
      BY DEF IInv, StoreInv, Rows, LibraryRows
    <3> QED BY <2>7, <2>8, <3>1 DEF StoreStep, LibrariesGo
  <2>10. /\ DOMAIN runner' = {"pc", "job", "next", "end", "target", "stage"}
         /\ runner'.pc = "skip" /\ runner'.job = runner.job /\ runner'.next = runner.next
         /\ runner'.end = runner.end /\ runner'.target = runner.target /\ runner'.stage = runner.stage
    BY <1>2, <1>4 DEF Goto
  <2>11. Job' = Job
    BY <2>8, <2>10 DEF Job
  <2>12. Covered(Job.lib, runner.next - 1)' /\ Covered(Job.lib, Last)'
    <3>1. Covered(l, runner.next - 1) /\ Grows(l)
      BY <1>2, <2>1, <2>4, <2>7 DEF Job
    <3>2. Job'.lib = l
      BY <2>4, <2>11 DEF Job
    <3> QED BY <2>7, <2>10, <3>1, <3>2, CoveredGrows
  <2>13. Standing'
    <3>1. Last' = Last /\ Job'.lib = l
      BY <2>4, <2>10, <2>11 DEF Last, Job
    <3>2. \A i \in runner'.next .. Last' : FreshlyLost(Job.lib, i)'
      BY <2>7, <2>10, <3>1
    <3>3. runner'.next <= Job'.next
      BY <1>1, <1>2, <1>4, <2>2, <2>10, <2>11 DEF Standing, Before
    <3> QED BY <1>1, <1>2, <1>4, <2>2, <2>10, <2>11, <2>12, <3>2, <3>3 DEF Standing, InRange, Before
  <2>14. Indexed'
    BY <1>1, <1>2, <1>4, <2>10, <2>11 DEF Indexed, Before
  <2>15. runner.stage \in {"none", "first", "batch", "lost", "resolve"}
    BY DEF IInv, RunnerInv, RunnerShape
  <2> QED BY <1>1, <1>2, <2>2, <2>9, <2>10, <2>11, <2>13, <2>14, <2>15, GoesOn
       DEF Places, Idle, InRange
<1> QED BY <1>3, <1>4 DEF RecordLost

(* What a publication changes besides the invariant.                       *)
LEMMA PublishSteps ==
  ASSUME IInv, NEW j \in JobIds, NEW through \in Nat,
         NEW uncertain \in SUBSET Unresolved(jobs[j].lib), NEW resolved,
         \A f \in resolved : failures[f].last <= through,
         Publish(j, through, uncertain, resolved), latest' = latest
  PROVE  /\ StoreStep /\ LibrariesGo /\ \A l \in Libraries : Grows(l)
         /\ jobs'[j].lib = jobs[j].lib /\ jobs'[j].kind = jobs[j].kind
         /\ jobs'[j].status = jobs[j].status /\ jobs'[j].snap = jobs[j].snap
         /\ jobs'[j].fetched = jobs[j].fetched /\ jobs'[j].next = jobs[j].next
         /\ jobs'[j].indexed \in Nat
         /\ through <= jobs'[j].indexed /\ jobs[j].indexed <= jobs'[j].indexed
         /\ \A f \in DOMAIN jobs[j].targets :
              /\ f \in DOMAIN jobs'[j].targets
              /\ jobs'[j].targets[f].next = jobs[j].targets[f].next
              /\ f \notin resolved => jobs'[j].targets[f].done = jobs[j].targets[f].done
         /\ \A f \in FailureIds : failures'[f].last = failures[f].last
<1>1. Indexes(j, through, resolved)
  BY PublishIndexes DEF IInv
<1>2. /\ StoreInv' /\ (\A m \in Libraries : Grows(m))
      /\ jobs'[j].indexed >= through /\ jobs'[j].indexed >= jobs[j].indexed
  BY <1>1, IndexKeeps DEF IInv
<1>3. /\ DOMAIN jobs' = JobIds /\ DOMAIN failures' = FailureIds
      /\ jobs'[j].lib = jobs[j].lib /\ jobs'[j].kind = jobs[j].kind
      /\ jobs'[j].status = jobs[j].status /\ jobs'[j].snap = jobs[j].snap
      /\ jobs'[j].fetched = jobs[j].fetched /\ jobs'[j].next = jobs[j].next
      /\ library'[jobs[j].lib].fetched = library[jobs[j].lib].fetched
      /\ library'[jobs[j].lib].status = library[jobs[j].lib].status
      /\ \A l \in Libraries \ {jobs[j].lib} : library'[l] = library[l]
      /\ DOMAIN jobs'[j].targets = DOMAIN jobs[j].targets
      /\ \A f \in DOMAIN jobs[j].targets :
           /\ jobs'[j].targets[f].next = jobs[j].targets[f].next
           /\ jobs'[j].targets[f].done = (IF f \in resolved THEN TRUE ELSE jobs[j].targets[f].done)
      /\ \A f \in FailureIds : failures'[f].last = failures[f].last
  BY <1>1 DEF Indexes, Works
<1>4. jobs'[j].indexed \in Nat /\ jobs[j].indexed \in Nat
  BY <1>2, <1>3 DEF StoreInv, Rows, JobRows, IInv
<1>5. LibrariesGo
  <2>1. \A l \in Libraries : library[l].fetched \in Nat
    BY DEF IInv, StoreInv, Rows, LibraryRows
  <2> QED BY <1>3, <2>1 DEF LibrariesGo
<1> QED BY <1>2, <1>3, <1>4, <1>5 DEF StoreStep

(* The batch is indexed: the scheduler goes on to its end.                 *)
LEMMA SettleFollows ==
  ASSUME IInv, runner.pc = "publish", runner.stage \in {"batch", "lost"}, Job.status = "running",
         StoreStep, LibrariesGo, \A l \in Libraries : Grows(l), Goto("settle"),
         request' = request, sweep' = sweep,
         NEW j, j = runner.job,
         jobs'[j].lib = jobs[j].lib, jobs'[j].kind = jobs[j].kind,
         jobs'[j].status = jobs[j].status, jobs'[j].snap = jobs[j].snap,
         jobs'[j].fetched = jobs[j].fetched, jobs'[j].next = jobs[j].next,
         jobs'[j].indexed \in Nat,
         Last <= jobs'[j].indexed, jobs[j].indexed <= jobs'[j].indexed,
         \A f \in DOMAIN jobs[j].targets :
           /\ f \in DOMAIN jobs'[j].targets
           /\ jobs'[j].targets[f].next = jobs[j].targets[f].next
           /\ jobs'[j].targets[f].done = jobs[j].targets[f].done,
         \A f \in FailureIds : failures'[f].last = failures[f].last
  PROVE  IInv'
<1>1. runner.pc \notin Idle /\ runner.pc \in InRange
  BY DEF Idle, InRange
<1>2. PICK l, target, last : l = jobs[j].lib /\ target = runner.target /\ last = Last
  OBVIOUS
<1>3. /\ j \in JobIds /\ l \in Libraries /\ Standing /\ Indexed
      /\ DOMAIN runner = {"pc", "job", "next", "end", "target", "stage"}
      /\ runner.next \in Nat /\ runner.end \in Nat
      /\ jobs[j].fetched \in Nat /\ jobs[j].indexed \in Nat
      /\ target \in {0} \union FailureIds
  BY <1>1, <1>2, AtJob DEF Job
<1>4. /\ runner.next >= 1 /\ Covered(l, runner.next - 1) /\ Covered(l, last)
      /\ runner.end = IF target = 0 THEN jobs[j].snap ELSE failures[target].last
      /\ target = 0 <=> jobs[j].kind # "repair"
      /\ target # 0 => target \in DOMAIN jobs[j].targets /\ ~jobs[j].targets[target].done
                       /\ jobs[j].targets[target].next = last + 1
      /\ target = 0 => last < jobs[j].next
  BY <1>1, <1>2, <1>3 DEF Standing, Job
<1>5. /\ DOMAIN runner' = {"pc", "job", "next", "end", "target", "stage"}
      /\ runner'.pc = "settle" /\ runner'.job = j /\ runner'.next = runner.next
      /\ runner'.end = runner.end /\ runner'.target = target /\ runner'.stage = runner.stage
  BY <1>2, <1>3 DEF Goto
<1>6. Job' = jobs'[j] /\ Last' = last
  BY <1>2, <1>5 DEF Job, Last
<1>7. Covered(Job.lib, runner.next - 1)' /\ Covered(Job.lib, Last)'
  BY <1>2, <1>3, <1>4, <1>5, <1>6, CoveredGrows
<1>8. Standing'
  <2>1. (IF runner.target = 0 THEN Job.snap ELSE failures[runner.target].last)' = runner'.end
    BY <1>3, <1>4, <1>5, <1>6
  <2>2. runner'.target # 0 =>
           /\ runner'.target \in DOMAIN Job'.targets /\ ~Job'.targets[runner'.target].done
           /\ Job'.targets[runner'.target].next = Last' + 1
    BY <1>4, <1>5, <1>6
  <2> QED BY <1>4, <1>5, <1>6, <1>7, <2>1, <2>2 DEF Standing, InRange, Before
<1>9. Indexed'
  <2>1. Job.kind # "repair" => Job.fetched <= Job.indexed \/ Job.fetched = last
    BY <1>2, <1>3 DEF Indexed
  <2>2. last <= jobs'[j].indexed
    BY <1>2
  <2>3. Job'.kind # "repair" => Job'.fetched <= Job'.indexed
    BY <1>3, <1>6, <2>1, <2>2 DEF Job
  <2> QED BY <1>5, <2>3 DEF Indexed
<1>10. Job'.status \in Recoverable
  BY <1>6 DEF Job, Recoverable
<1> QED BY <1>1, <1>2, <1>3, <1>5, <1>8, <1>9, <1>10, GoesOn DEF Places, Idle, InRange

(* PublishIndex keeps the invariant.                                       *)
LEMMA PublishStep ==
  ASSUME IInv, PublishIndex
  PROVE  IInv'
<1>1. /\ latest' = latest /\ request' = request /\ sweep' = sweep /\ runner.pc = "publish"
      /\ runner.pc \notin Idle /\ runner.pc \in InRange
  BY DEF PublishIndex, OnlyRunner, world, At, Idle, InRange
<1>2. /\ runner.job \in JobIds /\ Job.lib \in Libraries
      /\ Job.status # "deleted" => Standing /\ Indexed
      /\ DOMAIN runner = {"pc", "job", "next", "end", "target", "stage"}
      /\ runner.next \in Nat /\ runner.end \in Nat /\ Job.next \in Nat \ {0} /\ Job.snap \in Nat
      /\ Job.fetched \in Nat
      /\ runner.target \in {0} \union FailureIds
  BY <1>1, AtJob
<1>3. runner.stage \in {"none", "first", "batch", "lost", "resolve"}
  BY DEF IInv, RunnerInv, RunnerShape
<1>4. Last \in Nat
  BY LastIsBetween DEF IInv, RunnerInv
<1>5. PICK j : j = runner.job
  OBVIOUS
<1>6. j \in JobIds
  BY <1>2, <1>5
<1>7. CASE (FailBatch \/ FailRunning) /\ Loop
  BY <1>1, <1>2, <1>7, Failing, LoopFrees, LetsGo DEF IInv
<1>8. CASE runner.stage = "batch" /\ Job.status = "running" /\ Advance(runner.job, Last) /\ Goto("settle")
  <2>1. /\ StoreStep /\ LibrariesGo /\ \A l \in Libraries : Grows(l)
        /\ jobs'[j].lib = jobs[j].lib /\ jobs'[j].kind = jobs[j].kind
        /\ jobs'[j].status = jobs[j].status /\ jobs'[j].snap = jobs[j].snap
        /\ jobs'[j].fetched = jobs[j].fetched /\ jobs'[j].next = jobs[j].next
        /\ jobs'[j].indexed \in Nat /\ Last <= jobs'[j].indexed
        /\ jobs[j].indexed <= jobs'[j].indexed
        /\ jobs'[j].targets = jobs[j].targets /\ failures' = failures
    BY <1>1, <1>2, <1>4, <1>5, <1>8, AdvanceSteps DEF Job
  <2> QED BY <1>1, <1>5, <1>8, <2>1, SettleFollows
<1>9. ASSUME Job.status = "running", NEW u \in {{}, Touched},
             Publish(runner.job, Through, u, IF runner.stage = "resolve" THEN {runner.target} ELSE {}),
             AfterPublish
      PROVE  IInv'
  <2>1. Standing /\ Indexed /\ runner.stage # "none"
    BY <1>1, <1>2, <1>9 DEF Standing
  <2>2. /\ runner.target = 0 <=> Job.kind # "repair"
        /\ runner.target # 0 =>
             /\ runner.target \in DOMAIN Job.targets /\ ~Job.targets[runner.target].done
             /\ runner.target \in Unresolved(Job.lib)
    <3>1. /\ runner.target = 0 <=> Job.kind # "repair"
          /\ runner.target # 0 =>
               runner.target \in DOMAIN Job.targets /\ ~Job.targets[runner.target].done
      BY <1>1, <2>1 DEF Standing
    <3>2. ASSUME runner.target # 0 PROVE runner.target \in Unresolved(Job.lib)
      BY <1>2, <1>9, <3>1, <3>2 DEF IInv, StoreInv, Cursors, Unresolved, Recoverable, Job
    <3> QED BY <3>1, <3>2
  <2>3. u \in SUBSET Unresolved(jobs[j].lib)
    BY <1>5, <1>9, <2>2 DEF Touched, Job, Kinds
  <2>4. PICK R : R = IF runner.stage = "resolve" THEN {runner.target} ELSE {}
    OBVIOUS
  <2>5. PICK through : through = Through
    OBVIOUS
  <2>6. through \in Nat
    BY <1>2, <1>4, <2>5 DEF Through
  <2>7. \A f \in R : failures[f].last <= through
    BY <1>1, <2>1, <2>4, <2>5 DEF Standing, Through
  <2>8. Publish(j, through, u, R)
    BY <1>5, <1>9, <2>4, <2>5
  <2>9. /\ StoreStep /\ LibrariesGo /\ \A l \in Libraries : Grows(l)
        /\ jobs'[j].lib = jobs[j].lib /\ jobs'[j].kind = jobs[j].kind
        /\ jobs'[j].status = jobs[j].status /\ jobs'[j].snap = jobs[j].snap
        /\ jobs'[j].fetched = jobs[j].fetched /\ jobs'[j].next = jobs[j].next
        /\ jobs'[j].indexed \in Nat
        /\ through <= jobs'[j].indexed /\ jobs[j].indexed <= jobs'[j].indexed
        /\ \A f \in DOMAIN jobs[j].targets :
             /\ f \in DOMAIN jobs'[j].targets
             /\ jobs'[j].targets[f].next = jobs[j].targets[f].next
             /\ f \notin R => jobs'[j].targets[f].done = jobs[j].targets[f].done
        /\ \A f \in FailureIds : failures'[f].last = failures[f].last
    BY <1>1, <1>6, <2>3, <2>6, <2>7, <2>8, PublishSteps
  <2>10. CASE runner.stage \in {"batch", "lost"}
    <3>1. R = {} /\ through = Last /\ Goto("settle")
      BY <1>9, <2>4, <2>5, <2>10 DEF Through, AfterPublish
    <3> QED BY <1>1, <1>5, <1>9, <2>9, <2>10, <3>1, SettleFollows
  <2>11. CASE runner.stage = "first"
    <3>1. runner' = [runner EXCEPT !.pc = "top", !.next = Job.next, !.end = Job.snap, !.target = 0]
      BY <1>9, <2>11 DEF AfterPublish, ScanFrom
    <3>2. /\ DOMAIN runner' = {"pc", "job", "next", "end", "target", "stage"}
          /\ runner'.pc = "top" /\ runner'.job = j /\ runner'.next = Job.next
          /\ runner'.end = Job.snap /\ runner'.target = 0 /\ runner'.stage = "first"
      BY <1>2, <1>5, <2>11, <3>1
    <3>3. Job' = jobs'[j] /\ Job = jobs[j]
      BY <1>5, <3>2 DEF Job
    <3>4. PICK l, n : l = Job.lib /\ n = Job.next - 1
      OBVIOUS
    <3>5. Covered(l, n) /\ l \in Libraries
      BY <1>2, <1>6, <1>9, <3>3, <3>4 DEF IInv, StoreInv, Coverage
    <3>6. Covered(Job.lib, runner.next - 1)'
      BY <2>9, <3>2, <3>3, <3>4, <3>5, CoveredGrows
    <3>7. Job.kind # "repair" /\ Job.fetched = through
      BY <1>1, <2>1, <2>5, <2>11 DEF Standing, Indexed, Through
    <3>8. Standing'
      BY <1>2, <2>9, <3>2, <3>3, <3>6, <3>7 DEF Standing, InRange, Before
    <3>9. Indexed'
      BY <2>9, <3>2, <3>3, <3>7 DEF Indexed, Before
    <3>10. Job'.status \in Recoverable
      BY <1>9, <2>9, <3>3 DEF Recoverable
    <3> QED BY <1>1, <1>2, <1>5, <2>9, <3>2, <3>8, <3>9, <3>10, GoesOn DEF Places, Idle, InRange
  <2>12. CASE runner.stage = "resolve"
    <3>1. Goto("target") /\ Job.kind = "repair"
      BY <1>1, <1>9, <2>1, <2>2, <2>12 DEF AfterPublish, Standing
    <3>2. /\ DOMAIN runner' = {"pc", "job", "next", "end", "target", "stage"}
          /\ runner'.pc = "target" /\ runner'.job = j /\ runner'.next = runner.next
          /\ runner'.end = runner.end /\ runner'.target = runner.target /\ runner'.stage = runner.stage
      BY <1>2, <1>5, <3>1 DEF Goto
    <3>3. Job' = jobs'[j] /\ Job = jobs[j]
      BY <1>5, <3>2 DEF Job
    <3>4. Standing' /\ Indexed'
      BY <2>9, <3>1, <3>2, <3>3 DEF Standing, Indexed, InRange, Before
    <3>5. Job'.status \in Recoverable
      BY <1>9, <2>9, <3>3 DEF Recoverable
    <3> QED BY <1>1, <1>2, <1>3, <1>5, <2>9, <3>2, <3>4, <3>5, GoesOn DEF Places, Idle, InRange
  <2> QED BY <1>3, <2>1, <2>10, <2>11, <2>12
<1> QED
  <2>1. MayPublish(runner.job, Through) => Job.status = "running"
    BY DEF MayPublish, Job
  <2> QED BY <1>7, <1>8, <1>9, <2>1 DEF PublishIndex, CommentsOnly

(* PublishDeferred keeps the invariant.                                    *)
LEMMA DeferStep ==
  ASSUME IInv, PublishDeferred
  PROVE  IInv'
<1>1. /\ latest' = latest /\ request' = request /\ sweep' = sweep /\ runner' = runner
      /\ StoreUnchanged
  BY DEF PublishDeferred, world, StoreUnchanged, scans
<1>2. StoreStep /\ LibrariesGo /\ Others
  BY <1>1, NothingMoves DEF IInv
<1>3. RequestShape' /\ SweepShape'
  BY <1>1, <1>2, SweepStays, RequestStays DEF IInv, RunnerInv, StoreStep
<1> QED BY <1>1, <1>2, <1>3, OthersKeep

(* Settle keeps the invariant: the next batch starts where coverage ends.  *)
LEMMA SettleStep ==
  ASSUME IInv, Settle
  PROVE  IInv'
<1>1. /\ latest' = latest /\ request' = request /\ sweep' = sweep /\ runner.pc = "settle"
      /\ runner.pc \notin Idle /\ runner.pc \in InRange
  BY DEF Settle, OnlyRunner, world, At, Idle, InRange
<1>2. /\ runner.job \in JobIds /\ Job.lib \in Libraries
      /\ Job.status \in Recoverable \union {"deleted"}
      /\ Job.status # "deleted" => Standing /\ Indexed
      /\ DOMAIN runner = {"pc", "job", "next", "end", "target", "stage"}
      /\ runner.next \in Nat /\ runner.end \in Nat
      /\ runner.target \in {0} \union FailureIds
  BY <1>1, AtJob
<1>3. CASE ConsumeControl(runner.job) /\ Loop
  BY <1>1, <1>2, <1>3, ConsumeMoves, StatusSteps, LoopFrees, LetsGo DEF IInv
<1>4. CASE (Transition(runner.job, "queued") \/ FailRunning) /\ Loop
  <2>1. StoreStep /\ LibrariesGo
    <3>1. CASE Transition(runner.job, "queued")
      BY <1>1, <1>2, <3>1, TransitionMoves, StatusSteps DEF IInv, Finished
    <3>2. CASE FailRunning
      BY <1>1, <1>2, <3>2, Failing DEF IInv
    <3> QED BY <1>4, <3>1, <3>2
  <2> QED BY <1>1, <1>4, <2>1, LoopFrees, LetsGo
<1>5. CASE runner' = [runner EXCEPT !.pc = "top", !.next = Last + 1, !.stage = "none"]
           /\ StoreUnchanged
  <2>1. PICK last : last = Last
    OBVIOUS
  <2>2. last \in Nat
    BY <2>1, LastIsBetween DEF IInv, RunnerInv
  <2>3. /\ DOMAIN runner' = {"pc", "job", "next", "end", "target", "stage"}
        /\ runner'.pc = "top" /\ runner'.job = runner.job /\ runner'.next = last + 1
        /\ runner'.end = runner.end /\ runner'.target = runner.target /\ runner'.stage = "none"
    BY <1>2, <1>5, <2>1
  <2>4. Job' = Job /\ failures' = failures
    BY <1>5, <2>3 DEF Job, StoreUnchanged, scans
  <2>5. StoreStep /\ LibrariesGo /\ \A l, n : Covered(l, n)' <=> Covered(l, n)
    BY <1>1, <1>5, NothingMoves DEF IInv
  <2>6. ASSUME Job.status # "deleted" PROVE Standing' /\ Indexed'
    <3>1. /\ Covered(Job.lib, last)
          /\ runner.target # 0 => Job.targets[runner.target].next = last + 1
          /\ runner.target = 0 <=> Job.kind # "repair"
          /\ runner.target # 0 =>
               runner.target \in DOMAIN Job.targets /\ ~Job.targets[runner.target].done
          /\ runner.end = IF runner.target = 0 THEN Job.snap ELSE failures[runner.target].last
          /\ runner.target = 0 => last < Job.next
      BY <1>1, <1>2, <2>1, <2>6 DEF Standing
    <3>2. (last + 1) - 1 = last /\ last + 1 >= 1
      BY <2>2
    <3>3. Covered(Job.lib, runner.next - 1)'
      BY <2>3, <2>4, <2>5, <3>1, <3>2
    <3>6. runner.target = 0 => last + 1 <= Job.next
      BY <1>1, <2>2, <3>1, AtJob
    <3>4. Standing'
      BY <2>3, <2>4, <3>1, <3>2, <3>3, <3>6 DEF Standing, InRange, Before
    <3>5. Indexed'
      BY <1>1, <1>2, <2>3, <2>4, <2>6 DEF Indexed, Before
    <3> QED BY <3>4, <3>5
  <2> QED BY <1>1, <1>2, <2>2, <2>3, <2>4, <2>5, <2>6, GoesOn DEF Places, Idle, InRange
<1> QED BY <1>3, <1>4, <1>5 DEF Settle

(* Finish keeps the invariant: a scan that ends has indexed what it        *)
(* fetched.                                                                *)
LEMMA FinishStep ==
  ASSUME IInv, Finish
  PROVE  IInv'
<1>1. /\ latest' = latest /\ request' = request /\ sweep' = sweep /\ runner.pc = "finish"
      /\ runner.pc \notin Idle /\ Loop
  BY DEF Finish, OnlyRunner, world, At, Idle
<1>2. /\ runner.job \in JobIds
      /\ Job.status # "deleted" => Standing /\ Indexed
  BY <1>1, AtJob
<1>3. PICK s \in {"completed", "partial"} :
        (MayMove(runner.job, s) /\ Transition(runner.job, s)) \/ FailRunning
  BY DEF Finish
<1>4. StoreStep /\ LibrariesGo
  <2>1. CASE MayMove(runner.job, s) /\ Transition(runner.job, s)
    <3>1. Job.status # "deleted"
      BY <2>1, MayMoveFrom DEF Recoverable, Job
    <3>2. Job.kind = "repair" \/ Job.fetched <= Job.indexed
      BY <1>1, <1>2, <3>1 DEF Indexed
    <3>3. StatusOnly
      BY <1>1, <1>2, <2>1, <3>2, TransitionMoves DEF IInv, Job
    <3> QED BY <3>3, StatusSteps DEF IInv
  <2>2. CASE FailRunning
    BY <1>1, <1>2, <2>2, Failing DEF IInv
  <2> QED BY <1>3, <2>1, <2>2
<1> QED BY <1>1, <1>4, LoopFrees, LetsGo

(* Cancelled keeps the invariant.                                          *)
LEMMA CancelStep ==
  ASSUME IInv, Cancelled
  PROVE  IInv'
<1>1. /\ latest' = latest /\ request' = request /\ sweep' = sweep /\ runner' = Down
  BY DEF Cancelled, world
<1>2. StoreStep /\ LibrariesGo
  <2>1. CASE StoreUnchanged
    BY <1>1, <2>1, NothingMoves DEF IInv
  <2>2. CASE ~StoreUnchanged
    <3>1. runner.job \in JobIds
      BY <2>2 DEF Cancelled, IInv, RunnerInv, RunnerShape
    <3>2. CASE ConsumeControl(runner.job)
      BY <1>1, <3>1, <3>2, ConsumeMoves, StatusSteps DEF IInv
    <3>3. CASE Transition(runner.job, "queued")
      BY <1>1, <3>1, <3>3, TransitionMoves, StatusSteps DEF IInv, Finished
    <3> QED BY <2>2, <3>2, <3>3 DEF Cancelled
  <2> QED BY <2>1, <2>2
<1> QED BY <1>1, <1>2, LoopFrees, LetsGo

-----------------------------------------------------------------------------
(* The commands of Web threads, the process and its environment.           *)

(* ReadJob keeps the invariant.                                            *)
LEMMA ReadStep ==
  ASSUME IInv, ReadJob
  PROVE  IInv'
<1>1. /\ latest' = latest /\ sweep' = sweep /\ runner' = runner /\ StoreUnchanged
  BY DEF ReadJob, RequestOnly, world
<1>2. StoreStep /\ LibrariesGo /\ Others
  BY <1>1, NothingMoves DEF IInv
<1>3. PICK op \in {"pause", "resume", "stop"}, j \in JobIds :
        request' = [op |-> op, job |-> j, seen |-> jobs[j].status]
  BY DEF ReadJob
<1>4. jobs' = jobs
  BY <1>1 DEF StoreUnchanged, scans
<1>5. RequestShape'
  BY <1>3, <1>4 DEF RequestShape
<1>6. SweepShape'
  BY <1>1, <1>2, SweepStays DEF IInv, RunnerInv, StoreStep
<1> QED BY <1>1, <1>2, <1>5, <1>6, OthersKeep

(* ActOnJob keeps the invariant, whatever became of the job since it was   *)
(* read.                                                                   *)
LEMMA ActStep ==
  ASSUME IInv, ActOnJob
  PROVE  IInv'
<1>1. /\ latest' = latest /\ sweep' = sweep /\ runner' = runner /\ request' = NoRequest
  BY DEF ActOnJob, RequestOnly, world
<1>2. PICK j : j = request.job
  OBVIOUS
<1>3. j \in JobIds /\ request.op \in {"pause", "resume", "stop"}
  BY <1>2 DEF ActOnJob, IInv, RunnerInv, RequestShape
<1>4. PICK s : s = Goal(request.op)
  OBVIOUS
<1>5. s \in {"paused_user", "stopped", "queued"}
  BY <1>4 DEF Goal
<1>6. \/ StoreUnchanged
      \/ request.op # "resume" /\ RequestControl(j, request.op)
      \/ Transition(j, s)
  BY <1>2, <1>4 DEF ActOnJob
<1>7. StoreStep /\ LibrariesGo /\ Others
  <2>1. CASE StoreUnchanged
    BY <1>1, <2>1, NothingMoves DEF IInv
  <2>2. CASE request.op # "resume" /\ RequestControl(j, request.op)
    <3>1. StatusOnly /\ OneMoves(j) /\ jobs'[j].status = "running"
      BY <1>1, <1>3, <2>2, ControlMoves DEF IInv
    <3> QED BY <1>3, <3>1, StatusSteps, OneStays DEF IInv, Recoverable
  <2>3. CASE Transition(j, s)
    <3>1. s \notin Finished /\ s \in Recoverable
      BY <1>5 DEF Finished, Recoverable
    <3>2. StatusOnly /\ OneMoves(j) /\ jobs'[j].status = s
      BY <1>1, <1>3, <2>3, <3>1, TransitionMoves DEF IInv
    <3> QED BY <1>3, <3>1, <3>2, StatusSteps, OneStays DEF IInv
  <2> QED BY <1>6, <2>1, <2>2, <2>3
<1>8. RequestShape' /\ SweepShape'
  BY <1>1, <1>7, SweepStays, RequestStays DEF IInv, RunnerInv, StoreStep
<1> QED BY <1>1, <1>7, <1>8, OthersKeep

(* A job is created while the scheduler goes on.                           *)
LEMMA CreationStep ==
  ASSUME IInv, StoreInv', \A m \in Libraries : Grows(m), \E l, n, r, S : Inserts(l, n, r, S),
         runner' = runner, request' = request, sweep' \in {sweep, NoSweep}
  PROVE  IInv'
<1>1. StoreStep /\ LibrariesGo /\ Others
  BY InsertStays DEF IInv
<1>2. RequestShape' /\ SweepShape'
  BY <1>1, SweepStays, RequestStays DEF IInv, RunnerInv, StoreStep
<1> QED BY <1>1, <1>2, OthersKeep

(* QueueRepair keeps the invariant.                                        *)
LEMMA QueueRepairStep ==
  ASSUME IInv, QueueRepair
  PROVE  IInv'
<1>1. latest' = latest /\ sweep' = sweep /\ runner' = runner /\ request' = request
  BY DEF QueueRepair, RequestOnly, world
<1>2. PICK l \in Libraries :
        \E S \in {Open(l)} \union {{f} : f \in Open(l)} : CreateRepairJob(l, S)
  BY DEF QueueRepair
<1>3. PICK S \in {Open(l)} \union {{f} : f \in Open(l)} : CreateRepairJob(l, S)
  BY <1>2
<1>4. StoreInv' /\ (\A m \in Libraries : Grows(m)) /\ \E n, r : Inserts(l, n, r, S)
  BY <1>1, <1>3, CreateRepairKeeps DEF IInv
<1> QED BY <1>1, <1>4, CreationStep

(* RetryFailed keeps the invariant.                                        *)
LEMMA RetryFailedStep ==
  ASSUME IInv, RetryFailed
  PROVE  IInv'
<1>1. latest' = latest /\ sweep' = sweep /\ runner' = runner /\ request' = request
  BY DEF RetryFailed, RequestOnly, world
<1>2. PICK j \in JobIds :
        /\ jobs[j].status = "failed"
        /\ IF jobs[j].kind = "repair" THEN RetryRepairJob(j)
           ELSE CreateScanJob(jobs[j].lib, jobs[j].kind, jobs[j].start, jobs[j].snap)
  BY DEF RetryFailed
<1>3. PICK l, kind, start, snap :
        l = jobs[j].lib /\ kind = jobs[j].kind /\ start = jobs[j].start /\ snap = jobs[j].snap
  OBVIOUS
<1>4. /\ l \in Libraries /\ kind \in Kinds /\ start \in Nat \ {0} /\ snap \in Nat
      /\ snap <= latest[l] /\ Covered(l, start - 1)
  BY <1>2, <1>3 DEF IInv, StoreInv, Rows, JobRows, Bounded, Coverage
<1>5. StoreInv' /\ (\A m \in Libraries : Grows(m)) /\ \E n, r : Inserts(l, n, r, {})
  <2>1. CASE kind = "repair"
    BY <1>1, <1>2, <1>3, <2>1, RetryRepairKeeps DEF IInv
  <2>2. CASE kind # "repair"
    <3>1. kind \in {"full", "incremental"} /\ CreateScanJob(l, kind, start, snap)
      BY <1>2, <1>3, <1>4, <2>2 DEF Kinds
    <3> QED BY <1>1, <1>4, <3>1, CreateScanKeeps DEF IInv
  <2> QED BY <2>1, <2>2
<1> QED BY <1>1, <1>5, CreationStep

(* Submit keeps the invariant.                                             *)
LEMMA SubmitStep ==
  ASSUME IInv, Submit
  PROVE  IInv'
<1>1. latest' = latest /\ sweep' = sweep /\ runner' = runner /\ request' = request
  BY DEF Submit, Upset, world
<1>2. PICK l \in Libraries, mode \in Modes :
        CreateLibrary(l, mode, latest[l]) \/ ChangeMode(l, mode, latest[l])
  BY DEF Submit
<1>3. StoreInv' /\ (\A m \in Libraries : Grows(m)) /\ \E n, r : Inserts(l, n, r, {})
  <2>1. CASE CreateLibrary(l, mode, latest[l])
    BY <1>1, <2>1, CreateLibraryKeeps DEF IInv
  <2>2. CASE ChangeMode(l, mode, latest[l])
    BY <1>1, <2>2, ChangeModeKeeps DEF IInv
  <2> QED BY <1>2, <2>1, <2>2
<1> QED BY <1>1, <1>3, CreationStep

(* Delete keeps the invariant, in the middle of a batch too.               *)
LEMMA DeleteStep ==
  ASSUME IInv, Delete
  PROVE  IInv'
<1>1. latest' = latest /\ runner' = runner /\ request' = request
  BY DEF Delete, world
<1>2. PICK l \in Libraries :
        DeleteLibrary(l) /\ sweep' = IF sweep.lib = l THEN NoSweep ELSE sweep
  BY DEF Delete
<1>3. StoreStep /\ Others /\ \A m \in Libraries \ {l} : library'[m] = library[m]
  BY <1>1, <1>2, DeleteStays DEF IInv
<1>4. RequestShape'
  BY <1>1, <1>3, RequestStays DEF IInv, RunnerInv, StoreStep
<1>5. DOMAIN NoSweep = {"lib", "first", "cron"}
  BY DEF NoSweep
<1>6. SweepShape'
  BY <1>2, <1>3, <1>5 DEF IInv, RunnerInv, SweepShape
<1> QED BY <1>1, <1>3, <1>4, <1>6, OthersKeep

(* StartSweep keeps the invariant.                                         *)
LEMMA StartSweepStep ==
  ASSUME IInv, StartSweep
  PROVE  IInv'
<1>1. latest' = latest /\ runner' = runner /\ request' = request /\ StoreUnchanged
  BY DEF StartSweep, world
<1>2. StoreStep /\ LibrariesGo /\ Others
  BY <1>1, NothingMoves DEF IInv
<1>3. PICK l \in Libraries, cron \in BOOLEAN :
        /\ library[l].status # "absent"
        /\ sweep' = [lib |-> l, first |-> library[l].fetched + 1, cron |-> cron]
  BY DEF StartSweep
<1>4. library' = library /\ library[l].fetched \in Nat
  BY <1>1 DEF StoreUnchanged, scans, IInv, StoreInv, Rows, LibraryRows
<1>5. SweepShape'
  BY <1>3, <1>4 DEF SweepShape
<1>6. RequestShape'
  BY <1>1, <1>2, RequestStays DEF IInv, RunnerInv, StoreStep
<1> QED BY <1>1, <1>2, <1>5, <1>6, OthersKeep

(* EndSweep keeps the invariant: the job it creates starts no later than   *)
(* the watermark, however far that has moved.                              *)
LEMMA EndSweepStep ==
  ASSUME IInv, EndSweep
  PROVE  IInv'
<1>1. latest' = latest /\ runner' = runner /\ request' = request /\ sweep' = NoSweep
  BY DEF EndSweep, world
<1>2. PICK l, first, snap :
        l = sweep.lib /\ first = sweep.first /\ snap = Max({latest[l], first - 1})
  OBVIOUS
<1>3. StoreUnchanged \/ CreateScanJob(l, "incremental", first, snap)
  BY <1>2 DEF EndSweep
<1>4. CASE StoreUnchanged
  <2>1. StoreStep /\ LibrariesGo /\ Others
    BY <1>1, <1>4, NothingMoves DEF IInv
  <2>2. RequestShape' /\ SweepShape'
    BY <1>1, <2>1, SweepStays, RequestStays DEF IInv, RunnerInv, StoreStep
  <2> QED BY <1>1, <2>1, <2>2, OthersKeep
<1>5. CASE CreateScanJob(l, "incremental", first, snap)
  <2>1. l \in Libraries /\ first \in Nat \ {0} /\ first <= library[l].fetched + 1
    BY <1>2 DEF EndSweep, IInv, RunnerInv, SweepShape
  <2>2. /\ latest[l] \in Nat /\ library[l].fetched \in Nat
        /\ library[l].fetched <= latest[l] /\ Covered(l, library[l].fetched)
    BY <2>1 DEF IInv, StoreInv, Rows, LibraryRows, Bounded, Coverage, Messages
  <2>3. first - 1 \in Nat /\ first - 1 <= library[l].fetched
    BY <2>1, <2>2
  <2>4. snap = latest[l]
    <3>1. snap = IF latest[l] <= first - 1 THEN first - 1 ELSE latest[l]
      BY <1>2, <2>2, <2>3, MaxOfTwo
    <3> QED BY <2>2, <2>3, <3>1
  <2>5. Covered(l, first - 1)
    BY <2>2, <2>3, CoveredBelow
  <2>6. StoreInv' /\ (\A m \in Libraries : Grows(m)) /\ \E n, r : Inserts(l, n, r, {})
    <3>1. StoreInv /\ "incremental" \in {"full", "incremental"} /\ snap \in Nat /\ snap <= latest[l]
      BY <2>2, <2>4 DEF IInv
    <3> QED BY <1>1, <1>5, <2>1, <2>5, <3>1, CreateScanKeeps
  <2> QED BY <1>1, <2>6, CreationStep
<1> QED BY <1>3, <1>4, <1>5

(* Shutdown, Crash and Start keep the invariant.                           *)
LEMMA ProcessStep ==
  ASSUME IInv, Shutdown \/ Crash \/ Start
  PROVE  IInv'
<1>1. latest' = latest
  BY DEF Shutdown, Crash, Start, world
<1>2. CASE Shutdown
  <2>1. runner' = runner /\ request' = request /\ sweep' = sweep /\ StoreUnchanged
    BY <1>2 DEF Shutdown, StoreUnchanged, scans
  <2>2. StoreStep /\ LibrariesGo /\ Others
    BY <1>1, <2>1, NothingMoves DEF IInv
  <2>3. RequestShape' /\ SweepShape'
    BY <2>1, <2>2, SweepStays, RequestStays DEF IInv, RunnerInv, StoreStep
  <2> QED BY <2>1, <2>2, <2>3, OthersKeep
<1>3. CASE Crash
  <2>1. runner' = Down /\ request' = NoRequest /\ sweep' = NoSweep /\ StoreUnchanged
    BY <1>3 DEF Crash, StoreUnchanged, scans
  <2> QED BY <1>1, <2>1, NothingMoves, LoopFrees, LetsGo DEF IInv
<1>4. CASE Start
  <2>1. Loop /\ request' = request /\ sweep' = NoSweep /\ RecoverJobs
    BY <1>4 DEF Start
  <2> QED BY <1>1, <2>1, RecoverMoves, StatusSteps, LoopFrees, LetsGo DEF IInv
<1> QED BY <1>2, <1>3, <1>4

(* Post keeps the invariant.                                               *)
LEMMA PostStep ==
  ASSUME IInv, Post
  PROVE  IInv'
<1>1. runner' = runner /\ request' = request /\ sweep' = sweep
  BY DEF Post, memory
<1>2. /\ StoreInv' /\ library' = library /\ jobs' = jobs /\ failures' = failures
      /\ held' = held /\ revisit' = revisit
  BY PostKeeps DEF IInv, scans, contents
<1>3. \A l : Grows(l)
  <2>1. \A l : /\ Kept(l)' = Kept(l) /\ Unresolved(l)' = Unresolved(l)
               /\ \A f : RangeOf(f)' = RangeOf(f)
    BY <1>2 DEF Unresolved, RangeOf, Kept
  <2>2. \A l, i : FreshlyLost(l, i)' <=> FreshlyLost(l, i)
    BY <1>2, SameFresh
  <2> QED BY <1>2, <2>1, <2>2 DEF Grows
<1>4. \A l \in Libraries : library[l].fetched \in Nat
  BY DEF IInv, StoreInv, Rows, LibraryRows
<1>5. StoreStep /\ LibrariesGo /\ Others
  BY <1>2, <1>3, <1>4 DEF StoreStep, LibrariesGo, Others, Stays
<1>6. RequestShape' /\ SweepShape'
  BY <1>1, <1>5, SweepStays, RequestStays DEF IInv, RunnerInv, StoreStep
<1> QED BY <1>1, <1>5, <1>6, OthersKeep

(* Downloads begin and end; or nothing happens at all.                     *)
LEMMA StillStep ==
  ASSUME IInv, BeginTransfer \/ EndTransfer \/ UNCHANGED vars
  PROVE  IInv'
<1>1. /\ latest' = latest /\ runner' = runner /\ request' = request /\ sweep' = sweep
      /\ StoreUnchanged
  BY DEF BeginTransfer, EndTransfer, vars, memory, world, StoreUnchanged, scans
<1>2. StoreStep /\ LibrariesGo /\ Others
  BY <1>1, NothingMoves DEF IInv
<1>3. RequestShape' /\ SweepShape'
  BY <1>1, <1>2, SweepStays, RequestStays DEF IInv, RunnerInv, StoreStep
<1> QED BY <1>1, <1>2, <1>3, OthersKeep

(* LimitEnds keeps the invariant.                                          *)
LEMMA LimitStep ==
  ASSUME IInv, LimitEnds
  PROVE  IInv'
<1>1. latest' = latest /\ runner' = runner /\ request' = request /\ sweep' = sweep
  BY DEF LimitEnds, memory, world
<1>2. PICK j \in JobIds : Elapse(j)
  BY DEF LimitEnds
<1>3. StatusOnly /\ OneMoves(j) /\ jobs'[j].status = jobs[j].status
  BY <1>1, <1>2, ElapseMoves DEF IInv
<1>4. StoreStep /\ LibrariesGo /\ Others
  BY <1>2, <1>3, StatusSteps, OneStays DEF IInv
<1>5. RequestShape' /\ SweepShape'
  BY <1>1, <1>4, SweepStays, RequestStays DEF IInv, RunnerInv, StoreStep
<1> QED BY <1>1, <1>4, <1>5, OthersKeep

-----------------------------------------------------------------------------
(* The empty tables satisfy the invariant.                                 *)
LEMMA InitHolds ==
  ASSUME Init
  PROVE  IInv
<1>1. /\ DOMAIN library = Libraries
      /\ \A l \in Libraries : library[l] = NoLibrary
      /\ jobs = <<>> /\ failures = <<>> /\ DOMAIN jobs = {} /\ DOMAIN failures = {}
      /\ held = [l \in Libraries |-> {}] /\ revisit = [l \in Libraries |-> {}]
      /\ latest = [l \in Libraries |-> 1]
  BY DEF Init, ScanStoreInit
<1>2. Rows
  <2>1. Numbered(jobs) /\ Numbered(failures)
    BY <1>1 DEF Numbered
  <2>2. LibraryRows
    BY <1>1 DEF LibraryRows, NoLibrary, Statuses
  <2>3. 1 \in Messages
    BY ScanStoreAssumption DEF Messages
  <2> QED BY <1>1, <2>1, <2>2, <2>3 DEF Rows, JobRows, FailureRows
<1>3. \A l : Unresolved(l) = {} /\ \A S : JobsIn(l, S) = {}
  BY <1>1 DEF Unresolved, JobsIn
<1>4. Bounded /\ OneJob /\ NothingAbsent /\ HeldBelow
  BY <1>1 DEF Bounded, OneJob, NothingAbsent, HeldBelow, NoLibrary
<1>5. Coverage
  BY <1>1, <1>3 DEF Coverage, Covered, NoLibrary
<1>6. Cursors /\ NextPastFetched /\ Revisits /\ Marks /\ RepairMarks
  BY <1>1 DEF Cursors, NextPastFetched, Revisits, Marks, RepairMarks
<1>7. EndedIsIndexed /\ ReadyIsRepaired /\ NoFailureStranded
  BY <1>1, <1>3 DEF EndedIsIndexed, ReadyIsRepaired, NoFailureStranded, NoLibrary
<1>8. runner = Down /\ request = NoRequest /\ sweep = NoSweep
  BY DEF Init
<1>9. RunnerShape /\ RequestShape /\ SweepShape
  BY <1>8 DEF RunnerShape, RequestShape, SweepShape, Down, NoRequest, NoSweep, Places, Idle
<1>10. runner.job = 0
  BY <1>8 DEF Down
<1> QED BY <1>2, <1>4, <1>5, <1>6, <1>7, <1>9, <1>10 DEF IInv, StoreInv, RunnerInv

(* Every step keeps the invariant.                                         *)
LEMMA EveryStep ==
  ASSUME IInv, [Next]_vars
  PROVE  IInv'
<1>1. CASE Scheduler
  BY <1>1, RecoverStep, ClaimStep, SleepStep, BeginStep, BacklogStep, TargetStep, TopStep, QueueStep,
     FetchStep, RefreshStep, CommitStep, RecordStep, PublishStep, SettleStep, FinishStep, CancelStep
  DEF Scheduler
<1>2. CASE Faults
  BY <1>2, FetchStep, RefreshStep, DeferStep DEF Faults
<1>3. CASE Commands
  BY <1>3, ReadStep, ActStep, QueueRepairStep, RetryFailedStep, DeleteStep, SubmitStep,
     StartSweepStep, EndSweepStep DEF Commands
<1>4. CASE Process
  BY <1>4, ProcessStep DEF Process
<1>5. CASE Environment
  BY <1>5, PostStep, StillStep, LimitStep DEF Environment
<1>6. CASE UNCHANGED vars
  BY <1>6, StillStep
<1> QED BY <1>1, <1>2, <1>3, <1>4, <1>5, <1>6 DEF Next

(* The store and the scheduler keep their invariant in every execution.    *)
THEOREM ScanInvariant == Spec => []IInv
<1>1. Init => IInv
  BY InitHolds
<1>2. IInv /\ [Next]_vars => IInv'
  BY EveryStep
<1> QED BY <1>1, <1>2, PTL DEF Spec

(* The rows keep their types; checkpoints are ordered and never beyond the *)
(* channel; a control request belongs to a running job.                    *)
THEOREM ScanTypesHold == Spec => []TypeOK
<1>1. IInv => TypeOK
  <2> SUFFICES ASSUME IInv PROVE TypeOK
    OBVIOUS
  <2>1. ASSUME NEW l \in Libraries
        PROVE  /\ library[l].status \in Statuses /\ library[l].mode \in Modes \union {"messages"}
               /\ library[l].indexed <= library[l].fetched
               /\ library[l].fetched \in 0 .. latest[l]
    BY DEF IInv, StoreInv, Rows, LibraryRows, Bounded, Messages
  <2>2. ASSUME NEW j \in JobIds
        PROVE  /\ jobs[j].status \in JobStatuses
               /\ jobs[j].control # "none" => jobs[j].status = "running"
               /\ jobs[j].indexed <= jobs[j].fetched /\ jobs[j].snap <= latest[jobs[j].lib]
    BY DEF IInv, StoreInv, Rows, JobRows, Bounded
  <2>3. /\ held \in [Libraries -> SUBSET (Contents \X Messages)]
        /\ revisit \in [Libraries -> SUBSET Messages] /\ runner.job \in {0} \union JobIds
    BY DEF IInv, StoreInv, Rows, RunnerInv, RunnerShape
  <2> QED BY <2>1, <2>2, <2>3 DEF TypeOK
<1> QED BY <1>1, ScanInvariant, PTL

(* Every message below the watermark is stored for the mode, held by an    *)
(* unresolved failure, or before the cursor of a full scan that revisits.  *)
LEMMA WatermarkIsKept ==
  ASSUME IInv, NEW l \in Libraries, NEW i \in 1 .. library[l].fetched
  PROVE  \/ Stored(l, i)
         \/ \E f \in Unresolved(l) : i \in RangeOf(f)
         \/ AwaitsRevisit(l, i, Ongoing)
<1>1. CASE i \in revisit[l]
  BY <1>1 DEF IInv, StoreInv, Revisits, FreshlyLost
<1>2. CASE i \notin revisit[l]
  <2>1. i \in Kept(l) \/ \E f \in Unresolved(l) : i \in RangeOf(f)
    BY DEF IInv, StoreInv, Coverage, Covered
  <2> QED BY <1>2, <2>1 DEF Kept, Stored
<1> QED BY <1>1, <1>2

(* No message below the watermark of a library is forgotten, whatever      *)
(* fails, pauses, retries, crashes or is repaired in between.              *)
THEOREM NothingIsForgotten == Spec => []NoSilentGap
<1>1. IInv => NoSilentGap
  BY WatermarkIsKept DEF NoSilentGap, Ongoing
<1> QED BY <1>1, ScanInvariant, PTL

(* A library that calls itself ready holds what its mode asks for of every *)
(* message up to its watermark, but for what a failed full revisit has not *)
(* read again; it has nothing left to repair and is indexed as far, unless *)
(* its last job is the retry of a failed repair.                           *)
THEOREM ReadyMeansComplete == Spec => []ReadyIsComplete
<1>1. IInv => ReadyIsComplete
  <2> SUFFICES ASSUME IInv, NEW l \in Libraries, library[l].status = "ready"
               PROVE  /\ \A i \in 1 .. library[l].fetched :
                           Stored(l, i) \/ AwaitsRevisit(l, i, {"failed"})
                      /\ Unresolved(l) = {}
                      /\ library[l].indexed = library[l].fetched \/ RetriedRepair(l)
    BY DEF ReadyIsComplete
  <2>1. Unresolved(l) = {}
    BY DEF IInv, StoreInv, ReadyIsRepaired
  <2>3. ASSUME NEW i \in 1 .. library[l].fetched
        PROVE  Stored(l, i) \/ AwaitsRevisit(l, i, {"failed"})
    <3>1. \A j \in JobIds : jobs[j].lib = l => jobs[j].status \notin Recoverable
      BY DEF IInv, StoreInv, OneJob
    <3>2. Stored(l, i) \/ AwaitsRevisit(l, i, Ongoing)
      BY <2>1, WatermarkIsKept
    <3> QED BY <3>1, <3>2 DEF AwaitsRevisit, JobsIn, Ongoing
  <2>2. library[l].indexed = library[l].fetched \/ RetriedRepair(l)
    BY DEF IInv, StoreInv, EndedIsIndexed
  <2> QED BY <2>1, <2>2, <2>3
<1> QED BY <1>1, ScanInvariant, PTL

(* A range that could not be read can always be taken up again.            *)
THEOREM EveryFailureHasItsRepair == Spec => []NoFailureStranded
<1>1. IInv => NoFailureStranded
  BY DEF IInv, StoreInv
<1> QED BY <1>1, ScanInvariant, PTL
=============================================================================
