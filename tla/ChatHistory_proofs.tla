------------------------- MODULE ChatHistory_proofs -------------------------
(***************************************************************************)
(* The first part proves the commit of the two files (ConfigPair) for any  *)
(* values and any number of faults: as long as nothing raises between the  *)
(* replacement of the journal and the sync after it, every directory that  *)
(* a crash can leave is recovered to one generation, the old one or the    *)
(* one being written. The second part follows what is to be retried from   *)
(* one process to the next (ChatHistory).                                  *)
(***************************************************************************)
EXTENDS ChatHistory, FiniteSetTheorems, WellFoundedInduction, TLAPS

Contents == {v[t] : v \in Values, t \in Files}
Directories ==
  [file : [Files -> Contents], stage : [Files -> Contents \union {None}],
   journal : Values \union {None}]

Steps == {"down", "load", "idle", "recover", "stage", "journal", "commit"}

PairTypeOK ==
  /\ dir \in Directories /\ past \subseteq Directories /\ durable \in past /\ dir \in past
  /\ step \in Steps /\ entry \in 1 .. 3 /\ offer \in Values

(* Only between the replacement of the journal and its sync can a crash    *)
(* choose between two generations.                                         *)
OneGeneration == \A d \in past :
  \/ Reads(d) = Reads(durable)
  \/ step = "journal" /\ Reads(d) = offer

(* The entries before the one the step is at are done.                     *)
EntriesDone ==
  /\ step \in {"load", "recover", "commit"} /\ dir.journal # None =>
       \A t \in Files : t < entry => dir.file[t] = dir.journal[t]
  /\ step = "stage" =>
       dir.journal = None /\ \A t \in Files : t < entry => dir.stage[t] = offer[t]

PairInv == PairTypeOK /\ OneGeneration /\ EntriesDone /\ AlwaysRecoverable

(* The contents of a value are contents, and no file is None.              *)
LEMMA ValueType ==
  ASSUME NEW v \in Values
  PROVE  v \in [Files -> Contents] /\ v # None /\ \A t \in Files : v[t] # None
<1>1. v = [t \in Files |-> v[t]] /\ \A t \in Files : v[t] # None /\ v[t] \in Contents
  BY PairAssumption DEF Contents
<1>2. v # None
  BY PairAssumption
<1> QED
  BY <1>1, <1>2

(* At first there is one directory and no commit under way.                *)
LEMMA InitPairInv == PairInit => PairInv
<1> SUFFICES ASSUME PairInit PROVE PairInv
  OBVIOUS
<1>1. PICK v \in Initial : dir = [file |-> v, stage |-> Absent, journal |-> None] /\ offer = v
  BY DEF PairInit
<1>2. v \in Values /\ v \in [Files -> Contents]
  BY <1>1, ValueType, PairAssumption
<1>3. dir \in Directories
  BY <1>1, <1>2 DEF Directories, Absent
<1>4. PairTypeOK
  <2>1. past = {dir} /\ durable = dir /\ step = "down" /\ entry = 1 /\ owe = FALSE
    BY DEF PairInit
  <2>2. owe \in BOOLEAN /\ offer \in Values
    BY <1>1, <1>2, <2>1
  <2> QED
    BY <1>3, <2>1, <2>2 DEF PairTypeOK, Steps
<1>5. QED
  BY <1>1, <1>4 DEF PairInit, PairInv, OneGeneration, EntriesDone, AlwaysRecoverable, Recoverable

(* A change of the directory keeps the invariant's parts about the past    *)
(* when the new directory is recoverable to the same generation.           *)
LEMMA ChangeKeeps ==
  ASSUME PairInv, NEW d \in Directories, Change(d), Recoverable(d),
         step # "journal", Reads(d) = Reads(dir), offer' = offer
  PROVE  /\ dir' \in Directories /\ past' \subseteq Directories
         /\ durable' \in past' /\ dir' \in past'
         /\ OneGeneration' /\ AlwaysRecoverable'
BY DEF PairInv, PairTypeOK, OneGeneration, AlwaysRecoverable, Change, Recoverable, Reads

(* After a sync or a crash there is one directory, and so one generation.  *)
LEMMA OneDirectory ==
  ASSUME PairInv, NEW d \in past, dir' = d, durable' = d, past' = {d}
  PROVE  /\ dir' \in Directories /\ past' \subseteq Directories
         /\ durable' \in past' /\ dir' \in past'
         /\ OneGeneration' /\ AlwaysRecoverable'
BY DEF PairInv, PairTypeOK, OneGeneration, AlwaysRecoverable, Recoverable, Reads

(* Each operation of a write, a start or a recovery keeps the invariant.   *)
LEMMA StepPairInv ==
  ASSUME ~LateFailures
  PROVE  PairInv /\ [PairNext]_pairVars => PairInv'
<1> SUFFICES ASSUME PairInv, [PairNext]_pairVars PROVE PairInv'
  OBVIOUS
<1> USE DEF PairInv
<1>type. PairTypeOK
  OBVIOUS
<1>1. CASE Start
  BY <1>1 DEF Start, PairTypeOK, Steps, OneGeneration, EntriesDone, AlwaysRecoverable,
              Recoverable, Reads, Files
<1>2. CASE Stop
  BY <1>2 DEF Stop, PairTypeOK, Steps, OneGeneration, EntriesDone, AlwaysRecoverable,
              Recoverable, Reads
<1>3. ASSUME NEW v \in Values, Begin(v)
      PROVE  PairInv'
  BY <1>3 DEF Begin, PairTypeOK, Steps, OneGeneration, EntriesDone, AlwaysRecoverable,
              Recoverable, Reads, Files
<1>4. CASE ReplaceEntry
  <2>1. dir.journal \in Values /\ entry \in Files /\ entry + 1 \in 1 .. 3
    BY <1>4 DEF ReplaceEntry, PairTypeOK, Directories, Files
  <2>2. CASE dir.stage[entry] # None
    <3> DEFINE d == [dir EXCEPT !.file[entry] = dir.stage[entry], !.stage[entry] = None]
    <3>1. Change(d) /\ dir.stage[entry] = dir.journal[entry] /\ step # "journal"
      BY <1>4, <2>2 DEF ReplaceEntry
    <3>2. d \in Directories
      BY <2>1, <2>2 DEF PairTypeOK, Directories
    <3>3. /\ d.journal = dir.journal
          /\ d.file = [dir.file EXCEPT ![entry] = dir.stage[entry]]
          /\ d.stage = [dir.stage EXCEPT ![entry] = None]
      BY DEF PairTypeOK, Directories
    <3>4. Reads(d) = Reads(dir)
      BY <2>1, <3>3, ValueType DEF Reads
    <3>5. Recoverable(dir)
      BY DEF AlwaysRecoverable, PairTypeOK
    <3>6. Recoverable(d)
      BY <2>1, <3>1, <3>3, <3>5, ValueType DEF Recoverable, PairTypeOK, Directories
    <3>7. offer' = offer /\ step' = step /\ entry' = entry + 1 /\ owe' = TRUE /\ dir' = d
      BY <1>4, <2>2, <3>1 DEF ReplaceEntry, Change
    <3>8. OneGeneration' /\ AlwaysRecoverable' /\ PairTypeOK'
      BY <2>1, <3>1, <3>2, <3>4, <3>6, <3>7, ChangeKeeps DEF PairTypeOK
    <3>9. EntriesDone'
      BY <1>4, <2>1, <3>1, <3>3, <3>7 DEF EntriesDone, ReplaceEntry, PairTypeOK, Directories, Files
    <3> QED
      BY <3>8, <3>9
  <2>3. CASE dir.stage[entry] = None
    BY <1>4, <2>1, <2>3 DEF ReplaceEntry, PairTypeOK, OneGeneration, EntriesDone,
         AlwaysRecoverable, Recoverable, Reads, Files
  <2> QED
    BY <2>2, <2>3
<1>5. CASE UnlinkJournal
  <2> DEFINE d == [dir EXCEPT !.journal = None]
  <2>1. dir.journal \in Values /\ \A t \in Files : dir.file[t] = dir.journal[t]
    BY <1>5 DEF UnlinkJournal, PairTypeOK, Directories, EntriesDone, Files
  <2>2. dir.file = dir.journal
    <3>1. dir.file \in [Files -> Contents] /\ dir.journal \in [Files -> Contents]
      BY <2>1, ValueType DEF PairTypeOK, Directories
    <3> QED
      BY <2>1, <3>1
  <2>3. d \in Directories /\ d.journal = None /\ d.file = dir.file
    BY DEF PairTypeOK, Directories
  <2>4. Reads(d) = Reads(dir) /\ Recoverable(d)
    BY <2>1, <2>2, <2>3, ValueType DEF Reads, Recoverable
  <2>5. Change(d) /\ step # "journal" /\ offer' = offer /\ dir' = d
    BY <1>5 DEF UnlinkJournal, Change
  <2>6. OneGeneration' /\ AlwaysRecoverable' /\ PairTypeOK'
    BY <1>5, <2>3, <2>4, <2>5, ChangeKeeps DEF UnlinkJournal, PairTypeOK
  <2> QED
    BY <1>5, <2>3, <2>5, <2>6 DEF UnlinkJournal, EntriesDone
<1>6. CASE Synced
  <2>1. /\ past' = {dir} /\ durable' = dir /\ dir' = dir /\ owe' = FALSE /\ offer' = offer
        /\ \/ step = "journal" /\ step' = "commit" /\ entry' = 1
           \/ step # "journal" /\ step' = step /\ entry' = entry
    BY <1>6 DEF Synced
  <2> QED
    BY <2>1, OneDirectory DEF PairTypeOK, Steps, EntriesDone, Files
<1>7. ASSUME NEW s \in {"load", "recover", "commit"}, Recovered(s)
      PROVE  PairInv'
  BY <1>7 DEF Recovered, PairTypeOK, Steps, OneGeneration, EntriesDone, AlwaysRecoverable,
              Recoverable, Reads, Files
<1>8. CASE StageEntry
  <2> DEFINE d == [dir EXCEPT !.stage[entry] = offer[entry]]
  <2>1. /\ Change(d) /\ step = "stage" /\ dir.journal = None /\ entry \in Files
        /\ step' = step /\ entry' = entry + 1 /\ owe' = TRUE /\ offer' = offer /\ dir' = d
    BY <1>8 DEF StageEntry, Change, EntriesDone
  <2>2. offer[entry] \in Contents
    BY <2>1, ValueType DEF PairTypeOK
  <2>3. d \in Directories /\ d.journal = None /\ d.file = dir.file
        /\ d.stage = [dir.stage EXCEPT ![entry] = offer[entry]]
    BY <2>1, <2>2 DEF PairTypeOK, Directories
  <2>4. OneGeneration' /\ AlwaysRecoverable' /\ PairTypeOK'
    <3>1. Reads(d) = Reads(dir) /\ Recoverable(d) /\ step # "journal"
      BY <2>1, <2>3 DEF Reads, Recoverable
    <3>2. /\ dir' \in Directories /\ past' \subseteq Directories
          /\ durable' \in past' /\ dir' \in past' /\ OneGeneration' /\ AlwaysRecoverable'
      BY <2>1, <2>3, <3>1, ChangeKeeps
    <3> QED
      BY <2>1, <3>2 DEF PairTypeOK, Files
  <2>5. EntriesDone'
    BY <2>1, <2>3 DEF EntriesDone, PairTypeOK, Directories, Files
  <2> QED
    BY <2>4, <2>5
<1>9. CASE WriteJournal
  <2> DEFINE d == [dir EXCEPT !.journal = offer]
  <2>1. /\ dir' = d /\ past' = past \union {d} /\ durable' = durable /\ step = "stage"
        /\ entry = 3 /\ step' = "journal" /\ entry' = entry /\ owe' = TRUE /\ offer' = offer
    BY <1>9 DEF WriteJournal, Change
  <2>2. d \in Directories /\ d.journal = offer /\ d.stage = dir.stage /\ offer # None
    BY ValueType DEF PairTypeOK, Directories
  <2>3. Recoverable(d)
    BY <2>1, <2>2 DEF Recoverable, EntriesDone, Files
  <2>4. Reads(d) = offer
    BY <2>2 DEF Reads
  <2>5. PairTypeOK' /\ AlwaysRecoverable'
    BY <2>1, <2>2, <2>3 DEF PairTypeOK, Steps, AlwaysRecoverable, Recoverable
  <2>6. OneGeneration'
    BY <2>1, <2>4 DEF OneGeneration, Reads
  <2> QED
    BY <2>1, <2>5, <2>6 DEF EntriesDone
<1>10. CASE Fail
  <2>1. step # "journal"
    BY <1>10 DEF Fail
  <2>2. CASE step = "stage"
    <3> DEFINE d == [dir EXCEPT !.stage = Absent]
    <3>1. Change(d) /\ dir.journal = None /\ step' = "idle" /\ entry' = 1 /\ owe' = FALSE
            /\ offer' = offer
      BY <1>10, <2>2 DEF Fail, EntriesDone
    <3>2. d \in Directories /\ d.journal = None /\ d.file = dir.file
      BY <3>1 DEF PairTypeOK, Directories, Absent
    <3>3. OneGeneration' /\ AlwaysRecoverable' /\ PairTypeOK'
      <4>1. Reads(d) = Reads(dir) /\ Recoverable(d)
        BY <3>1, <3>2 DEF Reads, Recoverable
      <4>2. /\ dir' \in Directories /\ past' \subseteq Directories
            /\ durable' \in past' /\ dir' \in past' /\ OneGeneration' /\ AlwaysRecoverable'
        BY <2>1, <3>1, <3>2, <4>1, ChangeKeeps
      <4> QED
        BY <3>1, <4>2 DEF PairTypeOK, Steps
    <3> QED
      BY <3>1, <3>3 DEF EntriesDone
  <2>3. CASE step = "load"
    <3>1. /\ past' = {dir} /\ durable' = dir /\ dir' = dir /\ offer' = offer
          /\ step' = "down" /\ entry' = 1 /\ owe' = FALSE
      BY <1>10, <2>3 DEF Fail
    <3> QED
      BY <3>1, OneDirectory DEF PairTypeOK, Steps, EntriesDone
  <2>4. CASE step \notin {"stage", "load"}
    <3>1. /\ UNCHANGED <<dir, past, durable, offer>>
          /\ step' = "idle" /\ entry' = 1 /\ owe' = FALSE
      BY <1>10, <2>1, <2>4 DEF Fail
    <3>2. PairTypeOK'
      BY <3>1 DEF PairTypeOK, Steps
    <3> QED
      BY <2>1, <3>1, <3>2 DEF OneGeneration, EntriesDone, AlwaysRecoverable, Recoverable, Reads
  <2> QED
    BY <2>2, <2>3, <2>4
<1>11. CASE Crash
  <2>1. PICK d \in past : dir' = d /\ durable' = d /\ past' = {d}
    BY <1>11 DEF Crash
  <2>2. step' = "down" /\ entry' = 1 /\ owe' = FALSE /\ offer' = offer
    BY <1>11 DEF Crash
  <2> QED
    BY <2>1, <2>2, OneDirectory DEF PairTypeOK, Steps, EntriesDone
<1>12. CASE UNCHANGED pairVars
  BY <1>12 DEF pairVars, process, PairTypeOK, OneGeneration, EntriesDone, AlwaysRecoverable,
               Recoverable, Reads
<1> QED
  BY <1>1, <1>2, <1>3, <1>4, <1>5, <1>6, <1>7, <1>8, <1>9, <1>10, <1>11, <1>12
  DEF PairNext, Write

-----------------------------------------------------------------------------
(* Every directory a crash can leave is one that recover_yaml_pair brings  *)
(* to an end without raising.                                              *)
THEOREM PairRecoverable ==
  ASSUME ~LateFailures
  PROVE  PairSpec => []AlwaysRecoverable
<1>1. PairInv => AlwaysRecoverable
  BY DEF PairInv
<1>2. QED
  BY <1>1, InitPairInv, StepPairInv, PTL DEF PairSpec

(* The two files implement one register: what is on disk changes at once   *)
(* from a generation to the one that the running write stages.             *)
THEOREM PairKeepsGeneration ==
  ASSUME ~LateFailures
  PROVE  PairSpec => KeepsGeneration
<1>1. PairInit => Register!RegisterInit
  BY PairAssumption DEF PairInit, Register!RegisterInit, Reads
<1>2. PairInv /\ [PairNext]_pairVars
        => [Register!Offer \/ Register!Take]_<<Reads(durable), offer>>
  <2> SUFFICES ASSUME PairInv, [PairNext]_pairVars
               PROVE  \/ Reads(durable)' = Reads(durable)
                      \/ Reads(durable)' = offer /\ offer' = offer
    BY DEF Register!Offer, Register!Take
  <2>1. CASE Synced \/ Stop \/ Fail \/ Crash
    BY <2>1 DEF Synced, Stop, Fail, Crash, Change, PairInv, PairTypeOK, OneGeneration, Reads
  <2>2. CASE ReplaceEntry \/ UnlinkJournal \/ StageEntry \/ WriteJournal
    BY <2>2 DEF ReplaceEntry, UnlinkJournal, StageEntry, WriteJournal, Change, Reads
  <2>3. CASE Start \/ UNCHANGED pairVars
    BY <2>3 DEF Start, pairVars, Reads
  <2>4. ASSUME NEW s \in {"load", "recover", "commit"}, Recovered(s)
        PROVE  Reads(durable)' = Reads(durable)
    BY <2>4 DEF Recovered, Reads
  <2>5. ASSUME NEW v \in Values, Begin(v)
        PROVE  Reads(durable)' = Reads(durable)
    BY <2>5 DEF Begin, Reads
  <2> QED
    <3>1. Synced \/ Stop \/ Fail \/ Crash \/ ReplaceEntry \/ UnlinkJournal \/ StageEntry
            \/ WriteJournal \/ Start \/ UNCHANGED pairVars
            \/ (\E s \in {"load", "recover", "commit"} : Recovered(s))
            \/ (\E v \in Values : Begin(v))
      BY DEF PairNext, Write
    <3> QED
      BY <2>1, <2>2, <2>3, <2>4, <2>5, <3>1
<1>3. QED
  BY <1>1, <1>2, InitPairInv, StepPairInv, PTL DEF PairSpec, KeepsGeneration, Register!RegisterSpec

-----------------------------------------------------------------------------
(* What the two files hold: data.yaml has no more entries than config.yaml *)
(* has chats, and only for these, as update_config leaves it.              *)
ConfigEntry == [chat : Chats, pos : Nat]
RetryEntry == [chat : Chats, retry : SUBSET Messages]
Saved == {d \in Seq(ConfigEntry) \X Seq(RetryEntry) :
            /\ Len(d[2]) <= Len(Keys(d[1]))
            /\ \A i \in DOMAIN d[2] : Entries(d[1], d[2][i].chat) # {}}

(* A smaller number is below in the relation the induction library uses.   *)
LEMMA LessIsRelated ==
  ASSUME NEW x \in Nat, NEW y \in Nat, y < x
  PROVE  <<y, x>> \in OpToRel(<, Nat)
BY DEF OpToRel

(* Min of a set of numbers is one of them and the least.                   *)
LEMMA MinOfNats ==
  ASSUME NEW T, T \subseteq Nat, T # {}
  PROVE  Min(T) \in T /\ \A y \in T : Min(T) <= y
<1>1. PICK x \in T : \A y \in T : ~(<<y, x>> \in OpToRel(<, Nat))
  BY NatLessThanWellFounded, WFMin
<1>2. \A y \in T : ~(y < x)
  BY <1>1, LessIsRelated
<1>3. \A y \in T : x =< y
  BY <1>2
<1>4. Min(T) \in T /\ \A y \in T : Min(T) =< y
  BY <1>3 DEF Min
<1> QED BY <1>4

(* Max of a bounded set of numbers is one of them and the greatest.        *)
LEMMA MaxOfNats ==
  ASSUME NEW T, T \subseteq Nat, T # {}, NEW b \in Nat, \A y \in T : y <= b
  PROVE  Max(T) \in T /\ \A y \in T : y <= Max(T)
<1> DEFINE B == {c \in Nat : \A y \in T : y <= c}
<1>1. PICK x \in B : \A y \in B : ~(<<y, x>> \in OpToRel(<, Nat))
  <2>1. B \subseteq Nat /\ b \in B
    OBVIOUS
  <2> QED BY <2>1, NatLessThanWellFounded, WFMin
<1>2. \A y \in B : ~(y < x)
  BY <1>1, LessIsRelated
<1>3. x \in T
  <2> SUFFICES ASSUME x \notin T PROVE FALSE
    OBVIOUS
  <2>0. x \in Nat /\ \A y \in T : y \in Nat /\ y <= x
    OBVIOUS
  <2>1. \A y \in T : y < x
    BY <2>0
  <2>2. x > 0
    <3>1. PICK y \in T : TRUE
      OBVIOUS
    <3> QED BY <2>0, <2>1, <3>1
  <2>3. x - 1 \in B
    BY <2>1, <2>2
  <2> QED BY <1>2, <2>3
<1>4. \A y \in T : x >= y
  OBVIOUS
<1>5. Max(T) \in T /\ \A y \in T : Max(T) >= y
  BY <1>3, <1>4 DEF Max
<1> QED BY <1>5

(* Max of two numbers.                                                     *)
LEMMA MaxOfTwo ==
  ASSUME NEW a \in Nat, NEW b \in Nat
  PROVE  Max({a, b}) = IF a <= b THEN b ELSE a
<1>1. Max({a, b}) \in {a, b} /\ \A y \in {a, b} : y <= Max({a, b})
  BY MaxOfNats, a + b \in Nat, \A y \in {a, b} : y <= a + b
<1> QED BY <1>1

(* The rank of a member of a finite set of numbers is in the set's count,  *)
(* and no two members have the same.                                       *)
LEMMA RankInjective ==
  ASSUME NEW F, F \subseteq Nat, IsFiniteSet(F)
  PROVE  /\ Cardinality(F) \in Nat
         /\ \A i \in F : Rank(F, i) \in 1 .. Cardinality(F)
         /\ \A i, k \in F : Rank(F, i) = Rank(F, k) => i = k
<1>1. Cardinality(F) \in Nat
  BY FS_CardinalityType
<1>2. ASSUME NEW i \in F
      PROVE  LET S == {j \in F : j <= i}
             IN IsFiniteSet(S) /\ Cardinality(S) \in 1 .. Cardinality(F)
  <2> DEFINE S == {j \in F : j <= i}
  <2>1. S \in SUBSET F
    OBVIOUS
  <2>2. IsFiniteSet(S) /\ Cardinality(S) <= Cardinality(F)
    BY <2>1, FS_Subset
  <2>3. i \in S
    OBVIOUS
  <2>4. Cardinality(S) \in Nat /\ Cardinality(S) # 0
    BY <2>2, <2>3, FS_CardinalityType, FS_EmptySet
  <2> HIDE DEF S
  <2>5. QED
    BY <1>1, <2>2, <2>4 DEF S
<1>3. ASSUME NEW i \in F, NEW k \in F, i < k, Rank(F, i) = Rank(F, k)
      PROVE  FALSE
  <2> DEFINE S == {j \in F : j <= i}
             T == {j \in F : j <= k}
  <2>1. S \in SUBSET T
    <3>1. \A j \in F : j \in Nat /\ (j <= i => j <= k)
      BY <1>3
    <3> QED
      BY <3>1
  <2>2. IsFiniteSet(T)
    BY <1>2
  <2>3. Cardinality(T) = Cardinality(S)
    BY <1>3 DEF Rank
  <2>4. T = S
    BY <2>1, <2>2, <2>3, FS_Subset
  <2> QED
    BY <1>3, <2>4
<1>4. \A i, k \in F : Rank(F, i) = Rank(F, k) => i = k
  BY <1>3
<1> QED
  BY <1>1, <1>2, <1>4 DEF Rank

(* Every number up to the count is the rank of a member.                   *)
LEMMA RankOnto ==
  ASSUME NEW F, F \subseteq Nat, IsFiniteSet(F), NEW n \in 1 .. Cardinality(F)
  PROVE  \E i \in F : Rank(F, i) = n
<1> DEFINE N == Cardinality(F)
           r == [i \in F |-> Rank(F, i)]
<1>1. N \in Nat /\ IsFiniteSet(1 .. N) /\ Cardinality(1 .. N) = N
  <2>1. N \in Nat
    BY RankInjective
  <2>2. IsFiniteSet(1 .. N) /\ Cardinality(1 .. N) = IF 1 > N THEN 0 ELSE N - 1 + 1
    BY <2>1, FS_Interval
  <2> QED
    BY <2>1, <2>2
<1>2. r \in Injection(F, 1 .. N)
  <2>1. r \in [F -> 1 .. N]
    BY RankInjective
  <2>2. \A i, k \in F : r[i] = r[k] => i = k
    BY RankInjective
  <2> QED
    BY <2>1, <2>2, Zenon DEF Injection, IsInjective
<1>3. r \in Surjection(F, 1 .. N)
  BY <1>1, <1>2, FS_Injection
<1>4. PICK i \in F : r[i] = n
  BY <1>3 DEF Surjection
<1> QED
  BY <1>4

(* The chats of a configuration, each at one place, the first one first.   *)
LEMMA KeysFacts ==
  ASSUME NEW cfg \in Seq(ConfigEntry)
  PROVE  /\ Len(Keys(cfg)) \in Nat /\ DOMAIN Keys(cfg) = 1 .. Len(Keys(cfg))
         /\ \A n \in DOMAIN Keys(cfg) : Keys(cfg)[n] \in Chats
         /\ \A n, l \in DOMAIN Keys(cfg) : Keys(cfg)[n] = Keys(cfg)[l] => n = l
         /\ \A n \in DOMAIN Keys(cfg) : \E i \in DOMAIN cfg : cfg[i].chat = Keys(cfg)[n]
         /\ \A i \in DOMAIN cfg : \E n \in DOMAIN Keys(cfg) : Keys(cfg)[n] = cfg[i].chat
         /\ 1 \in DOMAIN Keys(cfg) => Keys(cfg)[1] = cfg[1].chat
<1> DEFINE F == First(cfg)
           N == Cardinality(F)
           at(n) == CHOOSE i \in F : Rank(F, i) = n
<1>1. F \subseteq DOMAIN cfg /\ DOMAIN cfg = 1 .. Len(cfg) /\ Len(cfg) \in Nat
  BY DEF First
<1>2. F \subseteq Nat /\ IsFiniteSet(F)
  <2>1. IsFiniteSet(1 .. Len(cfg)) /\ F \in SUBSET (1 .. Len(cfg))
    BY <1>1, FS_Interval
  <2> QED
    BY <2>1, FS_Subset
<1>3. N \in Nat
  BY <1>2, RankInjective
<1>4. \A n \in 1 .. N : at(n) \in F /\ Rank(F, at(n)) = n
  BY <1>2, RankOnto
<1>5. Keys(cfg) = [n \in 1 .. N |-> cfg[at(n)].chat]
  BY DEF Keys
<1>6. \A i \in F : cfg[i].chat \in Chats
  <2>1. \A i \in 1 .. Len(cfg) : cfg[i] \in ConfigEntry
    OBVIOUS
  <2> QED
    BY <1>1, <2>1 DEF ConfigEntry
<1>7. \A i, k \in F : cfg[i].chat = cfg[k].chat => i = k
  <2> SUFFICES ASSUME NEW i \in F, NEW k \in F, i < k, cfg[i].chat = cfg[k].chat PROVE FALSE
    BY <1>2
  <2>1. i \in 1 .. Len(cfg) /\ k \in 1 .. Len(cfg)
    BY <1>1
  <2>2. i \in 1 .. k - 1
    BY <1>1, <2>1
  <2> QED
    BY <2>2 DEF First
<1>8. \A i \in DOMAIN cfg : \E k \in F : cfg[k].chat = cfg[i].chat
  <2> SUFFICES ASSUME NEW i \in DOMAIN cfg PROVE \E k \in F : cfg[k].chat = cfg[i].chat
    OBVIOUS
  <2> DEFINE S == {k \in DOMAIN cfg : cfg[k].chat = cfg[i].chat}
  <2>1. S \subseteq Nat /\ i \in S
    BY <1>1
  <2>2. PICK k \in S : \A y \in S : ~(<<y, k>> \in OpToRel(<, Nat))
    BY <2>1, NatLessThanWellFounded, WFMin
  <2>3. \A y \in S : ~(y < k)
    BY <2>1, <2>2, LessIsRelated
  <2>4. k \in DOMAIN cfg /\ \A j \in 1 .. k - 1 : j \in DOMAIN cfg /\ j < k
    BY <1>1
  <2>5. \A j \in 1 .. k - 1 : cfg[j].chat # cfg[k].chat
    BY <2>3, <2>4
  <2> QED
    BY <2>4, <2>5 DEF First
<1>9. 1 \in DOMAIN cfg => 1 \in F /\ Rank(F, 1) = 1
  <2> SUFFICES ASSUME 1 \in DOMAIN cfg PROVE 1 \in F /\ Rank(F, 1) = 1
    OBVIOUS
  <2>1. 1 \in F
    BY DEF First
  <2>2. {j \in F : j <= 1} = {1}
    BY <1>1, <2>1
  <2> QED
    BY <2>1, <2>2, FS_Singleton DEF Rank
<1>10. 1 \in 1 .. N => at(1) = 1
  <2> SUFFICES ASSUME 1 \in 1 .. N PROVE at(1) = 1
    OBVIOUS
  <2>1. at(1) \in F /\ Rank(F, at(1)) = 1
    BY <1>4
  <2>2. 1 \in DOMAIN cfg
    BY <1>1, <2>1
  <2> QED
    BY <1>2, <1>9, <2>1, <2>2, RankInjective
<1> HIDE DEF at, F, N
<1>11. DOMAIN Keys(cfg) = 1 .. N /\ Len(Keys(cfg)) = N
  BY <1>3, <1>5
<1>12. \A n \in 1 .. N : Keys(cfg)[n] = cfg[at(n)].chat
  BY <1>5
<1>13. \A n, l \in 1 .. N : Keys(cfg)[n] = Keys(cfg)[l] => n = l
  BY <1>4, <1>7, <1>12
<1>14. \A k \in F : Rank(F, k) \in 1 .. N /\ at(Rank(F, k)) = k
  <2>1. \A k \in F : Rank(F, k) \in 1 .. N
    BY <1>2, RankInjective DEF N
  <2> QED
    <3> SUFFICES ASSUME NEW k \in F PROVE at(Rank(F, k)) = k
      BY <2>1
    <3>1. at(Rank(F, k)) \in F /\ Rank(F, at(Rank(F, k))) = Rank(F, k)
      BY <1>4, <2>1
    <3> QED
      BY <1>2, <3>1, RankInjective
<1>15. \A i \in DOMAIN cfg : \E n \in 1 .. N : Keys(cfg)[n] = cfg[i].chat
  <2> SUFFICES ASSUME NEW i \in DOMAIN cfg PROVE \E n \in 1 .. N : Keys(cfg)[n] = cfg[i].chat
    OBVIOUS
  <2>1. PICK k \in F : cfg[k].chat = cfg[i].chat
    BY <1>8
  <2> QED
    BY <1>12, <1>14, <2>1
<1>16. \A n \in 1 .. N : at(n) \in DOMAIN cfg /\ cfg[at(n)].chat \in Chats
  BY <1>1, <1>4, <1>6
<1>17. 1 \in 1 .. N => Keys(cfg)[1] = cfg[1].chat
  BY <1>10, <1>12
<1>18. \A n \in 1 .. N : \E i \in DOMAIN cfg : cfg[i].chat = Keys(cfg)[n]
  BY <1>12, <1>16
<1>19. \A n \in 1 .. N : Keys(cfg)[n] \in Chats
  BY <1>12, <1>16
<1> QED
  BY <1>3, <1>11, <1>13, <1>15, <1>17, <1>18, <1>19

(* update_config changes no chat of an entry, and so not their order.      *)
LEMMA SameKeys ==
  ASSUME NEW cfg \in Seq(ConfigEntry), NEW new \in Seq(ConfigEntry),
         DOMAIN new = DOMAIN cfg, \A i \in DOMAIN cfg : new[i].chat = cfg[i].chat
  PROVE  Keys(new) = Keys(cfg)
<1> DEFINE F == First(cfg)
           at(n) == CHOOSE i \in F : Rank(F, i) = n
<1>1. First(new) = F
  <2>1. \A i \in DOMAIN cfg : \A j \in 1 .. i - 1 : j \in DOMAIN cfg
    <3>1. DOMAIN cfg = 1 .. Len(cfg) /\ Len(cfg) \in Nat
      OBVIOUS
    <3> QED
      BY <3>1
  <2> QED
    BY <2>1 DEF First
<1>2. F \subseteq DOMAIN cfg /\ F \subseteq Nat /\ IsFiniteSet(F)
  <2>1. DOMAIN cfg = 1 .. Len(cfg) /\ Len(cfg) \in Nat
    OBVIOUS
  <2>2. IsFiniteSet(1 .. Len(cfg)) /\ F \in SUBSET (1 .. Len(cfg))
    BY <2>1, FS_Interval DEF First
  <2> QED
    BY <2>1, <2>2, FS_Subset
<1>3. \A n \in 1 .. Cardinality(F) : at(n) \in DOMAIN cfg
  BY <1>2, RankOnto
<1>4. Keys(cfg) = [n \in 1 .. Cardinality(F) |-> cfg[at(n)].chat]
  BY DEF Keys
<1>5. Keys(new) = [n \in 1 .. Cardinality(F) |-> new[at(n)].chat]
  BY <1>1 DEF Keys
<1> HIDE DEF F, at
<1> QED
  BY <1>3, <1>4, <1>5

(* What a start takes from the files.                                      *)
LEMMA SavedFacts ==
  ASSUME NEW d \in Saved, NEW c \in Chats
  PROVE  /\ SavedRetry(d, c) \subseteq Messages
         /\ c \in Configured(d) => SavedPos(d, c) \in Nat
         /\ (\A n \in DOMAIN Keys(d[1]) : Keys(d[1])[n] # c) => SavedRetry(d, c) = {}
<1>1. d[1] \in Seq(ConfigEntry) /\ d[2] \in Seq(RetryEntry)
  BY DEF Saved
<1>2. ASSUME NEW E, NEW list \in Seq(E), Entries(list, c) # {}
      PROVE  Max(Entries(list, c)) \in DOMAIN list
  <2>1. Entries(list, c) \subseteq 1 .. Len(list) /\ Len(list) \in Nat
    BY DEF Entries
  <2>2. Entries(list, c) \subseteq Nat /\ \A y \in Entries(list, c) : y <= Len(list)
    BY <2>1
  <2>3. Max(Entries(list, c)) \in Entries(list, c)
    BY <1>2, <2>1, <2>2, MaxOfNats
  <2> QED
    BY <2>3 DEF Entries
<1>3. SavedRetry(d, c) \subseteq Messages
  <2>1. CASE Entries(d[2], c) = {}
    BY <2>1 DEF SavedRetry
  <2>2. CASE Entries(d[2], c) # {}
    <3>1. d[2][Max(Entries(d[2], c))] \in RetryEntry
      BY <1>1, <1>2, <2>2
    <3> QED
      BY <2>2, <3>1 DEF SavedRetry, LastEntry, RetryEntry
  <2> QED
    BY <2>1, <2>2
<1>4. ASSUME c \in Configured(d) PROVE SavedPos(d, c) \in Nat
  <2>1. Entries(d[1], c) # {}
    BY <1>4 DEF Configured
  <2>2. d[1][Max(Entries(d[1], c))] \in ConfigEntry
    BY <1>1, <1>2, <2>1
  <2> QED
    BY <2>2 DEF SavedPos, LastEntry, ConfigEntry
<1>5. ASSUME \A n \in DOMAIN Keys(d[1]) : Keys(d[1])[n] # c
      PROVE  SavedRetry(d, c) = {}
  <2>1. \A i \in DOMAIN d[1] : d[1][i].chat # c
    <3>1. PICK cfg \in Seq(ConfigEntry) : cfg = d[1]
      BY <1>1
    <3>2. \A i \in DOMAIN cfg : \E n \in DOMAIN Keys(cfg) : Keys(cfg)[n] = cfg[i].chat
      BY KeysFacts
    <3> QED
      BY <1>5, <3>1, <3>2
  <2>2. Entries(d[1], c) = {}
    BY <2>1 DEF Entries
  <2>3. Entries(d[2], c) = {}
    BY <2>2 DEF Saved, Entries
  <2> QED
    BY <2>3 DEF SavedRetry
<1> QED
  BY <1>3, <1>4, <1>5

(* What update_config writes is of the shape it reads, has the chats in    *)
(* their order, and tells the unfinished messages of each.                 *)
LEMMA UpdateSaves ==
  ASSUME <<config, appdata>> \in Saved, pos \in [Chats -> Nat],
         NEW u \in [Chats -> SUBSET Messages],
         \A c \in Chats : (\A n \in DOMAIN Keys(config) : Keys(config)[n] # c) => u[c] = {}
  PROVE  /\ <<UpdatedConfig, UpdatedAppData(u)>> \in Saved
         /\ Keys(UpdatedConfig) = Keys(config)
         /\ \A c \in Chats : SavedRetry(<<UpdatedConfig, UpdatedAppData(u)>>, c) = u[c]
<1> DEFINE K == Keys(config)
           C == UpdatedConfig
           A == UpdatedAppData(u)
<1>1. config \in Seq(ConfigEntry) /\ appdata \in Seq(RetryEntry) /\ Len(appdata) <= Len(K)
  BY DEF Saved
<1>2. /\ Len(K) \in Nat /\ DOMAIN K = 1 .. Len(K)
      /\ \A n \in DOMAIN K : K[n] \in Chats
      /\ \A n, l \in DOMAIN K : K[n] = K[l] => n = l
      /\ \A n \in DOMAIN K : \E i \in DOMAIN config : config[i].chat = K[n]
  BY <1>1, KeysFacts
<1>3. C \in Seq(ConfigEntry) /\ DOMAIN C = DOMAIN config
        /\ \A i \in DOMAIN config : C[i].chat = config[i].chat
  <2>1. Len(config) \in Nat /\ DOMAIN config = 1 .. Len(config)
    BY <1>1
  <2>2. ASSUME NEW i \in DOMAIN config
        PROVE  C[i] \in ConfigEntry /\ C[i].chat = config[i].chat
    <3>1. config[i] \in ConfigEntry
      BY <1>1
    <3>2. CASE i \in DOMAIN K /\ finish[K[i]]
      <4>1. pos[K[i]] + 1 \in Nat
        BY <1>2, <3>2
      <4>2. C[i] = [config[i] EXCEPT !.pos = pos[K[i]] + 1]
        BY <3>2 DEF UpdatedConfig
      <4> QED
        BY <3>1, <4>1, <4>2 DEF ConfigEntry
    <3>3. CASE ~(i \in DOMAIN K /\ finish[K[i]])
      BY <3>1, <3>3 DEF UpdatedConfig
    <3> QED
      BY <3>2, <3>3
  <2>3. C = [i \in 1 .. Len(config) |-> C[i]]
    BY <2>1 DEF UpdatedConfig
  <2> HIDE DEF C
  <2> QED
    BY <2>1, <2>2, <2>3
<1>4. Keys(C) = K
  BY <1>1, <1>3, SameKeys
<1>5. A = [i \in 1 .. Len(K) |-> [chat |-> K[i], retry |-> u[K[i]]]]
  <2>1. Max({Len(K), Len(appdata)}) = Len(K)
    <3>0. Len(K) \in Nat /\ Len(appdata) \in Nat
      BY <1>1, <1>2
    <3>1. PICK k \in Nat, l \in Nat : k = Len(K) /\ l = Len(appdata)
      BY <3>0
    <3>2. Max({k, l}) = IF k <= l THEN l ELSE k
      BY MaxOfTwo
    <3> QED
      BY <1>1, <3>1, <3>2
  <2> QED
    BY <1>2, <2>1 DEF UpdatedAppData
<1> HIDE DEF A, C, K
<1>6. \A i \in 1 .. Len(K) : A[i] = [chat |-> K[i], retry |-> u[K[i]]]
  BY <1>5
<1>7. A \in Seq(RetryEntry) /\ Len(A) = Len(K) /\ DOMAIN A = 1 .. Len(K)
  <2>1. \A i \in 1 .. Len(K) : A[i] \in RetryEntry
    <3> SUFFICES ASSUME NEW i \in 1 .. Len(K) PROVE A[i] \in RetryEntry
      OBVIOUS
    <3>1. K[i] \in Chats
      BY <1>2
    <3>2. u[K[i]] \in SUBSET Messages
      BY <3>1
    <3> QED
      <4>1. A[i] = [chat |-> K[i], retry |-> u[K[i]]]
        BY <1>6
      <4>2. PICK a \in Chats, b \in SUBSET Messages : a = K[i] /\ b = u[K[i]]
        BY <3>1, <3>2
      <4>3. A[i] = [chat |-> a, retry |-> b]
        BY <4>1, <4>2
      <4> QED
        BY <4>3 DEF RetryEntry
  <2> QED
    BY <1>2, <1>5, <2>1
<1>8. \A i \in DOMAIN A : Entries(C, A[i].chat) # {}
  <2> SUFFICES ASSUME NEW n \in DOMAIN A PROVE Entries(C, A[n].chat) # {}
    OBVIOUS
  <2>1. A[n].chat = K[n] /\ n \in DOMAIN K
    BY <1>2, <1>6, <1>7
  <2>2. PICK i \in DOMAIN config : config[i].chat = K[n]
    BY <1>2, <2>1
  <2> QED
    BY <1>3, <2>1, <2>2 DEF Entries
<1>9. <<C, A>> \in Saved
  <2>1. <<C, A>> \in Seq(ConfigEntry) \X Seq(RetryEntry)
    BY <1>3, <1>7
  <2> QED
    <3>1. <<C, A>>[1] = C /\ <<C, A>>[2] = A
      OBVIOUS
    <3>2. Len(<<C, A>>[2]) <= Len(Keys(<<C, A>>[1]))
      BY <1>2, <1>4, <1>7, <3>1
    <3>3. \A i \in DOMAIN <<C, A>>[2] : Entries(<<C, A>>[1], <<C, A>>[2][i].chat) # {}
      BY <1>8, <3>1
    <3> QED
      BY <2>1, <3>2, <3>3 DEF Saved
<1>10. ASSUME NEW c \in Chats
       PROVE  SavedRetry(<<C, A>>, c) = u[c]
  <2>1. CASE \E n \in DOMAIN K : K[n] = c
    <3>1. PICK n \in DOMAIN K : K[n] = c
      BY <2>1
    <3>2. Entries(A, c) = {n}
      BY <1>2, <1>6, <1>7, <3>1 DEF Entries
    <3>3. Max({n}) = n
      <4>1. n \in Nat
        BY <1>2
      <4> QED
        BY <4>1, MaxOfNats, {n} \subseteq Nat, \A y \in {n} : y <= n
    <3> QED
      <4>1. <<C, A>>[2] = A
        OBVIOUS
      <4>2. A[n].retry = u[c]
        <5>1. n \in 1 .. Len(K)
          BY <1>2
        <5>2. A[n] = [chat |-> K[n], retry |-> u[K[n]]]
          BY <1>6, <5>1
        <5>3. A[n] = [chat |-> c, retry |-> u[c]]
          BY <3>1, <5>2
        <5> QED
          BY <5>3
      <4> QED
        BY <3>2, <3>3, <4>1, <4>2 DEF SavedRetry, LastEntry
  <2>2. CASE \A n \in DOMAIN K : K[n] # c
    <3>1. Entries(A, c) = {}
      BY <1>2, <1>6, <1>7, <2>2 DEF Entries
    <3> QED
      BY <2>2, <3>1 DEF SavedRetry, K
  <2> QED
    BY <2>1, <2>2
<1> QED
  BY <1>4, <1>9, <1>10 DEF A, C, K

-----------------------------------------------------------------------------
Up == {"idle", "recover", "stage", "journal", "commit"}
Writing == {"recover", "stage", "journal", "commit"}
Statuses == {"none", "downloading", "done", "failed", "skipped"}
GotOf(c) == {m \in Messages : <<c, m>> \in got}
OnDisk(c) == SavedRetry(Reads(durable), c)

MemoryTypeOK ==
  /\ Reads(durable) \in Saved /\ <<config, appdata>> \in Saved
  /\ pos \in [Chats -> Nat]
  /\ retry \in [Chats -> SUBSET Messages] /\ known \in [Chats -> SUBSET Messages]
  /\ status \in [Chats -> [Messages -> Statuses]]
  /\ chat \in Nat /\ (step \in Up => chat # 0)

(* A process that has loaded the files knows what they tell it to retry,   *)
(* and a running write offers what it knows.                               *)
RetriesKnown ==
  /\ step \in Up => \A c \in Chats : OnDisk(c) \subseteq retry[c] \union GotOf(c)
  /\ step \in Writing => \A c \in Chats : SavedRetry(offer, c) = retry[c]

(* Only chats of the configuration have messages.                          *)
OnlyConfigured ==
  \A c \in Chats : (\A n \in DOMAIN Keys(config) : Keys(config)[n] # c)
                      => retry[c] = {} /\ status[c] = Unread

(* A message to be retried that this process did not load as such has been *)
(* enqueued by it, and none is skipped by the filter.                      *)
StatusTells ==
  \A c \in Chats, m \in Messages :
    /\ status[c][m] = "done" => <<c, m>> \in got
    /\ status[c][m] = "skipped" => m \notin retry[c]
    /\ m \in retry[c] => m \in known[c] \/ status[c][m] # "none"

(* A chat that is still to come is untouched, and of the one that is read  *)
(* only loaded retries and what is below the next message.                 *)
Cursor ==
  /\ \A n \in DOMAIN Keys(config) : n > chat => status[Keys(config)[n]] = Unread
  /\ chat \in DOMAIN Keys(config) =>
       /\ next \in Nat /\ again \subseteq known[Current]
       /\ \A m \in Messages :
            status[Current][m] # "none" => m < next \/ m \in known[Current]

MemoryInv == MemoryTypeOK /\ RetriesKnown /\ OnlyConfigured /\ StatusTells /\ Cursor
HistoryInv == PairInv /\ MemoryInv

(* The directory of a crash or a sync is one of those since the last sync, *)
(* so what is on disk is what was, or what the journal has just been       *)
(* replaced for.                                                           *)
LEMMA OnDiskMoves ==
  ASSUME PairInv, [PairNext]_pairVars
  PROVE  \/ Reads(durable)' = Reads(durable)
         \/ step = "journal" /\ Reads(durable)' = offer
<1>1. durable' \in past
  <2>0. durable \in past /\ dir \in past
    BY DEF PairInv, PairTypeOK
  <2>1. CASE Synced \/ Stop \/ Fail \/ Crash
    BY <2>0, <2>1 DEF Synced, Stop, Fail, Crash, Change
  <2>2. CASE ReplaceEntry \/ UnlinkJournal \/ StageEntry \/ WriteJournal
    BY <2>0, <2>2 DEF ReplaceEntry, UnlinkJournal, StageEntry, WriteJournal, Change
  <2>3. CASE Start \/ UNCHANGED pairVars
    BY <2>0, <2>3 DEF Start, pairVars
  <2>4. ASSUME NEW s \in {"load", "recover", "commit"}, Recovered(s)
        PROVE  durable' \in past
    BY <2>0, <2>4 DEF Recovered
  <2>5. ASSUME NEW v \in Values, Begin(v)
        PROVE  durable' \in past
    BY <2>0, <2>5 DEF Begin
  <2> QED
    <3>1. Synced \/ Stop \/ Fail \/ Crash \/ ReplaceEntry \/ UnlinkJournal \/ StageEntry
            \/ WriteJournal \/ Start \/ UNCHANGED pairVars
            \/ (\E s \in {"load", "recover", "commit"} : Recovered(s))
            \/ (\E v \in Values : Begin(v))
      BY DEF PairNext, Write
    <3> QED
      BY <2>1, <2>2, <2>3, <2>4, <2>5, <3>1
<1>2. Reads(durable)' = Reads(durable')
  BY DEF Reads
<1>3. \/ Reads(durable') = Reads(durable)
      \/ step = "journal" /\ Reads(durable') = offer
  BY <1>1 DEF PairInv, OneGeneration
<1> QED
  BY <1>2, <1>3

(* The writes and faults of the two files leave the memory alone.          *)
LEMMA PairStepKeeps ==
  ASSUME Values = Saved, HistoryInv, [PairNext]_pairVars,
         Start \/ Write \/ Fail, UNCHANGED <<memory, got, saves>>
  PROVE  MemoryInv'
<1>1. \/ Reads(durable)' = Reads(durable)
      \/ step = "journal" /\ Reads(durable)' = offer
  BY OnDiskMoves DEF HistoryInv
<1>2. offer \in Saved
  BY DEF HistoryInv, PairInv, PairTypeOK
<1>3. /\ step' \in Up => step \in Up
      /\ step' \in Writing => step \in Writing
  BY DEF HistoryInv, PairInv, PairTypeOK, Steps, Start, Write, Fail, ReplaceEntry, UnlinkJournal, Synced, Recovered, StageEntry,
         WriteJournal, Up, Writing
<1>4. offer' = offer
  BY DEF Start, Write, Fail, ReplaceEntry, UnlinkJournal, Synced, Recovered, StageEntry,
         WriteJournal
<1>5. MemoryTypeOK'
  BY <1>1, <1>2, <1>3 DEF HistoryInv, MemoryInv, MemoryTypeOK, memory
<1>6. RetriesKnown'
  <2>2. ASSUME NEW c \in Chats, step' \in Up
        PROVE  OnDisk(c)' \subseteq retry'[c] \union GotOf(c)'
    <3>1. OnDisk(c) \subseteq retry[c] \union GotOf(c)
      BY <1>3, <2>2 DEF HistoryInv, MemoryInv, RetriesKnown
    <3>2. retry'[c] = retry[c] /\ GotOf(c)' = GotOf(c)
      BY DEF memory, GotOf
    <3>3. CASE Reads(durable)' = Reads(durable)
      <4>1. OnDisk(c)' = OnDisk(c)
        BY <3>3 DEF OnDisk, SavedRetry, Entries, LastEntry
      <4> QED
        BY <3>1, <3>2, <4>1
    <3>4. CASE step = "journal" /\ Reads(durable)' = offer
      <4>1. SavedRetry(offer, c) = retry[c]
        BY <3>4 DEF HistoryInv, MemoryInv, RetriesKnown, Writing, Up
      <4>2. OnDisk(c)' = SavedRetry(offer, c)
        BY <3>4 DEF OnDisk, SavedRetry, Entries, LastEntry
      <4> QED
        BY <3>2, <4>1, <4>2
    <3> QED
      BY <1>1, <3>3, <3>4
  <2>3. ASSUME NEW c \in Chats, step' \in Writing
        PROVE  SavedRetry(offer, c)' = retry'[c]
    <3>1. SavedRetry(offer, c) = retry[c]
      BY <1>3, <2>3 DEF HistoryInv, MemoryInv, RetriesKnown, Writing
    <3>2. SavedRetry(offer, c)' = SavedRetry(offer, c)
      BY <1>4 DEF SavedRetry, Entries, LastEntry
    <3> QED
      BY <3>1, <3>2 DEF memory
  <2> QED
    BY <2>2, <2>3 DEF RetriesKnown
<1>7. (OnlyConfigured /\ StatusTells /\ Cursor)'
  <2>1. OnlyConfigured /\ StatusTells /\ Cursor
    BY DEF HistoryInv, MemoryInv
  <2>2. /\ retry' = retry /\ known' = known /\ status' = status /\ chat' = chat
        /\ again' = again /\ next' = next /\ got' = got /\ config' = config
    BY DEF memory
  <2>3. Keys(config)' = Keys(config) /\ Current' = Current
    BY <2>2 DEF Current
  <2>4. OnlyConfigured'
    BY <2>1, <2>2, <2>3 DEF OnlyConfigured
  <2>5. StatusTells'
    BY <2>1, <2>2 DEF StatusTells
  <2>6. Cursor'
    BY <2>1, <2>2, <2>3 DEF Cursor
  <2> QED
    BY <2>4, <2>5, <2>6
<1> QED
  BY <1>5, <1>6, <1>7 DEF MemoryInv

(* Before a start nothing is configured.                                   *)
LEMMA NothingConfigured ==
  <<<<>>, <<>>>> \in Saved /\ DOMAIN Keys(<<>>) = {}
<1>1. <<>> \in Seq(ConfigEntry) /\ <<>> \in Seq(RetryEntry) /\ Len(<<>>) = 0 /\ DOMAIN <<>> = {}
  OBVIOUS
<1>2. Len(Keys(<<>>)) \in Nat /\ DOMAIN Keys(<<>>) = {}
  BY <1>1, KeysFacts
<1>3. <<<<>>, <<>>>> \in Seq(ConfigEntry) \X Seq(RetryEntry)
  BY <1>1
<1>4. Len(<<<<>>, <<>>>>[2]) <= Len(Keys(<<<<>>, <<>>>>[1]))
  BY <1>1, <1>2
<1>5. \A i \in DOMAIN <<<<>>, <<>>>>[2] :
        Entries(<<<<>>, <<>>>>[1], <<<<>>, <<>>>>[2][i].chat) # {}
  BY <1>1
<1> QED
  BY <1>2, <1>3, <1>4, <1>5 DEF Saved

(* The empty memory of a process that is down, as a fact of its own.       *)
LEMMA EmptyMemory ==
  ASSUME Reads(durable) \in Saved, config = <<>>, appdata = <<>>, pos = [c \in Chats |-> 0],
         retry = [c \in Chats |-> {}], known = retry, status = [c \in Chats |-> Unread],
         chat = 0, step = "down"
  PROVE  MemoryInv
<1>1. <<config, appdata>> \in Saved /\ DOMAIN Keys(config) = {}
  BY NothingConfigured
<1>2. Unread \in [Messages -> Statuses] /\ \A m \in Messages : Unread[m] = "none"
  BY DEF Unread, Statuses
<1>3. MemoryTypeOK
  BY <1>1, <1>2 DEF MemoryTypeOK, Up
<1>4. RetriesKnown
  BY DEF RetriesKnown, Up, Writing
<1>5. OnlyConfigured /\ StatusTells /\ Cursor
  BY <1>1, <1>2 DEF OnlyConfigured, StatusTells, Cursor
<1> QED
  BY <1>3, <1>4, <1>5 DEF MemoryInv

(* The end of a process, in a crash or a shutdown, leaves its memory empty.*)
LEMMA ForgetKeeps ==
  ASSUME Values = Saved, HistoryInv, [PairNext]_pairVars, step' = "down", Forget
  PROVE  MemoryInv'
<1>1. Reads(durable)' \in Saved
  <2>1. offer \in Saved /\ Reads(durable) \in Saved
    BY DEF HistoryInv, PairInv, PairTypeOK, MemoryInv, MemoryTypeOK
  <2> QED
    BY <2>1, OnDiskMoves DEF HistoryInv
<1>2. /\ config' = <<>> /\ appdata' = <<>> /\ pos' = [c \in Chats |-> 0]
      /\ retry' = [c \in Chats |-> {}] /\ known' = retry' /\ status' = [c \in Chats |-> Unread]
      /\ chat' = 0
  BY DEF Forget
<1>3. <<config', appdata'>> \in Saved /\ DOMAIN Keys(config)' = {}
  BY <1>2, NothingConfigured
<1>4. Unread \in [Messages -> Statuses] /\ \A m \in Messages : Unread[m] = "none"
  BY DEF Unread, Statuses
<1>5. MemoryTypeOK'
  BY <1>1, <1>2, <1>3, <1>4 DEF MemoryTypeOK, Up
<1>6. RetriesKnown'
  BY DEF RetriesKnown, Up, Writing
<1>7. (OnlyConfigured /\ StatusTells /\ Cursor)'
  BY <1>2, <1>3, <1>4 DEF OnlyConfigured, StatusTells, Cursor
<1> QED
  BY <1>5, <1>6, <1>7 DEF MemoryInv

(* Before the first start the files are as they are found, and no memory   *)
(* disagrees with them.                                                    *)
LEMMA InitHistoryInv == Values = Saved /\ HistoryInit => HistoryInv
<1> SUFFICES ASSUME Values = Saved, HistoryInit PROVE HistoryInv
  OBVIOUS
<1>1. PairInit
  BY DEF HistoryInit
<1>2. PairInv
  BY <1>1, InitPairInv
<1>3. Reads(durable) \in Saved /\ step = "down"
  BY <1>1, PairAssumption DEF PairInit, Reads
<1>4. /\ config = <<>> /\ appdata = <<>> /\ pos = [c \in Chats |-> 0]
      /\ retry = [c \in Chats |-> {}] /\ known = retry /\ status = [c \in Chats |-> Unread]
      /\ chat = 0
  BY DEF HistoryInit
<1> QED
  BY <1>2, <1>3, <1>4, EmptyMemory DEF HistoryInv

(* A start takes up what is on disk.                                       *)
LEMMA LoadKeeps ==
  ASSUME Values = Saved, HistoryInv, Load
  PROVE  MemoryInv'
<1> DEFINE K == Keys(config')
<1>1. step = "load" /\ dir.journal = None /\ step' = "idle" /\ durable' = durable
  BY DEF Load, Recovered
<1>2. PICK d \in Saved : d = dir.file /\ d = Reads(durable)
  <2>1. Reads(dir) = Reads(durable)
    BY <1>1 DEF HistoryInv, PairInv, PairTypeOK, OneGeneration
  <2>2. Reads(dir) = dir.file
    BY <1>1 DEF Reads
  <2> QED
    BY <2>1, <2>2 DEF HistoryInv, MemoryInv, MemoryTypeOK
<1>3. /\ config' = d[1] /\ appdata' = d[2]
      /\ pos' = [c \in Chats |-> IF c \in Configured(d) THEN SavedPos(d, c) ELSE 0]
      /\ retry' = [c \in Chats |-> SavedRetry(d, c)] /\ known' = retry'
      /\ status' = [c \in Chats |-> Unread]
      /\ chat' = 1 /\ again' = retry'[d[1][1].chat] /\ next' = pos'[d[1][1].chat]
      /\ got' = got
  BY <1>2 DEF Load
<1>4. Unread \in [Messages -> Statuses] /\ \A m \in Messages : Unread[m] = "none"
  BY DEF Unread, Statuses
<1>5. \A c \in Chats :
        /\ SavedRetry(d, c) \subseteq Messages
        /\ c \in Configured(d) => SavedPos(d, c) \in Nat
        /\ (\A n \in DOMAIN Keys(d[1]) : Keys(d[1])[n] # c) => SavedRetry(d, c) = {}
  BY SavedFacts
<1>6. Reads(durable)' = d
  BY <1>1, <1>2 DEF Reads
<1>7. pos' \in [Chats -> Nat] /\ retry' \in [Chats -> SUBSET Messages]
  BY <1>3, <1>5
<1>8. MemoryTypeOK'
  <2>1. <<config', appdata'>> = d
    BY <1>3 DEF Saved
  <2> QED
    BY <1>3, <1>4, <1>6, <1>7, <2>1 DEF MemoryTypeOK
<1>9. RetriesKnown'
  <2>1. \A c \in Chats : OnDisk(c)' = retry'[c]
    <3>1. \A c \in Chats : OnDisk(c)' = SavedRetry(d, c)
      BY <1>6 DEF OnDisk, SavedRetry, Entries, LastEntry
    <3> QED
      BY <1>3, <3>1
  <2> QED
    BY <1>1, <2>1 DEF RetriesKnown, Writing
<1>10. OnlyConfigured'
  BY <1>3, <1>5 DEF OnlyConfigured
<1>11. StatusTells'
  BY <1>3, <1>4 DEF StatusTells
<1>12. Cursor'
  <2>1. d[1] \in Seq(ConfigEntry)
    BY DEF Saved
  <2>2. /\ \A n \in DOMAIN Keys(d[1]) : Keys(d[1])[n] \in Chats
        /\ 1 \in DOMAIN Keys(d[1]) => Keys(d[1])[1] = d[1][1].chat
    <3>1. PICK cfg \in Seq(ConfigEntry) : cfg = d[1]
      BY <2>1
    <3>2. /\ \A n \in DOMAIN Keys(cfg) : Keys(cfg)[n] \in Chats
          /\ 1 \in DOMAIN Keys(cfg) => Keys(cfg)[1] = cfg[1].chat
      BY KeysFacts
    <3> QED
      BY <3>1, <3>2
  <2>3. Current' = Keys(d[1])[1] /\ Keys(config)' = Keys(d[1])
    BY <1>3 DEF Current
  <2>4. \A n \in DOMAIN Keys(config)' : status'[Keys(config)'[n]] = Unread
    BY <1>3, <2>2, <2>3
  <2>5. ASSUME chat' \in DOMAIN Keys(config)'
        PROVE  /\ next' \in Nat /\ again' \subseteq known'[Current']
               /\ \A m \in Messages : status'[Current'][m] = "none"
    <3>1. Current' \in Chats /\ Current' = d[1][1].chat
      BY <1>3, <2>2, <2>3, <2>5
    <3> QED
      BY <1>3, <1>4, <1>7, <3>1
  <2> QED
    BY <2>4, <2>5 DEF Cursor
<1> QED
  BY <1>8, <1>9, <1>10, <1>11, <1>12 DEF MemoryInv

(* What the steps of a run keep that read and download messages.           *)
LEMMA StillKeeps ==
  ASSUME HistoryInv, Still, got \subseteq got', pos' \in [Chats -> Nat],
         status' \in [Chats -> [Messages -> Statuses]], chat' \in Nat \ {0}
  PROVE  MemoryTypeOK' /\ RetriesKnown' /\ Keys(config)' = Keys(config)
           /\ retry' = retry /\ known' = known
<1>1. /\ step' = step /\ durable' = durable /\ offer' = offer
      /\ config' = config /\ appdata' = appdata /\ retry' = retry /\ known' = known
  BY DEF Still, pairVars, process
<1>2. Reads(durable)' = Reads(durable) /\ Keys(config)' = Keys(config)
  BY <1>1 DEF Reads
<1>3. MemoryTypeOK'
  BY <1>1, <1>2 DEF HistoryInv, MemoryInv, MemoryTypeOK
<1>4. \A c \in Chats : GotOf(c) \subseteq GotOf(c)'
  BY DEF GotOf
<1>5. \A c \in Chats : OnDisk(c)' = OnDisk(c) /\ SavedRetry(offer, c)' = SavedRetry(offer, c)
  BY <1>1, <1>2 DEF OnDisk, SavedRetry, Entries, LastEntry
<1>6. RetriesKnown'
  BY <1>1, <1>4, <1>5 DEF HistoryInv, MemoryInv, RetriesKnown
<1> QED
  BY <1>1, <1>2, <1>3, <1>6

(* The chat that is read is one of the configuration.                      *)
LEMMA ReadingFacts ==
  ASSUME HistoryInv, Reading
  PROVE  /\ chat \in DOMAIN Keys(config) /\ Current \in Chats /\ step = "idle"
         /\ \A n \in DOMAIN Keys(config) : Keys(config)[n] \in Chats
         /\ \A n \in DOMAIN Keys(config) : Keys(config)[n] = Current => n = chat
         /\ Len(Keys(config)) \in Nat /\ DOMAIN Keys(config) = 1 .. Len(Keys(config))
<1>1. config \in Seq(ConfigEntry)
  BY DEF HistoryInv, MemoryInv, MemoryTypeOK, Saved
<1>2. /\ Len(Keys(config)) \in Nat /\ DOMAIN Keys(config) = 1 .. Len(Keys(config))
      /\ \A n \in DOMAIN Keys(config) : Keys(config)[n] \in Chats
      /\ \A n, l \in DOMAIN Keys(config) : Keys(config)[n] = Keys(config)[l] => n = l
  BY <1>1, KeysFacts
<1>3. chat \in Nat \ {0} /\ chat <= Len(Keys(config)) /\ step = "idle"
  BY DEF Reading, Running, HistoryInv, MemoryInv, MemoryTypeOK, Up
<1>4. chat \in DOMAIN Keys(config)
  BY <1>2, <1>3
<1> QED
  BY <1>2, <1>3, <1>4 DEF Current

(* A message of the chat that is read gets its status.                     *)
LEMMA TouchKeeps ==
  ASSUME HistoryInv, Reading, Still, NEW m \in Messages, NEW r \in {"downloading", "skipped"},
         status' = [status EXCEPT ![Current][m] = r],
         UNCHANGED <<pos, finish, chat, got>>, next' \in Nat, next <= next', again' \subseteq again,
         m < next' \/ m \in known[Current], r = "skipped" => m \notin retry[Current]
  PROVE  MemoryInv'
<1>1. PICK c \in Chats : c = Current
  BY ReadingFacts
<1>2. status \in [Chats -> [Messages -> Statuses]] /\ chat \in Nat \ {0} /\ pos \in [Chats -> Nat]
  BY ReadingFacts DEF HistoryInv, MemoryInv, MemoryTypeOK, Up
<1>3. status' \in [Chats -> [Messages -> Statuses]]
  BY <1>1, <1>2 DEF Statuses
<1>4. MemoryTypeOK' /\ RetriesKnown' /\ Keys(config)' = Keys(config)
        /\ retry' = retry /\ known' = known
  BY <1>2, <1>3, StillKeeps
<1>5. /\ \A e \in Chats \ {c} : status'[e] = status[e]
      /\ \A l \in Messages \ {m} : status'[c][l] = status[c][l]
      /\ status'[c][m] = r
  BY <1>1, <1>2
<1>6. Current' = Current /\ chat' = chat /\ got' = got
  BY <1>4 DEF Current
<1>7. OnlyConfigured'
  <2>1. \E n \in DOMAIN Keys(config) : Keys(config)[n] = c
    BY <1>1, ReadingFacts DEF Current
  <2> QED
    BY <1>4, <1>5, <2>1 DEF HistoryInv, MemoryInv, OnlyConfigured
<1>8. StatusTells'
  <2> SUFFICES ASSUME NEW e \in Chats, NEW l \in Messages
               PROVE  /\ status'[e][l] = "done" => <<e, l>> \in got'
                      /\ status'[e][l] = "skipped" => l \notin retry'[e]
                      /\ l \in retry'[e] => l \in known'[e] \/ status'[e][l] # "none"
    BY DEF StatusTells
  <2>1. CASE e = c /\ l = m
    BY <1>1, <1>4, <1>5, <2>1
  <2>2. CASE ~(e = c /\ l = m)
    <3>1. status'[e][l] = status[e][l]
      BY <1>5, <2>2
    <3> QED
      BY <1>4, <1>6, <3>1 DEF HistoryInv, MemoryInv, StatusTells
  <2> QED
    BY <2>1, <2>2
<1>9. Cursor'
  <2>1. Cursor /\ chat \in DOMAIN Keys(config) /\ chat \in Nat
    BY <1>2, ReadingFacts DEF HistoryInv, MemoryInv
  <2>2. \A n \in DOMAIN Keys(config) : n > chat => status'[Keys(config)[n]] = Unread
    BY <1>1, <1>2, <1>5, <2>1, ReadingFacts DEF Cursor
  <2>3. \A l \in Messages :
          status'[c][l] # "none" => l < next' \/ l \in known[c]
    <3> SUFFICES ASSUME NEW l \in Messages, status'[c][l] # "none", l # m
                 PROVE  l < next' \/ l \in known[c]
      BY <1>1
    <3>1. l < next \/ l \in known[c]
      BY <1>1, <1>5, <2>1 DEF Cursor
    <3>2. next \in Nat /\ l \in Nat
      BY <2>1, HistoryAssumption DEF Cursor, Messages
    <3> QED
      BY <3>1, <3>2
  <2>4. again' \subseteq known[c]
    BY <1>1, <2>1 DEF Cursor
  <2> QED
    BY <1>1, <1>4, <1>6, <2>2, <2>3, <2>4 DEF Cursor
<1> QED
  BY <1>4, <1>7, <1>8, <1>9 DEF MemoryInv

(* A message under way ends.                                               *)
LEMMA ResultKeeps ==
  ASSUME HistoryInv, Running, Still, NEW c \in Chats, NEW m \in Messages,
         NEW r \in {"done", "failed"}, status[c][m] = "downloading",
         status' = [status EXCEPT ![c][m] = r], got \subseteq got',
         r = "done" => <<c, m>> \in got', pos' \in [Chats -> Nat], UNCHANGED <<chat, again, next>>
  PROVE  MemoryInv'
<1>2. status \in [Chats -> [Messages -> Statuses]] /\ chat \in Nat \ {0}
  BY DEF HistoryInv, MemoryInv, MemoryTypeOK, Up, Running
<1>3. status' \in [Chats -> [Messages -> Statuses]]
  BY <1>2 DEF Statuses
<1>4. MemoryTypeOK' /\ RetriesKnown' /\ Keys(config)' = Keys(config)
        /\ retry' = retry /\ known' = known
  BY <1>2, <1>3, StillKeeps
<1>5. /\ \A e \in Chats \ {c} : status'[e] = status[e]
      /\ \A l \in Messages \ {m} : status'[c][l] = status[c][l]
      /\ status'[c][m] = r
  BY <1>2
<1>6. Current' = Current
  BY <1>4 DEF Current
<1>7. status[c] # Unread
  BY DEF Unread
<1>8. OnlyConfigured'
  BY <1>4, <1>5, <1>7 DEF HistoryInv, MemoryInv, OnlyConfigured
<1>9. StatusTells'
  <2> SUFFICES ASSUME NEW e \in Chats, NEW l \in Messages
               PROVE  /\ status'[e][l] = "done" => <<e, l>> \in got'
                      /\ status'[e][l] = "skipped" => l \notin retry'[e]
                      /\ l \in retry'[e] => l \in known'[e] \/ status'[e][l] # "none"
    BY DEF StatusTells
  <2>1. CASE e = c /\ l = m
    BY <1>4, <1>5, <2>1
  <2>2. CASE ~(e = c /\ l = m)
    <3>1. status'[e][l] = status[e][l]
      BY <1>5, <2>2
    <3> QED
      BY <1>4, <3>1 DEF HistoryInv, MemoryInv, StatusTells
  <2> QED
    BY <2>1, <2>2
<1>10. Cursor'
  <2>1. Cursor
    BY DEF HistoryInv, MemoryInv
  <2>2. \A n \in DOMAIN Keys(config) :
          Keys(config)[n] \in Chats /\ (n > chat => Keys(config)[n] # c)
    <3>1. config \in Seq(ConfigEntry)
      BY DEF HistoryInv, MemoryInv, MemoryTypeOK, Saved
    <3>2. \A n \in DOMAIN Keys(config) : Keys(config)[n] \in Chats
      BY <3>1, KeysFacts
    <3> QED
      BY <1>7, <2>1, <3>2 DEF Cursor
  <2>3. \A n \in DOMAIN Keys(config) : n > chat => status'[Keys(config)[n]] = Unread
    BY <1>5, <2>1, <2>2 DEF Cursor
  <2>4. \A e \in Chats, l \in Messages : status'[e][l] # "none" => status[e][l] # "none"
    BY <1>5
  <2>5. chat \in DOMAIN Keys(config) => Current \in Chats
    BY <2>2 DEF Current
  <2> QED
    BY <1>4, <1>6, <2>1, <2>3, <2>4, <2>5 DEF Cursor
<1> QED
  BY <1>4, <1>8, <1>9, <1>10 DEF MemoryInv

(* The next message of the history is enqueued, skipped by the filter, or  *)
(* left to the retries it was loaded among.                                *)
LEMMA ReadMessageKeeps ==
  ASSUME HistoryInv, ReadMessage
  PROVE  MemoryInv'
<1> DEFINE m == IF next = 0 THEN 1 ELSE next
<1>1. Reading /\ Still /\ UNCHANGED <<pos, finish, chat, again, got>> /\ m \in Messages /\ next' = m + 1
  BY DEF ReadMessage
<1>2. Cursor /\ StatusTells /\ chat \in DOMAIN Keys(config) /\ Current \in Chats
  BY <1>1, ReadingFacts DEF HistoryInv, MemoryInv
<1>3. next \in Nat /\ m \in Nat /\ next <= m /\ next' \in Nat /\ m < next'
  BY <1>1, <1>2, HistoryAssumption DEF Cursor, Messages
<1>4. PICK l \in Messages : l = m
  BY <1>1
<1>5. CASE m \in known[Current]
  <2>1. status' = status
    BY <1>5 DEF ReadMessage
  <2>2. /\ status \in [Chats -> [Messages -> Statuses]] /\ chat \in Nat \ {0}
        /\ pos \in [Chats -> Nat]
    BY <1>1, ReadingFacts DEF HistoryInv, MemoryInv, MemoryTypeOK, Up
  <2>3. MemoryTypeOK' /\ RetriesKnown' /\ Keys(config)' = Keys(config)
          /\ retry' = retry /\ known' = known
    BY <1>1, <2>1, <2>2, StillKeeps
  <2>4. Current' = Current
    BY <1>1, <2>3 DEF Current
  <2>5. OnlyConfigured' /\ StatusTells'
    BY <1>1, <2>1, <2>3 DEF HistoryInv, MemoryInv, OnlyConfigured, StatusTells
  <2>6. Cursor'
    <3>1. \A k \in Messages :
            status[Current][k] # "none" => k < next' \/ k \in known[Current]
      <4> SUFFICES ASSUME NEW k \in Messages, k < next PROVE k < next'
        BY <1>2 DEF Cursor
      <4>1. k \in Nat
        BY HistoryAssumption DEF Messages
      <4> QED
        BY <1>3, <4>1
    <3> QED
      BY <1>1, <1>2, <1>3, <2>1, <2>3, <2>4, <3>1 DEF Cursor
  <2> QED
    BY <2>3, <2>5, <2>6 DEF MemoryInv
<1>6. CASE m \notin known[Current]
  <2>1. \E r \in {"downloading", "skipped"} : status' = [status EXCEPT ![Current][l] = r]
    BY <1>4, <1>6 DEF ReadMessage, Enqueue
  <2>2. PICK r \in {"downloading", "skipped"} : status' = [status EXCEPT ![Current][l] = r]
    BY <2>1
  <2>3. l \notin retry[Current]
    <3>1. status[Current][l] = "none"
      BY <1>2, <1>3, <1>4, <1>6 DEF Cursor
    <3> QED
      BY <1>2, <1>4, <1>6, <3>1 DEF StatusTells
  <2>4. l < next' /\ next <= next'
    BY <1>3, <1>4
  <2> HIDE DEF m
  <2> QED
    BY <1>1, <1>3, <2>2, <2>3, <2>4, TouchKeeps
<1> QED
  BY <1>5, <1>6

(* A message to be retried was loaded as such or enqueued by this process  *)
(* before the chat was reached.                                            *)
LEMMA EnqueueAgainKeeps ==
  ASSUME HistoryInv, NEW m \in Messages, EnqueueAgain(m)
  PROVE  MemoryInv'
<1>1. /\ Reading /\ m \in again /\ status' = [status EXCEPT ![Current][m] = "downloading"]
      /\ again' = again \ {m} /\ Still /\ UNCHANGED <<pos, finish, chat, next, got>>
  BY DEF EnqueueAgain, Enqueue
<1>2. m \in known[Current] /\ next \in Nat
  BY <1>1, ReadingFacts DEF HistoryInv, MemoryInv, Cursor
<1>3. next' \in Nat /\ next <= next' /\ again' \subseteq again
  BY <1>1, <1>2
<1> QED
  BY <1>1, <1>2, <1>3, TouchKeeps

(* The next chat is still untouched, so its retries are the loaded ones.   *)
LEMMA NextChatKeeps ==
  ASSUME HistoryInv, NextChat
  PROVE  MemoryInv'
<1>1. /\ Reading /\ chat' = chat + 1 /\ Still /\ UNCHANGED <<pos, finish, status, got>>
      /\ LET c == IF chat' <= Len(Keys(config)) THEN Keys(config)[chat'] ELSE Current
         IN again' = retry[c] /\ next' = pos[c]
  BY DEF NextChat
<1>2. /\ status \in [Chats -> [Messages -> Statuses]] /\ chat \in Nat \ {0}
      /\ pos \in [Chats -> Nat]
  BY <1>1, ReadingFacts DEF HistoryInv, MemoryInv, MemoryTypeOK, Up
<1>3. MemoryTypeOK' /\ RetriesKnown' /\ Keys(config)' = Keys(config)
        /\ retry' = retry /\ known' = known
  BY <1>1, <1>2, StillKeeps
<1>4. OnlyConfigured' /\ StatusTells'
  BY <1>1, <1>3 DEF HistoryInv, MemoryInv, OnlyConfigured, StatusTells
<1>5. Cursor /\ StatusTells
  BY DEF HistoryInv, MemoryInv
<1>6. \A n \in DOMAIN Keys(config) : n \in Nat /\ (n >= chat' => n > chat)
  BY <1>1, <1>2, ReadingFacts
<1>7. \A n \in DOMAIN Keys(config) : n > chat' => status[Keys(config)[n]] = Unread
  <2>1. \A n \in DOMAIN Keys(config) : n > chat' => n > chat
    BY <1>1, <1>2, <1>6
  <2> QED
    BY <1>5, <2>1 DEF Cursor
<1>8. ASSUME chat' \in DOMAIN Keys(config)
      PROVE  /\ next' \in Nat /\ again' \subseteq known[Current']
             /\ \A m \in Messages : status[Current'][m] = "none"
  <2>1. PICK c \in Chats : c = Keys(config)[chat']
    BY <1>1, <1>8, ReadingFacts
  <2>2. Current' = c
    BY <1>3, <2>1 DEF Current
  <2>3. again' = retry[c] /\ next' = pos[c]
    <3>1. chat' <= Len(Keys(config))
      BY <1>1, <1>8, ReadingFacts
    <3> QED
      BY <1>1, <2>1, <3>1
  <2>4. \A m \in Messages : status[c][m] = "none"
    <3>1. status[c] = Unread
      <4>1. chat' > chat
        BY <1>1, <1>2
      <4> QED
        BY <1>5, <1>8, <2>1, <4>1 DEF Cursor
    <3> QED
      BY <3>1 DEF Unread
  <2>5. retry[c] \subseteq known[c]
    <3>1. retry[c] \subseteq Messages
      BY DEF HistoryInv, MemoryInv, MemoryTypeOK
    <3> QED
      BY <1>5, <2>4, <3>1 DEF StatusTells
  <2> QED
    BY <1>2, <2>2, <2>3, <2>4, <2>5
<1>9. Cursor'
  BY <1>1, <1>3, <1>7, <1>8 DEF Cursor
<1> QED
  BY <1>3, <1>4, <1>9 DEF MemoryInv

(* set_download_id raises a position.                                      *)
LEMMA PositionType ==
  ASSUME HistoryInv, NEW c \in Chats, NEW m \in Messages, SetDownloadId(c, m)
  PROVE  pos' \in [Chats -> Nat]
<1>1. pos \in [Chats -> Nat] /\ m \in Nat
  BY HistoryAssumption DEF HistoryInv, MemoryInv, MemoryTypeOK, Messages
<1>2. PICK p \in Nat : p = pos[c]
  BY <1>1
<1>3. Max({p, m}) \in Nat
  BY <1>1, MaxOfTwo
<1>4. pos' = [pos EXCEPT ![c] = Max({p, m})]
  BY <1>2 DEF SetDownloadId
<1> QED
  BY <1>1, <1>3, <1>4

(* A finished message is downloaded, failed, or raised; only the first     *)
(* takes it from the retries.                                              *)
LEMMA FinishMessageKeeps ==
  ASSUME HistoryInv, NEW c \in Chats, NEW m \in Messages,
         Finish(c, m, "done") \/ Finish(c, m, "failed") \/ Raise(c, m)
  PROVE  MemoryInv'
<1>1. ASSUME NEW r \in {"done", "failed"}, Finish(c, m, r)
      PROVE  MemoryInv'
  <2>1. /\ Running /\ status[c][m] = "downloading" /\ SetDownloadId(c, m)
        /\ status' = [status EXCEPT ![c][m] = r]
        /\ got' = IF r = "failed" THEN got ELSE got \union {<<c, m>>}
        /\ Still /\ UNCHANGED <<chat, again, next>>
    BY <1>1 DEF Finish
  <2>2. got \subseteq got' /\ (r = "done" => <<c, m>> \in got')
    BY <2>1
  <2>3. pos' \in [Chats -> Nat]
    BY <2>1, PositionType
  <2> QED
    BY <2>1, <2>2, <2>3, ResultKeeps
<1>2. CASE Raise(c, m)
  <2>1. /\ Running /\ status[c][m] = "downloading"
        /\ status' = [status EXCEPT ![c][m] = "failed"]
        /\ Still /\ UNCHANGED <<pos, finish, chat, again, next, got>>
    BY <1>2 DEF Raise
  <2>2. pos' \in [Chats -> Nat]
    BY <2>1 DEF HistoryInv, MemoryInv, MemoryTypeOK
  <2> QED
    BY <2>1, <2>2, ResultKeeps
<1> QED
  BY <1>1, <1>2

(* A download for another task only raises the position and adds to what   *)
(* is got.                                                                 *)
LEMMA FinishOutsideKeeps ==
  ASSUME HistoryInv, NEW c \in Chats, NEW m \in Messages, FinishOutside(c, m)
  PROVE  MemoryInv'
<1>1. /\ Running /\ SetDownloadId(c, m) /\ got' = got \union {<<c, m>>}
      /\ Still /\ UNCHANGED <<status, chat, again, next>>
  BY DEF FinishOutside
<1>2. pos' \in [Chats -> Nat]
  BY <1>1, PositionType
<1>3. status' \in [Chats -> [Messages -> Statuses]] /\ chat' \in Nat \ {0}
  BY <1>1 DEF HistoryInv, MemoryInv, MemoryTypeOK, Up, Running
<1>4. MemoryTypeOK' /\ RetriesKnown' /\ Keys(config)' = Keys(config)
        /\ retry' = retry /\ known' = known
  BY <1>1, <1>2, <1>3, StillKeeps
<1>5. OnlyConfigured'
  BY <1>1, <1>4 DEF HistoryInv, MemoryInv, OnlyConfigured
<1>6. StatusTells'
  BY <1>1, <1>4 DEF HistoryInv, MemoryInv, StatusTells
<1>7. Current' = Current
  BY <1>1, <1>4 DEF Current
<1>8. Cursor'
  BY <1>1, <1>4, <1>7 DEF HistoryInv, MemoryInv, Cursor
<1> QED
  BY <1>4, <1>5, <1>6, <1>8 DEF MemoryInv

(* update_config begins a write of a value that is one of those the files  *)
(* may hold, and that tells the unfinished messages.                       *)
LEMMA UpdateOffers ==
  ASSUME HistoryInv, UpdateConfig
  PROVE  /\ <<config', appdata'>> \in Saved /\ offer' = <<config', appdata'>>
         /\ Keys(config') = Keys(config)
         /\ retry' = [c \in Chats |-> Unfinished(c)]
         /\ \A c \in Chats : SavedRetry(<<config', appdata'>>, c) = Unfinished(c)
<1>1. PICK u : u = [c \in Chats |-> Unfinished(c)]
  OBVIOUS
<1>2. u \in [Chats -> SUBSET Messages] /\ \A c \in Chats : u[c] = Unfinished(c)
  BY <1>1 DEF Unfinished
<1>3. \A c \in Chats : (\A n \in DOMAIN Keys(config) : Keys(config)[n] # c) => u[c] = {}
  <2> SUFFICES ASSUME NEW c \in Chats, \A n \in DOMAIN Keys(config) : Keys(config)[n] # c
               PROVE  u[c] = {}
    OBVIOUS
  <2>1. retry[c] = {} /\ status[c] = Unread
    BY DEF HistoryInv, MemoryInv, OnlyConfigured
  <2>2. \A m \in Messages : status[c][m] = "none"
    BY <2>1 DEF Unread
  <2> QED
    BY <1>2, <2>1, <2>2 DEF Unfinished
<1>4. <<config, appdata>> \in Saved /\ pos \in [Chats -> Nat]
  BY DEF HistoryInv, MemoryInv, MemoryTypeOK
<1>5. /\ <<UpdatedConfig, UpdatedAppData(u)>> \in Saved
      /\ Keys(UpdatedConfig) = Keys(config)
      /\ \A c \in Chats : SavedRetry(<<UpdatedConfig, UpdatedAppData(u)>>, c) = u[c]
  BY <1>2, <1>3, <1>4, UpdateSaves
<1>6. config' = UpdatedConfig /\ appdata' = UpdatedAppData(u) /\ retry' = u
        /\ offer' = <<config', appdata'>>
  BY <1>1 DEF UpdateConfig, Begin
<1> QED
  BY <1>1, <1>2, <1>5, <1>6

(* What is no longer to be retried after update_config has been            *)
(* downloaded: it is neither under way nor failed, and was not skipped.    *)
LEMMA UpdateConfigKeeps ==
  ASSUME HistoryInv, UpdateConfig
  PROVE  MemoryInv'
<1>1. /\ step = "idle" /\ step' = "recover" /\ durable' = durable
      /\ UNCHANGED <<pos, finish, known, status, chat, again, next, got>>
  BY DEF UpdateConfig, Begin
<1>2. /\ <<config', appdata'>> \in Saved /\ offer' = <<config', appdata'>>
      /\ Keys(config)' = Keys(config)
      /\ retry' = [c \in Chats |-> Unfinished(c)]
      /\ \A c \in Chats : SavedRetry(offer', c) = retry'[c]
  BY UpdateOffers
<1>3. /\ \A c \in Chats : retry'[c] = Unfinished(c) /\ Unfinished(c) \subseteq Messages
      /\ retry' \in [Chats -> SUBSET Messages]
  BY <1>2 DEF Unfinished
<1>4. StatusTells /\ OnlyConfigured /\ MemoryTypeOK /\ RetriesKnown /\ Cursor
  BY DEF HistoryInv, MemoryInv
<1>5. Reads(durable)' = Reads(durable) /\ Current' = Current
  BY <1>1, <1>2 DEF Reads, Current
<1>6. MemoryTypeOK'
  BY <1>1, <1>2, <1>3, <1>4, <1>5 DEF MemoryTypeOK, Up
<1>7. RetriesKnown'
  <2>1. ASSUME NEW c \in Chats
        PROVE  OnDisk(c)' \subseteq retry'[c] \union GotOf(c)'
    <3>1. OnDisk(c) \subseteq retry[c] \union GotOf(c)
      BY <1>1, <1>4 DEF RetriesKnown, Up
    <3>2. OnDisk(c)' = OnDisk(c) /\ GotOf(c)' = GotOf(c)
      BY <1>1, <1>5 DEF OnDisk, SavedRetry, Entries, LastEntry, GotOf
    <3>3. \A m \in Messages : m \in retry[c] => m \in Unfinished(c) \/ m \in GotOf(c)
      BY <1>4 DEF StatusTells, Unfinished, GotOf
    <3>4. retry[c] \subseteq Messages
      BY <1>4 DEF MemoryTypeOK
    <3> QED
      BY <1>3, <3>1, <3>2, <3>3, <3>4
  <2>2. \A c \in Chats : SavedRetry(offer, c)' = SavedRetry(offer', c)
    BY DEF SavedRetry, Entries, LastEntry
  <2> QED
    BY <1>2, <2>1, <2>2 DEF RetriesKnown
<1>8. OnlyConfigured'
  <2> SUFFICES ASSUME NEW c \in Chats, \A n \in DOMAIN Keys(config) : Keys(config)[n] # c
               PROVE  retry'[c] = {} /\ status'[c] = Unread
    BY <1>2 DEF OnlyConfigured
  <2>1. retry[c] = {} /\ status[c] = Unread
    BY <1>4 DEF OnlyConfigured
  <2>2. \A m \in Messages : status[c][m] = "none"
    BY <2>1 DEF Unread
  <2> QED
    BY <1>1, <1>3, <2>1, <2>2 DEF Unfinished
<1>9. StatusTells'
  <2> SUFFICES ASSUME NEW c \in Chats, NEW m \in Messages
               PROVE  /\ status'[c][m] = "done" => <<c, m>> \in got'
                      /\ status'[c][m] = "skipped" => m \notin retry'[c]
                      /\ m \in retry'[c] => m \in known'[c] \/ status'[c][m] # "none"
    BY DEF StatusTells
  <2>1. /\ status[c][m] = "done" => <<c, m>> \in got
        /\ m \in retry[c] => m \in known[c] \/ status[c][m] # "none"
    BY <1>4 DEF StatusTells
  <2>2. (m \in retry'[c])
          <=> (\/ status[c][m] \in {"downloading", "failed"}
               \/ m \in retry[c] /\ status[c][m] \notin {"done", "skipped"})
    BY <1>3 DEF Unfinished
  <2> QED
    BY <1>1, <2>1, <2>2
<1>10. Cursor'
  BY <1>1, <1>2, <1>4, <1>5 DEF Cursor
<1> QED
  BY <1>6, <1>7, <1>8, <1>9, <1>10 DEF MemoryInv

(* Every step of the download of the chats is, for the two files, one of   *)
(* those of ConfigPair or none.                                            *)
LEMMA HistoryUsesPairStep ==
  ASSUME Values = Saved, HistoryInv, [Next]_vars
  PROVE  [PairNext]_pairVars
<1>2. CASE UpdateConfig
  <2>1. <<config', appdata'>> \in Values /\ Begin(<<config', appdata'>>)
    BY <1>2, UpdateOffers DEF UpdateConfig
  <2> QED
    BY <2>1 DEF PairNext
<1>3. CASE \/ \E m \in Messages : EnqueueAgain(m)
           \/ ReadMessage \/ NextChat
           \/ \E c \in Chats, m \in Messages :
                \/ Finish(c, m, "done") \/ Finish(c, m, "failed")
                \/ Raise(c, m) \/ FinishOutside(c, m)
  BY <1>3 DEF EnqueueAgain, ReadMessage, NextChat, Finish, Raise, FinishOutside, Still
<1>4. CASE Start \/ Write \/ Fail \/ Recovered("load") \/ Stop \/ Crash
  BY <1>4 DEF PairNext
<1>5. CASE UNCHANGED vars
  BY <1>5 DEF vars
<1> QED
  BY <1>2, <1>3, <1>4, <1>5 DEF Next, Load, SaveSettings, Shutdown

(* One step of the run per conjunct of the memory; the two files keep      *)
(* theirs.                                                                 *)
LEMMA StepHistoryInv ==
  ASSUME Values = Saved, ~LateFailures
  PROVE  HistoryInv /\ [Next]_vars => HistoryInv'
<1> SUFFICES ASSUME HistoryInv, [Next]_vars PROVE HistoryInv'
  OBVIOUS
<1>1. [PairNext]_pairVars
  BY HistoryUsesPairStep
<1>2. PairInv'
  BY <1>1, StepPairInv DEF HistoryInv
<1>3. MemoryInv'
  <2>1. CASE (Start \/ Write \/ Fail) /\ UNCHANGED <<memory, got, saves>>
    BY <1>1, <2>1, PairStepKeeps
  <2>2. CASE Load
    BY <2>2, LoadKeeps
  <2>3. CASE ((Stop /\ leaving) \/ Crash) /\ Forget
    BY <1>1, <2>3, ForgetKeeps DEF Stop, Crash
  <2>4. CASE \E m \in Messages : EnqueueAgain(m)
    BY <2>4, EnqueueAgainKeeps
  <2>5. CASE ReadMessage \/ NextChat
    BY <2>5, ReadMessageKeeps, NextChatKeeps
  <2>6. CASE \E c \in Chats, m \in Messages :
               \/ Finish(c, m, "done") \/ Finish(c, m, "failed")
               \/ Raise(c, m) \/ FinishOutside(c, m)
    BY <2>6, FinishMessageKeeps, FinishOutsideKeeps
  <2>7. CASE UpdateConfig
    BY <2>7, UpdateConfigKeeps
  <2>8. CASE UNCHANGED vars
    <3>1. /\ step' = step /\ durable' = durable /\ offer' = offer
          /\ config' = config /\ appdata' = appdata /\ pos' = pos /\ retry' = retry
          /\ known' = known /\ status' = status /\ chat' = chat /\ again' = again
          /\ next' = next /\ got' = got
      BY <2>8 DEF vars, pairVars, process, memory
    <3>2. Reads(durable)' = Reads(durable) /\ Keys(config)' = Keys(config) /\ Current' = Current
      BY <3>1 DEF Reads, Current
    <3>3. \A c \in Chats : /\ OnDisk(c)' = OnDisk(c) /\ GotOf(c)' = GotOf(c)
                          /\ SavedRetry(offer, c)' = SavedRetry(offer, c)
      BY <3>1, <3>2 DEF OnDisk, SavedRetry, Entries, LastEntry, GotOf
    <3>4. MemoryTypeOK' /\ RetriesKnown'
      BY <3>1, <3>2, <3>3 DEF HistoryInv, MemoryInv, MemoryTypeOK, RetriesKnown
    <3>5. OnlyConfigured' /\ StatusTells' /\ Cursor'
      BY <3>1, <3>2 DEF HistoryInv, MemoryInv, OnlyConfigured, StatusTells, Cursor
    <3> QED
      BY <3>4, <3>5 DEF MemoryInv
  <2> QED
    BY <2>1, <2>2, <2>3, <2>4, <2>5, <2>6, <2>7, <2>8 DEF Next, SaveSettings, Shutdown
<1> QED
  BY <1>2, <1>3 DEF HistoryInv

-----------------------------------------------------------------------------
(* download_all_chat, the workers and update_config, with every crash and  *)
(* restart between them, write the two files as ConfigPair does: it holds  *)
(* of them that a start recovers one generation.                           *)
THEOREM HistoryUsesPair ==
  ASSUME Values = Saved, ~LateFailures
  PROVE  Spec => PairSpec
<1>1. HistoryInit => PairInit
  BY DEF HistoryInit
<1>2. HistoryInit => HistoryInv
  BY InitHistoryInv
<1>3. HistoryInv /\ [Next]_vars => HistoryInv'
  BY StepHistoryInv
<1>4. HistoryInv /\ [Next]_vars => [PairNext]_pairVars
  BY HistoryUsesPairStep
<1> QED
  BY <1>1, <1>2, <1>3, <1>4, PTL DEF Spec, PairSpec

(* And so whatever is downloaded, saved or interrupted, a start finds      *)
(* files it can recover, and of one generation.                            *)
THEOREM HistoryRecovers ==
  ASSUME Values = Saved, ~LateFailures
  PROVE  Spec => []AlwaysRecoverable /\ KeepsGeneration
BY HistoryUsesPair, PairRecoverable, PairKeepsGeneration

(* What the files say is to be retried: the message leaves them only once  *)
(* it was downloaded, whatever settings are saved, processes end and       *)
(* writes fail in between, and in whatever order workers finish.           *)
THEOREM RetriesStay ==
  ASSUME Values = Saved, ~LateFailures
  PROVE  Spec => RetriedUntilDone
<1> DEFINE A == \A c \in Chats :
              SavedRetry(Reads(durable), c) \ SavedRetry(Reads(durable'), c)
                \subseteq {m \in Messages : <<c, m>> \in got}
<1>1. HistoryInit => HistoryInv
  BY InitHistoryInv
<1>2. HistoryInv /\ [Next]_vars => HistoryInv'
  BY StepHistoryInv
<1>3. HistoryInv /\ [Next]_vars => A
  <2> SUFFICES ASSUME HistoryInv, [Next]_vars, NEW c \in Chats
               PROVE  SavedRetry(Reads(durable), c) \ SavedRetry(Reads(durable'), c)
                        \subseteq {m \in Messages : <<c, m>> \in got}
    OBVIOUS
  <2>1. Reads(durable)' = Reads(durable')
    BY DEF Reads
  <2>2. \/ Reads(durable') = Reads(durable)
        \/ step = "journal" /\ Reads(durable') = offer
    BY <2>1, HistoryUsesPairStep, OnDiskMoves DEF HistoryInv
  <2>3. CASE step = "journal" /\ Reads(durable') = offer
    <3>1. SavedRetry(offer, c) = retry[c]
      BY <2>3 DEF HistoryInv, MemoryInv, RetriesKnown, Writing
    <3>2. SavedRetry(Reads(durable), c) \subseteq retry[c] \union GotOf(c)
      BY <2>3 DEF HistoryInv, MemoryInv, RetriesKnown, Up, OnDisk
    <3> QED
      BY <2>3, <3>1, <3>2 DEF GotOf
  <2> QED
    BY <2>2, <2>3
<1> QED
  BY <1>1, <1>2, <1>3, PTL DEF Spec, RetriedUntilDone

=============================================================================
