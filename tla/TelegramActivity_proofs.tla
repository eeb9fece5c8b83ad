----------------------- MODULE TelegramActivity_proofs -----------------------
(***************************************************************************)
(* The activity gate, for any finite sets of download intents and scans:   *)
(* its counters agree with its objects, a scan is alone, and it implements *)
(* ActivityPriority.                                                       *)
(***************************************************************************)
EXTENDS TelegramActivity, FiniteSetTheorems, TLAPS

(* The claims of a state are a finite set, whose cardinality is a natural  *)
(* number that is zero only when there are none.                           *)
LEMMA ClaimsFinite ==
  ASSUME NEW state
  PROVE  /\ IsFiniteSet(Claims(state))
         /\ Cardinality(Claims(state)) \in Nat
         /\ Cardinality(Claims(state)) = 0 => Claims(state) = {}
<1>1. Claims(state) \in SUBSET Intents
  BY DEF Claims
<1>2. IsFiniteSet(Claims(state))
  BY <1>1, FS_Subset, ActivityAssumption
<1>3. QED
  BY <1>2, FS_CardinalityType, FS_EmptySet

(* A claim that appears, or disappears, moves the count by one.            *)
LEMMA ClaimAdded ==
  ASSUME NEW state, NEW i, i \notin Claims(state),
         Claims(state)' = Claims(state) \union {i}
  PROVE  Cardinality(Claims(state))' = Cardinality(Claims(state)) + 1
BY ClaimsFinite, FS_AddElement

LEMMA ClaimDropped ==
  ASSUME NEW state, NEW i, i \in Claims(state),
         Claims(state)' = Claims(state) \ {i}
  PROVE  /\ Cardinality(Claims(state))' = Cardinality(Claims(state)) - 1
         /\ Cardinality(Claims(state)) # 0
<1>1. Cardinality(Claims(state)) # 0
  BY ClaimsFinite
<1>2. QED
  BY <1>1, ClaimsFinite, FS_RemoveElement

-----------------------------------------------------------------------------
LEMMA InitIInv == Init => IInv
<1> SUFFICES ASSUME Init PROVE IInv
  OBVIOUS
<1>1. TypeOK
  BY DEF Init, TypeOK
<1>2. Claims("waiting") = {} /\ Claims("active") = {}
  BY DEF Init, Claims
<1>3. CountersAgree
  BY <1>2, FS_EmptySet DEF Init, CountersAgree
<1>4. GateConsistent
  BY DEF Init, GateConsistent, Owners
<1>5. QED
  BY <1>1, <1>3, <1>4 DEF IInv

(* Waking changes who sleeps and nothing else about a function.            *)
LEMMA WakeType ==
  /\ TypeOK => Wake(caller) \in [Intents -> {"no", "sleeping", "woken"}]
  /\ TypeOK => Wake(scanner) \in
       [Scanners -> {"idle", "sleeping", "woken", "holding", "releasing"}]
  /\ TypeOK => \A s \in Scanners : \A state \in {"idle", "holding", "releasing"} :
       Wake(scanner)[s] = state <=> scanner[s] = state
BY DEF TypeOK, Wake

(* The steps in which a waiting claim becomes an active one.               *)
LEMMA BecomeActiveIInv ==
  ASSUME IInv, NEW i \in Intents, intent[i] = "waiting", ~scanActive, BecomeActive(i)
  PROVE  IInv'
<1> USE DEF IInv
<1>1. Claims("waiting")' = Claims("waiting") \ {i} /\ i \in Claims("waiting")
  BY DEF BecomeActive, Claims, TypeOK, GateConsistent
<1>2. Claims("active")' = Claims("active") \union {i} /\ i \notin Claims("active")
  BY DEF BecomeActive, Claims, TypeOK, GateConsistent
<1>3. CountersAgree'
  BY <1>1, <1>2, ClaimAdded, ClaimDropped DEF CountersAgree, BecomeActive
<1>4. TypeOK'
  BY <1>1, ClaimDropped, ClaimsFinite DEF TypeOK, BecomeActive, CountersAgree
<1>5. GateConsistent'
  BY DEF GateConsistent, BecomeActive, TypeOK, Owners
<1>6. QED
  BY <1>3, <1>4, <1>5

(* Steps that touch neither the objects' states nor the counters.          *)
LEMMA ClaimsUnchanged ==
  ASSUME CountersAgree, UNCHANGED <<intent, settling, counters>>
  PROVE  CountersAgree'
BY DEF CountersAgree, Claims, counters

LEMMA FallAsleepIInv ==
  ASSUME IInv, NEW i \in Intents, FallAsleep(i)
  PROVE  IInv'
<1>1. CountersAgree'
  BY ClaimsUnchanged DEF IInv, FallAsleep
<1>2. TypeOK'
  BY DEF IInv, TypeOK, FallAsleep, counters
<1>3. GateConsistent'
  BY DEF IInv, GateConsistent, FallAsleep, Owners
<1>4. QED
  BY <1>1, <1>2, <1>3 DEF IInv

LEMMA DownloadIInv ==
  ASSUME IInv, NEW i \in Intents, Download(i)
  PROVE  IInv'
<1> USE DEF IInv
<1>1. CASE Register(i)
  <2>1. Claims("waiting")' = Claims("waiting") \union {i} /\ i \notin Claims("waiting")
    BY <1>1 DEF Register, Claims, TypeOK
  <2>2. Claims("active")' = Claims("active")
    BY <1>1 DEF Register, Claims, TypeOK
  <2>3. CountersAgree'
    BY <1>1, <2>1, <2>2, ClaimAdded DEF CountersAgree, Register
  <2>4. TypeOK'
    BY <1>1, WakeType DEF TypeOK, Register, NotifyAll, NotifyScanners
  <2>5. Owners' = Owners
    BY <1>1, WakeType DEF Owners, Register, NotifyAll, NotifyScanners
  <2>6. GateConsistent'
    BY <1>1, <2>5 DEF GateConsistent, Register, TypeOK
  <2>7. QED
    BY <2>3, <2>4, <2>6
<1>2. CASE Activate(i)
  BY <1>2, BecomeActiveIInv, FallAsleepIInv DEF Activate
<1>3. CASE Reevaluate(i)
  <2>1. CASE intent[i] # "waiting"
    <3>1. /\ caller' = [caller EXCEPT ![i] = "no"]
          /\ UNCHANGED <<intent, settling, counters, scanActive, scanner>>
      BY <1>3, <2>1 DEF Reevaluate
    <3>2. CountersAgree'
      BY <3>1, ClaimsUnchanged
    <3>3. TypeOK'
      BY <3>1 DEF TypeOK, counters
    <3>4. GateConsistent'
      BY <3>1 DEF GateConsistent, Owners
    <3>5. QED
      BY <3>2, <3>3, <3>4
  <2>2. CASE intent[i] = "waiting" /\ scanActive
    BY <1>3, <2>2, FallAsleepIInv DEF Reevaluate
  <2>3. CASE intent[i] = "waiting" /\ ~scanActive
    BY <1>3, <2>3, BecomeActiveIInv DEF Reevaluate
  <2>4. QED
    BY <2>1, <2>2, <2>3
<1>4. CASE AbandonActivate(i)
  <2>1. CASE /\ intent[i] = "waiting"
             /\ waitingDownloads' = waitingDownloads - 1
             /\ intent' = [intent EXCEPT ![i] = "released"]
             /\ caller' = [Wake(caller) EXCEPT ![i] = "no"]
             /\ NotifyScanners
    <3>1. /\ Claims("waiting")' = Claims("waiting") \ {i} /\ i \in Claims("waiting")
          /\ Claims("active")' = Claims("active")
      BY <1>4, <2>1 DEF AbandonActivate, Claims, TypeOK, GateConsistent
    <3>2. CountersAgree'
      BY <1>4, <2>1, <3>1, ClaimDropped DEF CountersAgree, AbandonActivate
    <3>3. TypeOK'
      BY <1>4, <2>1, <3>1, ClaimDropped, ClaimsFinite, WakeType
      DEF TypeOK, AbandonActivate, CountersAgree, NotifyScanners
    <3>4. Owners' = Owners
      BY <2>1, WakeType DEF Owners, NotifyScanners
    <3>5. GateConsistent'
      BY <1>4, <2>1, <3>4 DEF GateConsistent, AbandonActivate, TypeOK
    <3>6. QED
      BY <3>2, <3>3, <3>5
  <2>2. CASE /\ intent[i] # "waiting"
             /\ caller' = [caller EXCEPT ![i] = "no"]
             /\ UNCHANGED <<intent, waitingDownloads, scanner>>
    <3>1. UNCHANGED <<intent, settling, counters, scanActive, scanner>>
      BY <1>4, <2>2 DEF AbandonActivate, counters
    <3>2. CountersAgree'
      BY <3>1, ClaimsUnchanged
    <3>3. TypeOK'
      BY <2>2, <3>1 DEF TypeOK, counters
    <3>4. GateConsistent'
      BY <3>1 DEF GateConsistent, Owners
    <3>5. QED
      BY <3>2, <3>3, <3>4
  <2>3. QED
    BY <1>4, <2>1, <2>2 DEF AbandonActivate
<1>5. CASE Release(i)
  <2>1. /\ Claims("waiting")' = Claims("waiting")
        /\ Claims("active")' = Claims("active")
    BY <1>5 DEF Release, Claims, TypeOK, GateConsistent
  <2>2. CountersAgree'
    BY <1>5, <2>1 DEF CountersAgree, Release, counters
  <2>3. TypeOK'
    BY <1>5 DEF TypeOK, Release, counters
  <2>4. GateConsistent'
    BY <1>5 DEF GateConsistent, Release, TypeOK, Owners
  <2>5. QED
    BY <2>2, <2>3, <2>4
<1>6. CASE SettleRelease(i)
  <2>1. Owners' = Owners
    BY <1>6, WakeType DEF Owners, SettleRelease, NotifyAll, NotifyScanners
  <2>2. GateConsistent'
    BY <1>6, <2>1 DEF GateConsistent, SettleRelease, TypeOK
  <2>3. CASE settling[i] = "waiting"
    <3>1. /\ Claims("waiting")' = Claims("waiting") \ {i} /\ i \in Claims("waiting")
          /\ Claims("active")' = Claims("active")
      BY <1>6, <2>3 DEF SettleRelease, Claims, TypeOK, GateConsistent
    <3>2. CountersAgree'
      BY <1>6, <2>3, <3>1, ClaimDropped DEF CountersAgree, SettleRelease
    <3>3. TypeOK'
      BY <1>6, <2>3, <3>1, ClaimDropped, ClaimsFinite, WakeType
      DEF TypeOK, SettleRelease, CountersAgree, NotifyAll, NotifyScanners
    <3>4. QED
      BY <2>2, <3>2, <3>3
  <2>4. CASE settling[i] = "active"
    <3>1. /\ Claims("active")' = Claims("active") \ {i} /\ i \in Claims("active")
          /\ Claims("waiting")' = Claims("waiting")
      BY <1>6, <2>4 DEF SettleRelease, Claims, TypeOK, GateConsistent
    <3>2. CountersAgree'
      BY <1>6, <2>4, <3>1, ClaimDropped DEF CountersAgree, SettleRelease
    <3>3. TypeOK'
      BY <1>6, <2>4, <3>1, ClaimDropped, ClaimsFinite, WakeType
      DEF TypeOK, SettleRelease, CountersAgree, NotifyAll, NotifyScanners
    <3>4. QED
      BY <2>2, <3>2, <3>3
  <2>5. QED
    BY <1>6, <2>3, <2>4 DEF SettleRelease, TypeOK
<1>7. QED
  BY <1>1, <1>2, <1>3, <1>4, <1>5, <1>6 DEF Download

LEMMA ScanIInv ==
  ASSUME IInv, NEW s \in Scanners, Scan(s)
  PROVE  IInv'
<1> USE DEF IInv
<1>1. CountersAgree'
  BY ClaimsUnchanged
  DEF Scan, AcquireScan, AbandonScan, ReleaseScan, SettleScan, downloads, counters
<1>2. CASE AcquireScan(s)
  <2>1. TypeOK'
    BY <1>2 DEF AcquireScan, TypeOK, downloads, counters
  <2>2. CASE ScanMayStart
    <3>1. Claims("active") = {}
      BY <2>2, ClaimsFinite DEF ScanMayStart, CountersAgree
    <3>2. Owners = {} /\ Owners' = {s} /\ scanActive'
      BY <1>2, <2>2 DEF AcquireScan, ScanMayStart, Owners, GateConsistent, TypeOK
    <3>3. GateConsistent'
      BY <1>2, <3>1, <3>2 DEF AcquireScan, GateConsistent, Claims, downloads
    <3>4. QED
      BY <1>1, <2>1, <3>3
  <2>3. CASE ~ScanMayStart
    <3>1. Owners' = Owners
      BY <1>2, <2>3 DEF AcquireScan, Owners, TypeOK
    <3>2. GateConsistent'
      BY <1>2, <2>3, <3>1 DEF AcquireScan, GateConsistent, downloads
    <3>3. QED
      BY <1>1, <2>1, <3>2
  <2>4. QED
    BY <2>2, <2>3
<1>3. CASE AbandonScan(s)
  <2>1. TypeOK' /\ Owners' = Owners
    BY <1>3 DEF AbandonScan, TypeOK, downloads, counters, Owners
  <2>2. GateConsistent'
    BY <1>3, <2>1 DEF AbandonScan, GateConsistent, downloads
  <2>3. QED
    BY <1>1, <2>1, <2>2
<1>4. CASE ReleaseScan(s)
  <2>1. TypeOK' /\ Owners' = Owners
    BY <1>4 DEF ReleaseScan, TypeOK, downloads, counters, Owners
  <2>2. GateConsistent'
    BY <1>4, <2>1 DEF ReleaseScan, GateConsistent, downloads
  <2>3. QED
    BY <1>1, <2>1, <2>2
<1>5. CASE SettleScan(s)
  <2>1. TypeOK'
    BY <1>5, WakeType DEF SettleScan, TypeOK, counters
  <2>2. Owners' = Owners \ {s} /\ Owners = {s}
    BY <1>5, WakeType DEF SettleScan, Owners, TypeOK, GateConsistent
  <2>3. GateConsistent'
    BY <1>5, <2>2 DEF SettleScan, GateConsistent
  <2>4. QED
    BY <1>1, <2>1, <2>3
<1>6. QED
  BY <1>2, <1>3, <1>4, <1>5 DEF Scan

LEMMA NextIInv == IInv /\ [Next]_vars => IInv'
<1> SUFFICES ASSUME IInv, [Next]_vars PROVE IInv'
  OBVIOUS
<1>1. CASE UNCHANGED vars
  BY <1>1 DEF IInv, TypeOK, CountersAgree, Claims, GateConsistent, Owners,
     vars, downloads, counters
<1>2. CASE Next
  BY <1>2, DownloadIInv, ScanIInv DEF Next
<1>3. QED
  BY <1>1, <1>2

LEMMA Invariance == Spec => []IInv
BY InitIInv, NextIInv, PTL DEF Spec

(* The gate's state always has its types; no counter is ever negative.     *)
THEOREM TypeCorrect == Spec => []TypeOK
<1>1. IInv => TypeOK
  BY DEF IInv
<1>2. QED
  BY <1>1, Invariance, PTL

(* The counters agree with the objects and the releases not yet settled,   *)
(* for any number of downloads and scans.                                  *)
THEOREM CountersCorrect == Spec => []CountersAgree
<1>1. IInv => CountersAgree
  BY DEF IInv
<1>2. QED
  BY <1>1, Invariance, PTL

(* A scan holds Telegram alone, whatever is cancelled or settled late.     *)
THEOREM ScanAlone == Spec => []ScanIsAlone
<1>1. IInv => ScanIsAlone
  BY DEF IInv, GateConsistent, ScanIsAlone, Owners, Holding
<1>2. QED
  BY <1>1, Invariance, PTL

-----------------------------------------------------------------------------
(* A step that leaves the objects' states and the permits alone leaves     *)
(* what ActivityPriority sees alone.                                       *)
LEMMA SeenUnchanged ==
  ASSUME UNCHANGED intent, UNCHANGED Holding
  PROVE  UNCHANGED Priority!vars
BY DEF Priority!vars, Claimed

LEMMA HoldingKept ==
  ASSUME TypeOK, NotifyScanners
  PROVE  UNCHANGED Holding
BY WakeType DEF Holding, NotifyScanners

LEMMA BecomeActiveRefines ==
  ASSUME IInv, NEW i \in Intents, intent[i] = "waiting", ~scanActive, BecomeActive(i)
  PROVE  Priority!Work(i)
<1>1. Holding = {} /\ Holding' = Holding
  BY DEF IInv, GateConsistent, Owners, Holding, BecomeActive
<1>2. Claimed[i] = "queued" /\ Claimed' = [Claimed EXCEPT ![i] = "working"]
  BY DEF Claimed, BecomeActive, IInv, TypeOK
<1>3. QED
  BY <1>1, <1>2 DEF Priority!Work

LEMMA WithdrawRefines ==
  ASSUME IInv, NEW i \in Intents, intent[i] \in {"waiting", "active"},
         intent' = [intent EXCEPT ![i] = "released"], UNCHANGED Holding
  PROVE  Priority!Withdraw(i)
<1>1. Claimed[i] # "none" /\ Claimed' = [Claimed EXCEPT ![i] = "none"]
  BY DEF Claimed, IInv, TypeOK
<1>2. QED
  BY <1>1 DEF Priority!Withdraw

LEMMA DownloadRefines ==
  ASSUME IInv, NEW i \in Intents, Download(i)
  PROVE  [Priority!Next]_(Priority!vars)
<1>1. CASE Register(i)
  <2>1. UNCHANGED Holding
    BY <1>1, HoldingKept DEF Register, NotifyAll, IInv
  <2>2. Claimed[i] = "none" /\ Claimed' = [Claimed EXCEPT ![i] = "queued"]
    BY <1>1 DEF Register, Claimed, IInv, TypeOK
  <2>3. Priority!Claim(i)
    BY <2>1, <2>2 DEF Priority!Claim
  <2>4. QED
    BY <2>3 DEF Priority!Next
<1>2. CASE Activate(i) \/ Reevaluate(i)
  <2>1. CASE intent[i] = "waiting" /\ ~scanActive
    <3>1. BecomeActive(i)
      BY <1>2, <2>1 DEF Activate, Reevaluate
    <3>2. QED
      BY <2>1, <3>1, BecomeActiveRefines DEF Priority!Next
  <2>2. CASE intent[i] # "waiting" \/ scanActive
    <3>1. UNCHANGED intent /\ UNCHANGED scanner
      BY <1>2, <2>2 DEF Activate, Reevaluate, FallAsleep
    <3>2. QED
      BY <3>1, SeenUnchanged DEF Holding
  <2>3. QED
    BY <2>1, <2>2
<1>3. CASE AbandonActivate(i)
  <2>1. CASE intent[i] = "waiting"
    <3>1. intent' = [intent EXCEPT ![i] = "released"] /\ NotifyScanners
      BY <1>3, <2>1 DEF AbandonActivate
    <3>2. UNCHANGED Holding
      BY <3>1, HoldingKept DEF IInv
    <3>3. QED
      BY <2>1, <3>1, <3>2, WithdrawRefines DEF Priority!Next
  <2>2. CASE intent[i] # "waiting"
    <3>1. UNCHANGED intent /\ UNCHANGED scanner
      BY <1>3, <2>2 DEF AbandonActivate
    <3>2. QED
      BY <3>1, SeenUnchanged DEF Holding
  <2>3. QED
    BY <2>1, <2>2
<1>4. CASE Release(i)
  <2>1. /\ intent[i] \in {"waiting", "active"}
        /\ intent' = [intent EXCEPT ![i] = "released"]
        /\ UNCHANGED Holding
    BY <1>4 DEF Release, Holding
  <2>2. QED
    BY <2>1, WithdrawRefines DEF Priority!Next
<1>5. CASE SettleRelease(i)
  <2>1. UNCHANGED intent /\ UNCHANGED Holding
    BY <1>5, HoldingKept DEF SettleRelease, NotifyAll, IInv
  <2>2. QED
    BY <2>1, SeenUnchanged
<1>6. QED
  BY <1>1, <1>2, <1>3, <1>4, <1>5 DEF Download

LEMMA ScanRefines ==
  ASSUME IInv, NEW s \in Scanners, Scan(s)
  PROVE  [Priority!Next]_(Priority!vars)
<1>0. Claimed' = Claimed /\ UNCHANGED intent
  BY DEF Scan, AcquireScan, AbandonScan, ReleaseScan, SettleScan, downloads, Claimed
<1>1. CASE AcquireScan(s) /\ ScanMayStart
  <2>1. Claims("waiting") = {} /\ Claims("active") = {}
    BY <1>1, ClaimsFinite DEF ScanMayStart, IInv, CountersAgree
  <2>2. \A i \in Intents : Claimed[i] = "none"
    BY <2>1 DEF Claims, Claimed
  <2>3. Holding = {} /\ Holding' = {s}
    BY <1>1 DEF AcquireScan, ScanMayStart, IInv, GateConsistent, TypeOK, Owners, Holding
  <2>4. Priority!BeginScan(s)
    BY <1>0, <2>2, <2>3 DEF Priority!BeginScan
  <2>5. QED
    BY <2>4 DEF Priority!Next
<1>2. CASE AcquireScan(s) /\ ~ScanMayStart
  <2>1. UNCHANGED Holding
    BY <1>2 DEF AcquireScan, IInv, TypeOK, Holding
  <2>2. QED
    BY <1>0, <2>1, SeenUnchanged
<1>3. CASE AbandonScan(s)
  <2>1. UNCHANGED Holding
    BY <1>3 DEF AbandonScan, IInv, TypeOK, Holding
  <2>2. QED
    BY <1>0, <2>1, SeenUnchanged
<1>4. CASE ReleaseScan(s)
  <2>1. Holding = {s} /\ Holding' = {}
    BY <1>4 DEF ReleaseScan, IInv, GateConsistent, TypeOK, Owners, Holding
  <2>2. Priority!EndScan(s)
    BY <1>0, <2>1 DEF Priority!EndScan
  <2>3. QED
    BY <2>2 DEF Priority!Next
<1>5. CASE SettleScan(s)
  <2>1. UNCHANGED Holding
    BY <1>5, WakeType DEF SettleScan, IInv, TypeOK, Holding
  <2>2. QED
    BY <1>0, <2>1, SeenUnchanged
<1>6. QED
  BY <1>1, <1>2, <1>3, <1>4, <1>5 DEF Scan

(* The gate implements ActivityPriority: downloads share Telegram, a scan  *)
(* has it alone, and no scan starts while a download is queued or working, *)
(* although the counters the gate decides on lag behind the objects.       *)
THEOREM GateKeepsPriority == Spec => KeepsPriority
<1>1. Init => Priority!Init
  <2> SUFFICES ASSUME Init PROVE Priority!Init
    OBVIOUS
  <2>1. Claimed = [i \in Intents |-> "none"] /\ Holding = {}
    BY DEF Init, Claimed, Holding
  <2>2. QED
    BY <2>1 DEF Priority!Init
<1>2. IInv /\ [Next]_vars => [Priority!Next]_(Priority!vars)
  <2> SUFFICES ASSUME IInv, [Next]_vars PROVE [Priority!Next]_(Priority!vars)
    OBVIOUS
  <2>1. CASE UNCHANGED vars
    BY <2>1, SeenUnchanged DEF vars, downloads, Holding
  <2>2. CASE Next
    BY <2>2, DownloadRefines, ScanRefines DEF Next
  <2>3. QED
    BY <2>1, <2>2
<1>3. QED
  BY <1>1, <1>2, Invariance, PTL DEF Spec, Priority!Spec, KeepsPriority
=============================================================================
