--------------------------- MODULE TelegramActivity ---------------------------
(***************************************************************************)
(* TelegramActivityGate (module/telegram_activity.py): one process-wide    *)
(* gate between downloads, which share Telegram, and library scans, which  *)
(* want it for themselves. A download registers an intent when it is       *)
(* queued and activates it when a worker takes it up.                      *)
(*                                                                         *)
(* All state sits behind one asyncio.Condition. A section between two      *)
(* awaits is one action. Releasing is in two steps: the object is marked   *)
(* at once, and a task scheduled on the loop adjusts the gate's counters   *)
(* later, so that the counters lag behind the objects.                     *)
(***************************************************************************)
EXTENDS Integers, FiniteSets

CONSTANTS
  Intents,   \* slots for DownloadIntent objects
  Scanners   \* tasks that take the scan permit

ASSUME ActivityAssumption == IsFiniteSet(Intents) /\ IsFiniteSet(Scanners)

VARIABLES
  intent,      \* intent[i]: DownloadIntent._state, "none" before the object exists
  caller,      \* caller[i]: the task in activate(): "no", "sleeping" or "woken"
  settling,    \* settling[i]: released_state of i's pending release_download task
  waitingDownloads,
  activeDownloads,
  scanActive,
  scanner      \* scanner[s]: where the scan task s stands

downloads == <<intent, caller, settling>>
counters == <<waitingDownloads, activeDownloads>>
vars == <<downloads, counters, scanActive, scanner>>

-----------------------------------------------------------------------------
Wake(f) == [x \in DOMAIN f |-> IF f[x] = "sleeping" THEN "woken" ELSE f[x]]

NotifyScanners == scanner' = Wake(scanner)

(* notify_all on the condition: every sleeping waiter evaluates again.     *)
NotifyAll ==
  /\ caller' = Wake(caller)
  /\ NotifyScanners

-----------------------------------------------------------------------------
(* register_download_intent. A slot is used again once nothing refers to   *)
(* the released object any more.                                           *)
Register(i) ==
  /\ intent[i] \in {"none", "released"}
  /\ caller[i] = "no" /\ settling[i] = "no"
  /\ intent' = [intent EXCEPT ![i] = "waiting"]
  /\ waitingDownloads' = waitingDownloads + 1
  /\ NotifyAll
  /\ UNCHANGED <<settling, activeDownloads, scanActive>>

(* The end of _activate_download: the waiting claim becomes an active one. *)
BecomeActive(i) ==
  /\ intent' = [intent EXCEPT ![i] = "active"]
  /\ caller' = [caller EXCEPT ![i] = "no"]
  /\ waitingDownloads' = waitingDownloads - 1
  /\ activeDownloads' = activeDownloads + 1
  /\ UNCHANGED <<settling, scanActive, scanner>>

FallAsleep(i) ==
  /\ caller' = [caller EXCEPT ![i] = "sleeping"]
  /\ UNCHANGED <<intent, settling, counters, scanActive, scanner>>

(* activate() on a pending intent. On an active one it returns, on a       *)
(* released one it raises, and neither changes anything.                   *)
Activate(i) ==
  /\ intent[i] = "waiting" /\ caller[i] = "no"
  /\ IF scanActive THEN FallAsleep(i) ELSE BecomeActive(i)

(* Definitions like this one are deliberate mistakes: the runs show that   *)
(* the properties notice them. Here a woken caller does not look again.    *)
ReevaluateOnce(i) ==
  /\ caller[i] = "woken"
  /\ IF intent[i] = "waiting"
       THEN BecomeActive(i)
       ELSE /\ caller' = [caller EXCEPT ![i] = "no"]
            /\ UNCHANGED <<intent, settling, counters, scanActive, scanner>>

(* The predicate of wait_for is evaluated again after a notification.      *)
Reevaluate(i) ==
  /\ caller[i] = "woken"
  /\ CASE intent[i] # "waiting" ->
            \* "download intent was cancelled before activation"
            /\ caller' = [caller EXCEPT ![i] = "no"]
            /\ UNCHANGED <<intent, settling, counters, scanActive, scanner>>
       [] intent[i] = "waiting" /\ scanActive -> FallAsleep(i)
       [] OTHER -> BecomeActive(i)

AbandonUnconditionally(i) ==
  /\ caller[i] \in {"sleeping", "woken"}
  /\ waitingDownloads' = waitingDownloads - 1
  /\ intent' = [intent EXCEPT ![i] = "released"]
  /\ caller' = [Wake(caller) EXCEPT ![i] = "no"]
  /\ NotifyScanners
  /\ UNCHANGED <<settling, activeDownloads, scanActive>>

(* The task in activate() is cancelled while it waits: a claim that is     *)
(* still pending is taken back on the spot.                                *)
AbandonActivate(i) ==
  /\ caller[i] \in {"sleeping", "woken"}
  /\ \/ /\ intent[i] = "waiting"
        /\ waitingDownloads' = waitingDownloads - 1
        /\ intent' = [intent EXCEPT ![i] = "released"]
        /\ caller' = [Wake(caller) EXCEPT ![i] = "no"]
        /\ NotifyScanners
     \/ /\ intent[i] # "waiting"
        /\ caller' = [caller EXCEPT ![i] = "no"]
        /\ UNCHANGED <<intent, waitingDownloads, scanner>>
  /\ UNCHANGED <<settling, activeDownloads, scanActive>>

(* _release_download, called by cancel() and by release(); a second call   *)
(* finds the state released and returns.                                   *)
Release(i) ==
  /\ intent[i] \in {"waiting", "active"}
  /\ settling' = [settling EXCEPT ![i] = intent[i]]
  /\ intent' = [intent EXCEPT ![i] = "released"]
  /\ UNCHANGED <<caller, counters, scanActive, scanner>>

(* The release_download task scheduled by Release.                         *)
SettleRelease(i) ==
  /\ settling[i] # "no"
  /\ settling' = [settling EXCEPT ![i] = "no"]
  /\ IF settling[i] = "waiting"
       THEN waitingDownloads' = waitingDownloads - 1 /\ UNCHANGED activeDownloads
       ELSE activeDownloads' = activeDownloads - 1 /\ UNCHANGED waitingDownloads
  /\ NotifyAll
  /\ UNCHANGED <<intent, scanActive>>

-----------------------------------------------------------------------------
ScanMayStartOverQueue == ~scanActive /\ activeDownloads = 0

ScanMayStart == ~scanActive /\ waitingDownloads = 0 /\ activeDownloads = 0

(* acquire_scan: the predicate is evaluated on entry and after each        *)
(* notification.                                                           *)
AcquireScan(s) ==
  /\ scanner[s] \in {"idle", "woken"}
  /\ IF ScanMayStart
       THEN scanActive' = TRUE /\ scanner' = [scanner EXCEPT ![s] = "holding"]
       ELSE scanner' = [scanner EXCEPT ![s] = "sleeping"] /\ UNCHANGED scanActive
  /\ UNCHANGED <<downloads, counters>>

(* A scan task cancelled while it waits leaves no trace.                   *)
AbandonScan(s) ==
  /\ scanner[s] \in {"sleeping", "woken"}
  /\ scanner' = [scanner EXCEPT ![s] = "idle"]
  /\ UNCHANGED <<downloads, counters, scanActive>>

(* ActivityPermit.release, once per permit: the flag is cleared later.     *)
ReleaseScan(s) ==
  /\ scanner[s] = "holding"
  /\ scanner' = [scanner EXCEPT ![s] = "releasing"]
  /\ UNCHANGED <<downloads, counters, scanActive>>

SettleScanSilently(s) ==
  /\ scanner[s] = "releasing"
  /\ scanActive' = FALSE
  /\ scanner' = [scanner EXCEPT ![s] = "idle"]
  /\ UNCHANGED <<intent, caller, settling, counters>>

(* The release_scan task.                                                  *)
SettleScan(s) ==
  /\ scanner[s] = "releasing"
  /\ scanActive' = FALSE
  /\ caller' = Wake(caller)
  /\ scanner' = [Wake(scanner) EXCEPT ![s] = "idle"]
  /\ UNCHANGED <<intent, settling, counters>>

-----------------------------------------------------------------------------
Init ==
  /\ intent = [i \in Intents |-> "none"]
  /\ caller = [i \in Intents |-> "no"]
  /\ settling = [i \in Intents |-> "no"]
  /\ waitingDownloads = 0
  /\ activeDownloads = 0
  /\ scanActive = FALSE
  /\ scanner = [s \in Scanners |-> "idle"]

Download(i) ==
  \/ Register(i) \/ Activate(i) \/ Reevaluate(i) \/ AbandonActivate(i)
  \/ Release(i) \/ SettleRelease(i)

Scan(s) == AcquireScan(s) \/ AbandonScan(s) \/ ReleaseScan(s) \/ SettleScan(s)

Next ==
  \/ \E i \in Intents : Download(i)
  \/ \E s \in Scanners : Scan(s)

Spec == Init /\ [][Next]_vars

(* The loop runs every scheduled task and every woken waiter; a scan ends, *)
(* and so does a transfer. Nobody is obliged to register or to scan.       *)
Fairness ==
  /\ \A i \in Intents :
       /\ WF_vars(Reevaluate(i))
       /\ WF_vars(SettleRelease(i))
       /\ WF_vars(intent[i] = "active" /\ Release(i))
  /\ \A s \in Scanners :
       /\ WF_vars(scanner[s] = "woken" /\ AcquireScan(s))
       /\ WF_vars(ReleaseScan(s))
       /\ WF_vars(SettleScan(s))

FairSpec == Spec /\ Fairness

-----------------------------------------------------------------------------
TypeOK ==
  /\ intent \in [Intents -> {"none", "waiting", "active", "released"}]
  /\ caller \in [Intents -> {"no", "sleeping", "woken"}]
  /\ settling \in [Intents -> {"no", "waiting", "active"}]
  /\ waitingDownloads \in Nat
  /\ activeDownloads \in Nat
  /\ scanActive \in BOOLEAN
  /\ scanner \in [Scanners -> {"idle", "sleeping", "woken", "holding", "releasing"}]

Holding == {s \in Scanners : scanner[s] = "holding"}

(* The objects a counter stands for: those in its state, and those released*)
(* from it whose release is not settled yet.                               *)
Claims(state) == {i \in Intents : intent[i] = state \/ settling[i] = state}

(* The counters are the objects plus the releases not yet settled, so that *)
(* no order of cancellations, abandoned activations and late release tasks *)
(* loses a claim, counts one twice, or leaves one for good.                *)
CountersAgree ==
  /\ waitingDownloads = Cardinality(Claims("waiting"))
  /\ activeDownloads = Cardinality(Claims("active"))

(* A scan is alone: no download works while a permit is held, and there is *)
(* one permit.                                                             *)
ScanIsAlone ==
  /\ \A s \in Holding, i \in Intents : intent[i] # "active"
  /\ \A s, t \in Holding : s = t

(* What makes the above inductive: a release is pending only for a released*)
(* object, and the flag is up exactly while one permit is out or its       *)
(* release is pending.                                                     *)
Owners == {s \in Scanners : scanner[s] \in {"holding", "releasing"}}

GateConsistent ==
  /\ \A i \in Intents : settling[i] # "no" => intent[i] = "released"
  /\ scanActive <=> Owners # {}
  /\ \A s, t \in Owners : s = t
  /\ scanActive => \A i \in Intents : intent[i] # "active"

IInv == TypeOK /\ CountersAgree /\ GateConsistent

(* What the gate's users see of an intent: the settling of a release is    *)
(* nobody's business but the gate's.                                       *)
Claimed ==
  [i \in Intents |-> CASE intent[i] = "waiting" -> "queued"
                       [] intent[i] = "active" -> "working"
                       [] OTHER -> "none"]

Priority == INSTANCE ActivityPriority WITH claim <- Claimed, scanning <- Holding

(* The gate keeps the promise of ActivityPriority: a download that is      *)
(* queued or working keeps every scan from starting, a scan keeps every    *)
(* download from working.                                                  *)
KeepsPriority == Priority!Spec

(* Nobody is left asleep: a download whose worker is in activate() gets    *)
(* Telegram, or gives up, and scans cannot hold it off for good; a scan    *)
(* that waits while downloads come to an end is woken, by the last release *)
(* however late it is settled.                                             *)
NobodyIsForgotten ==
  /\ \A i \in Intents :
       (intent[i] = "waiting" /\ caller[i] # "no") ~> intent[i] # "waiting"
  /\ <>[](\A i \in Intents : intent[i] \notin {"waiting", "active"}) =>
       \A s \in Scanners : (scanner[s] = "sleeping") ~> (scanner[s] # "sleeping")
=============================================================================
