--------------------------- MODULE ActivityPriority ---------------------------
(***************************************************************************)
(* What the activity gate promises to its users (the class comment of      *)
(* TelegramActivityGate): downloads run concurrently with each other, a    *)
(* scan runs alone, and a download that is queued or working keeps every   *)
(* scan from starting.                                                     *)
(***************************************************************************)
CONSTANTS Intents, Scanners

VARIABLES
  claim,     \* claim[i]: "none", "queued" or "working"
  scanning   \* the scanners that hold the permit

vars == <<claim, scanning>>

Init ==
  /\ claim = [i \in Intents |-> "none"]
  /\ scanning = {}

(* A claim may be made at any time, also during a scan.                    *)
Claim(i) ==
  /\ claim[i] = "none"
  /\ claim' = [claim EXCEPT ![i] = "queued"]
  /\ UNCHANGED scanning

Work(i) ==
  /\ claim[i] = "queued"
  /\ scanning = {}
  /\ claim' = [claim EXCEPT ![i] = "working"]
  /\ UNCHANGED scanning

Withdraw(i) ==
  /\ claim[i] # "none"
  /\ claim' = [claim EXCEPT ![i] = "none"]
  /\ UNCHANGED scanning

BeginScan(s) ==
  /\ scanning = {}
  /\ \A i \in Intents : claim[i] = "none"
  /\ scanning' = {s}
  /\ UNCHANGED claim

EndScan(s) ==
  /\ scanning = {s}
  /\ scanning' = {}
  /\ UNCHANGED claim

Next ==
  \/ \E i \in Intents : Claim(i) \/ Work(i) \/ Withdraw(i)
  \/ \E s \in Scanners : BeginScan(s) \/ EndScan(s)

Spec == Init /\ [][Next]_vars
=============================================================================
