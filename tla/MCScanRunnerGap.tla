---------------------------- MODULE MCScanRunnerGap ----------------------------
EXTENDS ScanRunner, TLC

(* The behaviours in which nothing is downloaded, the process stays up and *)
(* users neither pause nor stop a scan: they are enough for ReadyIsIndexed *)
(* to fail.                                                                *)
UndisturbedSpec ==
  Init /\ [][/\ Next /\ gate' = "idle" /\ runner'.pc # "down" /\ ~stopping'
            /\ request'.op \in {"none", "resume"}]_vars
================================================================================
