----------------------------- MODULE PackageLease -----------------------------
(***************************************************************************)
(* What the download outbox promises about packages: at any time a package *)
(* is worked on by one batch at most, a batch takes packages only while    *)
(* nobody has them, and gives each back once.                              *)
(***************************************************************************)
CONSTANTS Batches, Packages, NoBatch

VARIABLE owner   \* owner[p]: the batch that works on p, or NoBatch

Init == owner = [p \in Packages |-> NoBatch]

(* A batch takes all of its packages in one step, or none.                 *)
Take(b, P) ==
  /\ P # {}
  /\ \A p \in P : owner[p] = NoBatch
  /\ owner' = [p \in Packages |-> IF p \in P THEN b ELSE owner[p]]

Give(b, p) ==
  /\ owner[p] = b
  /\ owner' = [owner EXCEPT ![p] = NoBatch]

Next ==
  \/ \E b \in Batches, P \in SUBSET Packages : Take(b, P)
  \/ \E b \in Batches, p \in Packages : Give(b, p)

Spec == Init /\ [][Next]_owner
=============================================================================
