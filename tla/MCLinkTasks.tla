----------------------------- MODULE MCLinkTasks -----------------------------
EXTENDS LinkTasks, TLC

OneAndTwo == [p \in Packages |-> p]
=============================================================================
