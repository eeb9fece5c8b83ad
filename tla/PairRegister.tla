---------------------------- MODULE PairRegister ----------------------------
(***************************************************************************)
(* What config_persistence.py promises of the two YAML files: they are     *)
(* read as one value, which is the value a write has offered last or the   *)
(* one from before it, and never a part of each.                           *)
(***************************************************************************)
VARIABLES pair, offer

Offer == UNCHANGED pair
Take == pair' = offer /\ UNCHANGED offer

RegisterInit == pair = offer
RegisterSpec == RegisterInit /\ [][Offer \/ Take]_<<pair, offer>>
=============================================================================
