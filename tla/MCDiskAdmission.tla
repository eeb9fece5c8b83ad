--------------------------- MODULE MCDiskAdmission ---------------------------
EXTENDS DiskAdmission, TLC

CONSTANTS whole, stream, small, first, second

MCKeys == {whole, stream, small}
MCWorkers == {first, second}

(* whole and small reserve all their files, stream only the two files of   *)
(* one byte that two workers can have in hand. stream and small fit        *)
(* together, whole fits only when it is alone.                             *)
MCTotal == (whole :> 3) @@ (stream :> 3) @@ (small :> 1)
MCLargest == (whole :> 2) @@ (stream :> 1) @@ (small :> 1)
MCStreams == {stream}
=============================================================================
