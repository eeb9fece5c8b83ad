----------------------------- MODULE ConfigPair -----------------------------
(***************************************************************************)
(* config_persistence.py: config.yaml and data.yaml are committed as one   *)
(* generation. A write stages both files, replaces the journal, moves the  *)
(* staged files over the old ones and removes the journal; every change of *)
(* the directory is followed by a sync of it. A write and a start finish a *)
(* commit that the journal says was interrupted.                           *)
(*                                                                         *)
(* A crash leaves the directory as it was at some moment since the last    *)
(* sync: the file system keeps the order of changes, and writes them out   *)
(* before the next start.                                                  *)
(***************************************************************************)
EXTENDS Integers

CONSTANTS
  Values,         \* what can be written: [Files -> contents]
  Initial,        \* what is there at first
  None,           \* no such file
  LateFailures,   \* whether the sync after the journal's replacement may raise
  MaxFaults       \* bound: crashes and input/output errors

Files == {1, 2}   \* the targets in the order of the journal's entries

ASSUME PairAssumption ==
  /\ Initial \subseteq Values
  /\ \A v \in Values : v = [t \in Files |-> v[t]] /\ \A t \in Files : v[t] # None
  /\ None \notin Values /\ LateFailures \in BOOLEAN /\ MaxFaults \in Nat

VARIABLES
  dir,       \* the directory as the process sees it
  past,      \* what it has been since the last sync
  durable,   \* what it was at the last sync
  step,      \* of the process: "down", "load", "idle", or of a write
  entry,     \* the file the step is at; 3 behind the last
  owe,       \* the change just made is not synced yet
  offer,     \* what the last write is or was to commit
  faults

process == <<step, entry, owe>>
pairVars == <<dir, past, durable, process, offer, faults>>

Absent == [t \in Files |-> None]

(* What a start makes of a directory: it finishes a journaled commit.      *)
Reads(d) == IF d.journal = None THEN d.file ELSE d.journal

(* recover_yaml_pair raises when neither the staged file nor the target    *)
(* has the contents that the journal names.                                *)
Recoverable(d) ==
  d.journal # None =>
    \A t \in Files : \/ d.stage[t] = d.journal[t]
                     \/ d.stage[t] = None /\ d.file[t] = d.journal[t]

PairInit ==
  /\ \E v \in Initial : /\ dir = [file |-> v, stage |-> Absent, journal |-> None]
                        /\ offer = v
  /\ past = {dir} /\ durable = dir
  /\ step = "down" /\ entry = 1 /\ owe = FALSE /\ faults = 0

Change(d) == dir' = d /\ past' = past \union {d} /\ UNCHANGED durable

-----------------------------------------------------------------------------
Start ==
  /\ step = "down" /\ step' = "load" /\ entry' = 1
  /\ UNCHANGED <<dir, past, durable, owe, offer, faults>>

Stop ==
  /\ step = "idle" /\ step' = "down"
  /\ durable' = dir /\ past' = {dir}
  /\ UNCHANGED <<dir, entry, owe, offer, faults>>

Begin(v) ==
  /\ step = "idle" /\ step' = "recover" /\ entry' = 1 /\ offer' = v
  /\ UNCHANGED <<dir, past, durable, owe, faults>>

(* _replace_pair_entry, in a recovery or in the commit itself.             *)
ReplaceEntry ==
  /\ step \in {"load", "recover", "commit"} /\ ~owe
  /\ dir.journal # None /\ entry \in Files
  /\ IF dir.stage[entry] # None
     THEN /\ dir.stage[entry] = dir.journal[entry]
          /\ Change([dir EXCEPT !.file[entry] = dir.stage[entry], !.stage[entry] = None])
          /\ owe' = TRUE
     ELSE /\ dir.file[entry] = dir.journal[entry]
          /\ UNCHANGED <<dir, past, durable, owe>>
  /\ entry' = entry + 1
  /\ UNCHANGED <<step, offer, faults>>

\* Mutant: the journal goes before the second file is in its place.
UnlinkEarly ==
  /\ step \in {"load", "recover", "commit"} /\ ~owe
  /\ dir.journal # None /\ entry \in {2, 3}
  /\ Change([dir EXCEPT !.journal = None])
  /\ owe' = TRUE
  /\ UNCHANGED <<step, entry, offer, faults>>

UnlinkJournal ==
  /\ step \in {"load", "recover", "commit"} /\ ~owe
  /\ dir.journal # None /\ entry = 3
  /\ Change([dir EXCEPT !.journal = None])
  /\ owe' = TRUE
  /\ UNCHANGED <<step, entry, offer, faults>>

Synced ==
  /\ owe /\ owe' = FALSE
  /\ past' = {dir} /\ durable' = dir
  /\ IF step = "journal" THEN step' = "commit" /\ entry' = 1 ELSE UNCHANGED <<step, entry>>
  /\ UNCHANGED <<dir, offer, faults>>

(* Without a journal a start goes on to read the files, a write to stage   *)
(* its own, and a commit is over.                                          *)
Recovered(s) ==
  /\ step = s /\ ~owe /\ dir.journal = None
  /\ step' = (IF s = "recover" THEN "stage" ELSE "idle")
  /\ entry' = 1
  /\ UNCHANGED <<dir, past, durable, owe, offer, faults>>

StageEntry ==
  /\ step = "stage" /\ ~owe /\ entry \in Files
  /\ Change([dir EXCEPT !.stage[entry] = offer[entry]])
  /\ owe' = TRUE /\ entry' = entry + 1
  /\ UNCHANGED <<step, offer, faults>>

WriteJournal ==
  /\ step = "stage" /\ ~owe /\ entry = 3
  /\ Change([dir EXCEPT !.journal = offer])
  /\ owe' = TRUE /\ step' = "journal"
  /\ UNCHANGED <<entry, offer, faults>>

\* Mutant: what is staged is removed whenever a write raises.
FailUnstaging ==
  /\ step \notin {"down", "idle"} /\ faults < MaxFaults
  /\ step = "journal" => LateFailures
  /\ step' = (IF step = "load" THEN "down" ELSE "idle")
  /\ Change([dir EXCEPT !.stage = Absent])
  /\ entry' = 1 /\ owe' = FALSE /\ faults' = faults + 1
  /\ UNCHANGED offer

(* An operation raises, before or after its effect: what was staged is     *)
(* removed unless the journal is known to be committed. A start that fails *)
(* ends the process.                                                       *)
Fail ==
  /\ step \notin {"down", "idle"} /\ faults < MaxFaults
  /\ step = "journal" => LateFailures
  /\ step' = (IF step = "load" THEN "down" ELSE "idle")
  /\ CASE step \in {"stage", "journal"} -> Change([dir EXCEPT !.stage = Absent])
       [] step = "load" -> past' = {dir} /\ durable' = dir /\ UNCHANGED dir
       [] OTHER -> UNCHANGED <<dir, past, durable>>
  /\ entry' = 1 /\ owe' = FALSE /\ faults' = faults + 1
  /\ UNCHANGED offer

Crash ==
  /\ step # "down" /\ faults < MaxFaults
  /\ \E d \in past : dir' = d /\ durable' = d /\ past' = {d}
  /\ step' = "down" /\ entry' = 1 /\ owe' = FALSE /\ faults' = faults + 1
  /\ UNCHANGED offer

Write == ReplaceEntry \/ UnlinkJournal \/ Synced \/ Recovered("recover") \/ Recovered("commit")
           \/ StageEntry \/ WriteJournal
PairNext ==
  \/ Start \/ Stop \/ Recovered("load") \/ Write \/ Fail \/ Crash
  \/ \E v \in Values : Begin(v)
PairSpec == PairInit /\ [][PairNext]_pairVars

-----------------------------------------------------------------------------
(* After a crash at any moment, with what the file system kept of the last *)
(* changes, a recovery finds what it needs and does not raise.             *)
AlwaysRecoverable == \A d \in past : Recoverable(d)

(* What survives on disk changes from one generation to that of the last   *)
(* write, in one step, wherever a crash comes and whichever of the file    *)
(* operations raises, as far as LateFailures lets them.                    *)
Register == INSTANCE PairRegister WITH pair <- Reads(durable)
KeepsGeneration == Register!RegisterSpec
=============================================================================
