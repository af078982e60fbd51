----------------------------- MODULE ModelInstall -----------------------------
(***************************************************************************)
(* The installation of the speech model (electron/runtime-support.ts): a   *)
(* transfer that resumes, extraction into a staging directory, and the     *)
(* exchange of directories, with failures, cancellations and the end of    *)
(* the application between any two steps.                                  *)
(*                                                                         *)
(* The transfer is a number of chunks; a directory is absent, whole (as    *)
(* the manifest says), another one (of an earlier release) or partly there.*)
(* One installation at a time: that a second start may pass the test of    *)
(* the first while it reads the manifest is left out.                      *)
(*                                                                         *)
(* Every operation on a directory may fail, those of the roll back too; a  *)
(* removal may fail, or be cut off, half-way.  Two histories serve the     *)
(* property: what the last activation found in place, and what went wrong  *)
(* since then with what it had put aside.                                  *)
(***************************************************************************)
EXTENDS Naturals

CONSTANTS Parts,            \* of the archive
          MaxStarts         \* bound: installations and starts of the application

ASSUME ModelAssumption == Parts \in Nat \ {0} /\ MaxStarts \in Nat

VARIABLES manager,          \* state of ModelInstallManager and where its run is
          archive,          \* whether the verified archive is there
          partial,          \* bytes of the transfer, and whether they are right
          dir,              \* staging, target and backup
          starts,
          held,             \* history: the target as the last activation found it
          trouble           \* history: what interfered with it since then

modelVars == <<manager, archive, partial, dir, starts, held, trouble>>

Dirs     == {"staging", "target", "backup"}
Contents == {"absent", "whole", "other", "partly"}

NoBytes == [size |-> 0, right |-> TRUE]

Running == manager.pc # "idle"
RunAt(pc) == manager.pc = pc

\* initialize(): it looks at the target alone.
Initialized(target) ==
    [pc |-> "idle", aborted |-> FALSE,
     phase |-> IF target = "whole" THEN "ready"
               ELSE IF partial.size > 0 THEN "paused" ELSE "not_installed"]

ModelInit ==
    /\ archive = FALSE /\ partial = NoBytes
    /\ \E target \in {"absent", "whole", "other"} :
          /\ dir = [d \in Dirs |-> IF d = "target" THEN target ELSE "absent"]
          /\ held = target /\ manager = Initialized(target)
    /\ starts = 0 /\ trouble = "none"

Goes(pc)  == manager' = [manager EXCEPT !.pc = pc]
Fails     == manager' = [manager EXCEPT !.pc = "idle", !.phase = "failed"]
Pauses    == manager' = [manager EXCEPT !.pc = "idle", !.phase = "paused"]

DiskKeeps  == UNCHANGED <<archive, partial, dir>>
ModelKeeps == UNCHANGED <<starts, held, trouble>>

start ==
    /\ ~Running /\ starts < MaxStarts
    /\ manager' = [manager EXCEPT !.pc = "space", !.aborted = FALSE]
    /\ starts' = starts + 1
    /\ DiskKeeps /\ UNCHANGED <<held, trouble>>

cancel ==
    /\ Running /\ ~manager.aborted
    /\ manager' = [manager EXCEPT !.aborted = TRUE]
    /\ DiskKeeps /\ ModelKeeps

CheckSpace ==
    /\ RunAt("space")
    /\ Fails \/ manager' = [manager EXCEPT !.pc = "download", !.phase = "downloading"]
    /\ DiskKeeps /\ ModelKeeps

Verified == partial = [size |-> Parts, right |-> TRUE]

\* downloadVerifiedFile: what is there is used; of a part the rest is asked
\* for, and the server sends that or everything again.
BeginTransfer ==
    /\ RunAt("download")
    /\ \/ archive /\ Goes("verify") /\ DiskKeeps
       \/ /\ ~archive /\ Verified
          /\ archive' = TRUE /\ partial' = NoBytes
          /\ Goes("verify") /\ UNCHANGED dir
       \/ /\ ~archive /\ ~Verified
          /\ \/ partial.size \in 1..(Parts - 1) /\ Goes("transfer") /\ UNCHANGED partial
             \/ partial' = NoBytes /\ Goes("transfer")
             \/ Fails /\ UNCHANGED partial
             \/ manager.aborted /\ Pauses /\ UNCHANGED partial
          /\ UNCHANGED <<archive, dir>>
    /\ ModelKeeps

\* A chunk that is not what the manifest hashes makes the whole wrong.
ReceiveChunk ==
    /\ RunAt("transfer") /\ ~manager.aborted /\ partial.size < Parts
    /\ \E right \in BOOLEAN :
          partial' = [size |-> partial.size + 1, right |-> partial.right /\ right]
    /\ UNCHANGED <<manager, archive, dir>> /\ ModelKeeps

\* The connection is lost, or the run was cancelled: the bytes stay.
TransferBreaks ==
    /\ RunAt("transfer")
    /\ IF manager.aborted THEN Pauses ELSE Fails
    /\ DiskKeeps /\ ModelKeeps

\* The body ends, at whatever length.
EndTransfer ==
    /\ RunAt("transfer")
    /\ partial' = NoBytes
    /\ IF Verified THEN archive' = TRUE /\ Goes("verify") ELSE Fails /\ UNCHANGED archive
    /\ UNCHANGED dir /\ ModelKeeps

Set(d, content) == dir' = [dir EXCEPT ![d] = content]
Renamed(from, to) == dir' = [dir EXCEPT ![to] = dir[from], ![from] = "absent"]

\* What a failing removal leaves of a directory.
RemovalStops(d) == UNCHANGED dir \/ (dir[d] # "absent" /\ Set(d, "partly"))

\* The state is saved, and the staging directory of an earlier run removed.
BeginExtraction ==
    /\ RunAt("verify")
    /\ \/ manager.aborted /\ Pauses /\ UNCHANGED dir
       \/ /\ ~manager.aborted
          /\ \/ /\ manager' = [manager EXCEPT !.pc = "extract", !.phase = "verifying"]
                /\ Set("staging", "partly")
             \/ Fails /\ RemovalStops("staging")
    /\ UNCHANGED <<archive, partial>> /\ ModelKeeps

\* Every member has the size and hash of the manifest, and none is missing; or
\* the staging directory is removed.  The members are read again after the last
\* look at the signal.
EndExtraction ==
    /\ RunAt("extract")
    /\ \/ Set("staging", "whole") /\ Goes("extracted")
       \/ Set("staging", "absent") /\ (Fails \/ (manager.aborted /\ Pauses))
       \/ Fails /\ RemovalStops("staging")
    /\ UNCHANGED <<archive, partial>> /\ ModelKeeps

BeginActivation ==
    /\ RunAt("extracted")
    /\ \/ /\ ~manager.aborted
          /\ manager' = [manager EXCEPT !.pc = "clear", !.phase = "installing"]
          /\ held' = dir["target"] /\ trouble' = "none"
       \/ /\ IF manager.aborted THEN Pauses ELSE Fails
          /\ UNCHANGED <<held, trouble>>
    /\ DiskKeeps /\ UNCHANGED starts

\* atomicInstallModel, up to its try: the backup of an earlier run is removed,
\* the target put aside.  What an earlier run left in the backup is gone then,
\* be it the only model there was.
ClearBackup ==
    /\ RunAt("clear")
    /\ \/ Set("backup", "absent") /\ Goes("aside")
       \/ RemovalStops("backup") /\ Fails
    /\ UNCHANGED <<archive, partial>> /\ ModelKeeps

SetTargetAside ==
    /\ RunAt("aside")
    /\ \/ dir["target"] # "absent" /\ Renamed("target", "backup") /\ Goes("activate")
       \/ dir["target"] = "absent" /\ Goes("activate") /\ UNCHANGED dir
       \/ dir["target"] # "absent" /\ Fails /\ UNCHANGED dir
    /\ UNCHANGED <<archive, partial>> /\ ModelKeeps

\* Mutant: a failed activation leaves the backup where it is.
RollBackNot == Fails

\* The catch: with a previous model, the target is removed and it comes back.
RollBack == IF held = "absent" THEN Fails ELSE Goes("remove target")

Activate ==
    /\ RunAt("activate")
    /\ \/ Renamed("staging", "target") /\ Goes("drop")
       \/ RollBack /\ UNCHANGED dir
    /\ UNCHANGED <<archive, partial>> /\ ModelKeeps

\* Also the failure of this removal is rolled back.
DropBackup ==
    /\ RunAt("drop")
    /\ \/ Set("backup", "absent") /\ Goes("clean") /\ UNCHANGED trouble
       \/ dir["backup"] # "absent" /\ RollBack /\ UNCHANGED <<dir, trouble>>
       \/ /\ dir["backup"] # "absent" /\ RollBack
          /\ Set("backup", "partly") /\ trouble' = "dropping"
    /\ UNCHANGED <<archive, partial, starts, held>>

\* A part of the old model that was dropped half-way stays the worst of it.
Troubled(by) == trouble' = IF trouble = "none" THEN by ELSE trouble

\* A failure of the removal leaves the catch before the backup is renamed.
RemoveTarget ==
    /\ RunAt("remove target")
    /\ \/ Set("target", "absent") /\ Goes("bring back") /\ UNCHANGED trouble
       \/ /\ dir["target"] # "absent"
          /\ RemovalStops("target") /\ Fails /\ Troubled("rolling back")
    /\ UNCHANGED <<archive, partial, starts, held>>

BringBack ==
    /\ RunAt("bring back")
    /\ \/ Renamed("backup", "target") /\ Fails /\ UNCHANGED trouble
       \/ Fails /\ UNCHANGED dir /\ Troubled("rolling back")
    /\ UNCHANGED <<archive, partial, starts, held>>

\* The staging directory and the archive are removed, and the state saved.
CleanUp ==
    /\ RunAt("clean")
    /\ Set("staging", "absent")
    /\ \/ archive' = FALSE /\ manager' = [manager EXCEPT !.pc = "idle", !.phase = "ready"]
       \/ archive' \in {archive, FALSE} /\ Fails
    /\ UNCHANGED partial /\ ModelKeeps

\* The previous model is in the backup.
Away == {"activate", "remove target", "bring back"}

\* The end of the application, in the middle of a removal too.
CutOff ==
    \/ UNCHANGED dir
    \/ manager.pc \in {"clear", "drop"} /\ RemovalStops("backup")
    \/ RunAt("remove target") /\ RemovalStops("target")

\* The application ends, and starts again.  Nothing looks for a backup.
ApplicationEnds ==
    /\ starts < MaxStarts
    /\ starts' = starts + 1
    /\ CutOff
    /\ manager' = Initialized(dir'["target"])
    /\ IF manager.pc \in Away THEN Troubled("ended") ELSE UNCHANGED trouble
    /\ UNCHANGED <<archive, partial, held>>

ModelNext ==
    \/ start \/ cancel \/ CheckSpace
    \/ BeginTransfer \/ ReceiveChunk \/ TransferBreaks \/ EndTransfer
    \/ BeginExtraction \/ EndExtraction
    \/ BeginActivation \/ ClearBackup \/ SetTargetAside \/ Activate \/ DropBackup
    \/ RemoveTarget \/ BringBack \/ CleanUp
    \/ ApplicationEnds

ModelSpec == ModelInit /\ [][ModelNext]_modelVars
-----------------------------------------------------------------------------
(***************************************************************************)
(* A model shown as ready is whole.  While nothing runs, the target is what*)
(* the last activation found, or the new model whole, unless since then    *)
(* the application ended between the two renames or a step of the roll back*)
(* failed as well.  Even then the previous model is not lost yet: it is    *)
(* whole in the backup, or a whole model is in place, unless the removal of*)
(* the backup itself failed half-way and was rolled back over the new one. *)
(*                                                                         *)
(* This is no more than the code gives: a start does not bring a backup    *)
(* back, and the next activation begins by removing it (ClearBackup), with *)
(* the only model there is when the target is missing.                     *)
(***************************************************************************)
ReadyModelIsWhole ==
    /\ manager.phase = "ready" /\ ~Running => dir["target"] = "whole"
    /\ ~Running /\ trouble = "none" => dir["target"] \in {held, "whole"}
    /\ trouble # "dropping" =>
          dir["target"] \in {held, "whole"} \/ (held # "absent" /\ dir["backup"] = held)
===============================================================================
