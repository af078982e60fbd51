---------------------------- MODULE ArtifactStore ----------------------------
(***************************************************************************)
(* The artifact store (artifact-store.ts): files under artifacts/ and the  *)
(* rows of artifact_records that name them.  A file is staged, renamed and *)
(* recorded, or recorded, unrecorded and unlinked, in an order that leaves *)
(* something reconcile() can repair wherever the process dies.             *)
(*                                                                         *)
(* The steps of the phases in Sync follow each other without an await, so  *)
(* that nothing but a crash can come between them.                         *)
(*                                                                         *)
(* Taking back may fail too: a file that cannot be unlinked, a directory   *)
(* that cannot be synced.  Such an operation is abandoned: what it left is *)
(* nobody's business until the next start, and its slot is taken till then,*)
(* so that there are at most as many of them at a time as operations.      *)
(***************************************************************************)
EXTENDS Naturals, FiniteSets

CONSTANTS Ops,              \* operations that may run at once
          Video,            \* paths of Renders, written by finalizeExternal
          Sidecars,         \* paths of one batch, written by finalizeBatch
          MaxStoreCrashes

\* Renders and the captions of a Short are kept in directories of their own.
ASSUME PathsAssumption == Video \cap Sidecars = {} /\ MaxStoreCrashes \in Nat

Paths == Video \cup Sidecars

VARIABLES
    disk,       \* per final path: no file, the file of its row, or another one
    temps,      \* operations whose temporary files are on disk
    records,    \* artifact_records by path (relative_path is UNIQUE)
    named,      \* whether the Short names the batch: the caller's own commit
    ops,        \* what runs: its paths are pendingPaths
    storeMode,  \* "up", or the step of the start that is reached
    storeCrashes

storeVars == <<disk, temps, records, named, ops, storeMode, storeCrashes>>

Resting == [phase |-> "idle", paths |-> {}, renamed |-> {}]
Awaited == {"encoding", "validating"}
Sync    == {"staged", "renamed", "unlinked"}

\* What failed while it was taken back: the paths that stay pending, and those
\* whose file and row it left out of step.
Abandoned(paths, strays) == [phase |-> "abandoned", paths |-> paths, renamed |-> strays]

StoreInit ==
    /\ disk = [p \in Paths |-> "none"]
    /\ temps = {}
    /\ records = [p \in Paths |-> "none"]
    /\ named = FALSE
    /\ ops = [o \in Ops |-> Resting]
    /\ storeMode = "up"
    /\ storeCrashes = 0

pendingPaths == UNION {ops[o].paths : o \in Ops}

InSync == \E o \in Ops : ops[o].phase \in Sync

\* A new operation, or the next step of an awaited one, may run.
Free == storeMode = "up" /\ ~InSync

Available(p) == disk[p] = "none" /\ p \notin pendingPaths

\* The disk without the files of these paths.
PutAside(S) == [p \in Paths |-> IF p \in S THEN "none" ELSE disk[p]]
-----------------------------------------------------------------------------
ReserveExternal(o, p) ==
    /\ Free
    /\ ops[o] = Resting
    /\ Available(p)
    /\ ops' = [ops EXCEPT ![o] = [phase |-> "encoding", paths |-> {p}, renamed |-> {}]]
    /\ temps' = temps \cup {o}
    /\ UNCHANGED <<disk, records, named, storeMode, storeCrashes>>

\* The encoder fills the temporary file; finalizeExternal validates it.
Encoded(o) ==
    /\ Free
    /\ ops[o].phase = "encoding"
    /\ ops' = [ops EXCEPT ![o].phase = "validating"]
    /\ UNCHANGED <<disk, temps, records, named, storeMode, storeCrashes>>

\* discardExternal, or the catch of finalizeExternal.
DiscardExternal(o) ==
    /\ Free
    /\ ops[o].phase \in Awaited
    /\ ops' = [ops EXCEPT ![o] = Resting]
    /\ temps' = temps \ {o}
    /\ UNCHANGED <<disk, records, named, storeMode, storeCrashes>>

\* finalizeBatch stages every file of the batch before it renames one.
Stage(o) ==
    /\ Free
    /\ ops[o] = Resting
    /\ ~named
    /\ \A p \in Sidecars : Available(p)
    /\ ops' = [ops EXCEPT ![o] = [phase |-> "staged", paths |-> Sidecars, renamed |-> {}]]
    /\ temps' = temps \cup {o}
    /\ UNCHANGED <<disk, records, named, storeMode, storeCrashes>>

\* Only a row that lost its file names a path that is free.
Written(p) == IF records[p] = "complete" THEN "damaged" ELSE "whole"

Rename(o) ==
    /\ storeMode = "up"
    /\ ops[o].phase = "validating" => ~InSync
    /\ ops[o].phase \in {"validating", "staged"}
    /\ \E p \in ops[o].paths \ ops[o].renamed :
         LET renamed == ops[o].renamed \cup {p}
             all     == renamed = ops[o].paths
         IN  /\ disk' = [disk EXCEPT ![p] = Written(p)]
             /\ ops' = [ops EXCEPT ![o].renamed = renamed,
                                   ![o].phase = IF all THEN "renamed" ELSE "staged"]
             /\ temps' = IF all THEN temps \ {o} ELSE temps
    /\ UNCHANGED <<records, named, storeMode, storeCrashes>>

\* One transaction with the rows and what commit() does with them.
Record(o) ==
    /\ storeMode = "up"
    /\ ops[o].phase = "renamed"
    /\ \A p \in ops[o].paths : records[p] = "none"
    /\ records' = [p \in Paths |-> IF p \in ops[o].paths THEN "complete" ELSE records[p]]
    /\ named' = (named \/ ops[o].paths = Sidecars)
    /\ ops' = [ops EXCEPT ![o] = Resting]
    /\ UNCHANGED <<disk, temps, storeMode, storeCrashes>>

\* Mutant: only the temporary files are removed.
RemovedTemporary(o) == disk

\* What a failed write takes back.
Removed(o) == [p \in Paths |-> IF p \in ops[o].renamed THEN "none" ELSE disk[p]]

\* A rename, the insertion (the path may have a corrupt row) or commit()
\* throws.
WriteFails(o) ==
    /\ storeMode = "up"
    /\ ops[o].phase \in {"staged", "renamed"}
    /\ disk' = Removed(o)
    /\ temps' = temps \ {o}
    /\ ops' = [ops EXCEPT ![o] = Resting]
    /\ UNCHANGED <<records, named, storeMode, storeCrashes>>

\* The directory cannot be synced after a rename (finalizeExternal then removes
\* the temporary file only), or a file cannot be removed: some stay.
RemovalFails(o) ==
    /\ storeMode = "up"
    /\ ops[o].phase \in {"staged", "renamed"}
    /\ \E left \in SUBSET ops[o].renamed :
          /\ disk' = PutAside(ops[o].renamed \ left)
          /\ ops' = [ops EXCEPT ![o] = Abandoned({}, left)]
    /\ temps' \in {temps, temps \ {o}}
    /\ UNCHANGED <<records, named, storeMode, storeCrashes>>

\* The temporary file stays.  discardExternal forgets to release the path, the
\* finally of finalizeExternal does not.
DiscardFails(o) ==
    /\ Free
    /\ ops[o].phase \in Awaited
    /\ \/ ops' = [ops EXCEPT ![o] = Abandoned(ops[o].paths, {})]
       \/ ops[o].phase = "validating" /\ ops' = [ops EXCEPT ![o] = Abandoned({}, {})]
    /\ UNCHANGED <<disk, temps, records, named, storeMode, storeCrashes>>

\* discardFinalized: the row goes in a transaction that ends after the unlink.
Unlink(o, p) ==
    /\ Free
    /\ ops[o] = Resting
    /\ records[p] = "complete"
    /\ disk' = [disk EXCEPT ![p] = "none"]
    /\ ops' = [ops EXCEPT ![o] = [phase |-> "unlinked", paths |-> {p}, renamed |-> {}]]
    /\ UNCHANGED <<temps, records, named, storeMode, storeCrashes>>

Unrecord(o) ==
    /\ storeMode = "up"
    /\ ops[o].phase = "unlinked"
    /\ records' = [p \in Paths |-> IF p \in ops[o].paths THEN "none" ELSE records[p]]
    /\ ops' = [ops EXCEPT ![o] = Resting]
    /\ UNCHANGED <<disk, temps, named, storeMode, storeCrashes>>

\* The sync of the directory or the commit fails: the row is back, the file gone.
UnrecordFails(o) ==
    /\ storeMode = "up"
    /\ ops[o].phase = "unlinked"
    /\ ops' = [ops EXCEPT ![o] = Abandoned({}, ops[o].paths)]
    /\ UNCHANGED <<disk, temps, records, named, storeMode, storeCrashes>>
-----------------------------------------------------------------------------
StoreCrash ==
    /\ storeCrashes < MaxStoreCrashes
    /\ storeCrashes' = storeCrashes + 1
    /\ storeMode' = "temporary files"
    /\ ops' = [o \in Ops |-> Resting]
    /\ UNCHANGED <<disk, temps, records, named>>

\* While the core is down a recorded file is damaged.
Damage(p) ==
    /\ storeMode = "temporary files"
    /\ disk[p] = "whole"
    /\ disk' = [disk EXCEPT ![p] = "damaged"]
    /\ UNCHANGED <<temps, records, named, ops, storeMode, storeCrashes>>

ReconcileTemporary ==
    /\ storeMode = "temporary files"
    /\ temps' = {}
    /\ storeMode' = "records"
    /\ UNCHANGED <<disk, records, named, ops, storeCrashes>>

\* A record without its file, byte for byte, becomes corrupt; what there is
\* of the file goes to quarantine first.
CheckRecord(p) ==
    /\ storeMode = "records"
    /\ records[p] = "complete" /\ disk[p] # "whole"
    /\ \/ disk[p] # "none" /\ disk' = PutAside({p}) /\ UNCHANGED records
       \/ disk[p] = "none" /\ records' = [records EXCEPT ![p] = "corrupt"] /\ UNCHANGED disk
    /\ UNCHANGED <<temps, named, ops, storeMode, storeCrashes>>

RecordsChecked ==
    /\ storeMode = "records"
    /\ \A p \in Paths : records[p] = "complete" => disk[p] = "whole"
    /\ storeMode' = "files"
    /\ UNCHANGED <<disk, temps, records, named, ops, storeCrashes>>

\* Files that no row names.
ReconcileFiles ==
    /\ storeMode = "files"
    /\ disk' = PutAside({p \in Paths : records[p] = "none"})
    /\ storeMode' = "interrupted"
    /\ UNCHANGED <<temps, records, named, ops, storeCrashes>>

\* cleanupInterruptedRenderArtifacts: if the recovery has failed the Render of
\* p as interrupted, its row goes, and its file after it.
CleanUp(p) ==
    /\ storeMode = "interrupted"
    /\ \/ /\ records[p] # "none"
          /\ \A q \in Paths : records[q] = "none" => disk[q] = "none"
          /\ records' = [records EXCEPT ![p] = "none"]
          /\ UNCHANGED disk
       \/ /\ records[p] = "none" /\ disk[p] # "none"
          /\ disk' = [disk EXCEPT ![p] = "none"]
          /\ UNCHANGED records
    /\ UNCHANGED <<temps, named, ops, storeMode, storeCrashes>>

CleanedUp ==
    /\ storeMode = "interrupted"
    /\ \A p \in Paths : records[p] = "none" => disk[p] = "none"
    /\ storeMode' = "up"
    /\ UNCHANGED <<disk, temps, records, named, ops, storeCrashes>>

StoreNext ==
    \/ \E o \in Ops :
         \/ Encoded(o) \/ DiscardExternal(o) \/ Stage(o) \/ Rename(o) \/ Record(o)
         \/ WriteFails(o) \/ RemovalFails(o) \/ DiscardFails(o)
         \/ Unrecord(o) \/ UnrecordFails(o)
         \/ \E p \in Video : ReserveExternal(o, p) \/ Unlink(o, p)
    \/ StoreCrash \/ ReconcileTemporary \/ RecordsChecked \/ ReconcileFiles \/ CleanedUp
    \/ \E p \in Paths : Damage(p) \/ CheckRecord(p)
    \/ \E p \in Video : CleanUp(p)

StoreSpec == StoreInit /\ [][StoreNext]_storeVars
-----------------------------------------------------------------------------
StoreTypeOK ==
    /\ disk \in [Paths -> {"none", "whole", "damaged"}]
    /\ records \in [Paths -> {"none", "complete", "corrupt"}]
    /\ temps \subseteq Ops
    /\ named \in BOOLEAN

\* What failed removals have left out of step since the core was started.
Strays == UNION {ops[o].renamed : o \in {q \in Ops : ops[q].phase = "abandoned"}}

\* A complete row has its file, and a file has a row.  (A corrupt row also
\* counts: what a crash leaves under its path is not taken for a stray.)
FilesAreRecorded ==
    \A p \in Paths \ Strays : /\ records[p] = "complete" => disk[p] = "whole"
                              /\ records[p] = "none"     => disk[p] = "none"

\* The Short names the batch exactly when all of its rows exist.
BatchIsWhole == \A p \in Sidecars : named <=> records[p] # "none"

\* A temporary file belongs to an operation that runs, or failed to remove it.
TemporaryFilesAreOwned == \A o \in temps : ops[o] # Resting

(***************************************************************************)
(* Whenever the core runs and is not in the middle of a write, files, rows *)
(* and the Short that names a batch of them agree: after failed writes, and*)
(* after crashes in any step, those of the reconciliation included.  Where *)
(* the removal of a file or a sync of its directory has failed as well, the*)
(* files of that operation and no others may lack a row or be missing, and *)
(* its temporary file stays, until the next start; the rows and the Short  *)
(* agree all the same, and after every start everything does.              *)
(***************************************************************************)
StoreAgrees ==
    Free => FilesAreRecorded /\ BatchIsWhole /\ TemporaryFilesAreOwned
=============================================================================
