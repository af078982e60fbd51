----------------------------- MODULE EpisodeSource -----------------------------
(***************************************************************************)
(* Which file an Episode stands for: import, background hashing, missing   *)
(* sources and their return, and relinking, while the user moves, edits    *)
(* and deletes the files.                                                  *)
(*                                                                         *)
(* Sources: media.ts (MediaService), watched-folders.ts (reconcile, scan), *)
(* repository.ts (episodes, relink_comparisons), service.ts (importPaths,  *)
(* storeTranscript).                                                       *)
(*                                                                         *)
(* Everything here awaits the disk between reading the database and        *)
(* writing it.  An action is a stretch between two awaits.  Any number of  *)
(* imports and confirmations run at once; hash and reconcile run in the    *)
(* job runner, one at a time.  A file is read under a check that its size  *)
(* and time stayed the same, so a read sees one version of the file; sizes *)
(* and probes agree whenever fingerprints do.  probeEpisode is left out:   *)
(* no caller enqueues a probe job.                                         *)
(***************************************************************************)
EXTENDS Naturals, FiniteSets

CONSTANTS
    Paths,          \* canonical paths
    Contents,       \* the bytes a file may hold; also their SHA-256
    FingerprintOf,  \* [Contents -> ...]: quickFingerprint reads three samples
    Episodes,       \* identifiers of Episodes
    Imports,        \* imports under way at once
    Relinks,        \* relinkSource calls under way at once
    Confirms,       \* confirmRelink calls under way at once
    Tokens,         \* relink comparisons
    None,
    MaxChanges      \* bound: changes of the file system

ASSUME NoneAssumption ==
    None \notin Paths \cup Contents \cup Episodes \cup Tokens
ASSUME BoundAssumption == MaxChanges \in Nat

VARIABLES
    files,      \* [Paths -> file]: content and modification time, or NoFile
    changes,    \* changes of the file system so far
    episodes,   \* the episodes table
    tokens,     \* the relink_comparisons table
    imports,    \* importPaths, one entry per input under way
    relinks, confirms,
    toHash,     \* Episodes with a queued hash job
    job,        \* the hash or reconcile handler the runner awaits
    uses,       \* history: how often a comparison has moved its Episode
    analysed    \* history: Episodes given a transcript since bytes nobody verified

vars == <<files, changes, episodes, tokens, imports, relinks, confirms, toHash,
          job, uses, analysed>>

disk == <<files, changes>>

Prints == {FingerprintOf[c] : c \in Contents}
Times  == 0 .. MaxChanges

File   == [content : Contents, mtime : Times]
NoFile == [content |-> None, mtime |-> 0]

Exists(p) == files[p] # NoFile

\* restore is the column relink_restore_status.
EpisodeRow == [status  : {"indexing", "ready", "source_missing"},
               restore : {"none", "indexing", "ready"},
               path    : Paths,
               print   : Prints,
               hash    : Contents \cup {None},
               mtime   : Times]
NoEpisode  == [status |-> "absent", restore |-> "none", path |-> None,
               print |-> None, hash |-> None, mtime |-> 0]

Token   == [state : {"issued", "consumed"}, episode : Episodes, path : Paths,
            content : Contents, mtime : Times]
NoToken == [state |-> "absent", episode |-> None, path |-> None, content |-> None,
            mtime |-> 0]

\* What an import knows of its file: hash is null until something needs it.
Source   == [path : Paths, print : Prints, hash : Contents \cup {None}, mtime : Times]
NoSource == [path |-> None, print |-> None, hash |-> None, mtime |-> 0]

Candidate == [id : Episodes, row : EpisodeRow]
Found     == [id : Episodes, hash : Contents]

Import   == [phase      : {"inspecting", "inspected", "hashing", "finalizing"},
             source     : Source,
             candidates : SUBSET Candidate,
             resolved   : SUBSET Found]
NoImport == [phase |-> "idle", source |-> NoSource, candidates |-> {}, resolved |-> {}]

Relink   == [phase : {"inspecting"}, episode : Episodes, hash : Contents \cup {None},
             print : Prints, path : Paths, content : Contents, mtime : Times]
NoRelink == [phase |-> "idle", episode |-> None, hash |-> None, print |-> None,
             path |-> None, content |-> None, mtime |-> 0]

Confirm   == [phase : {"inspecting"}, token : Tokens]
NoConfirm == [phase |-> "idle", token |-> None]

\* A hash of the file at path, or a check of one Episode with others to follow;
\* status is what the row said when the check began.
Job   == [kind : {"hash", "checking", "found", "gone"}, episode : Episodes,
          status : {"missing", "present", "unread"},
          path : Paths \cup {None}, file : File \cup {NoFile}, todo : SUBSET Episodes]
NoJob == [kind |-> "idle", episode |-> None, status |-> "unread", path |-> None,
          file |-> NoFile, todo |-> {}]

Known == {e \in Episodes : episodes[e].status # "absent"}
Missing(e) == episodes[e].status = "source_missing"

AtPath(p)    == {e \in Known : episodes[e].path = p}
WithPrint(f) == {e \in Known : episodes[e].print = f}

\* Before the first change the disk may hold copies of one file.
Init ==
    /\ \E old \in SUBSET Paths, c \in Contents :
         files = [p \in Paths |-> IF p \in old THEN [content |-> c, mtime |-> 0]
                                               ELSE NoFile]
    /\ changes = 0
    /\ episodes = [e \in Episodes |-> NoEpisode]
    /\ tokens = [t \in Tokens |-> NoToken]
    /\ imports = [i \in Imports |-> NoImport]
    /\ relinks = [i \in Relinks |-> NoRelink]
    /\ confirms = [i \in Confirms |-> NoConfirm]
    /\ toHash = {}
    /\ job = NoJob
    /\ uses = [t \in Tokens |-> 0]
    /\ analysed = {}
-----------------------------------------------------------------------------
(***************************************************************************)
(* The user and the file system.                                           *)
(***************************************************************************)

Change ==
    /\ changes < MaxChanges
    /\ changes' = changes + 1
    /\ UNCHANGED <<episodes, tokens, imports, relinks, confirms, toHash, job, uses,
                   analysed>>

\* A write has a modification time of its own; a move keeps the one it had.
WriteFile(p, c) == Change /\ files' = [files EXCEPT ![p] =
                                [content |-> c, mtime |-> changes + 1]]
RemoveFile(p)   == Exists(p) /\ Change /\ files' = [files EXCEPT ![p] = NoFile]
MoveFile(p, q)  == /\ p # q /\ Exists(p)
                   /\ Change
                   /\ files' = [files EXCEPT ![q] = files[p], ![p] = NoFile]
-----------------------------------------------------------------------------
(***************************************************************************)
(* Writes of the episodes table.                                           *)
(***************************************************************************)

\* markEpisodeSourceMissing
MarkedMissing(row) ==
    IF row.status = "source_missing" THEN row
    ELSE [row EXCEPT !.status = "source_missing",
                     !.restore = IF row.status = "ready" THEN "ready" ELSE "indexing"]

\* restoreEpisodeAtCurrentPath
Restored(row) ==
    IF row.status # "source_missing" THEN row
    ELSE [row EXCEPT !.status = row.restore, !.restore = "none"]

\* Mutant: a confirmed relink restores the former status as a verified one does.
RelinkedKeepingStatus(row, p, c, mtime, force) ==
    [row EXCEPT !.path = p, !.print = FingerprintOf[c], !.hash = c, !.mtime = mtime,
                !.status = row.restore, !.restore = "none"]

\* The UPDATE of commitEpisodeRelink; it throws if another Episode has the path.
Relinked(row, p, c, mtime, force) ==
    [row EXCEPT !.path = p, !.print = FingerprintOf[c], !.hash = c, !.mtime = mtime,
                !.status = IF force THEN "indexing" ELSE row.restore,
                !.restore = "none"]

MayRelink(e, p) == Missing(e) /\ AtPath(p) \subseteq {e}

\* storeTranscript: one transaction, refused while the source is missing; on a
\* ready Episode it changes nothing that is modelled here.
StoreTranscript(e) ==
    /\ episodes[e].status = "indexing"
    /\ episodes' = [episodes EXCEPT ![e].status = "ready"]
    /\ analysed' = analysed \cup {e}
    /\ UNCHANGED <<disk, tokens, imports, relinks, confirms, toHash, job, uses>>
-----------------------------------------------------------------------------
(***************************************************************************)
(* importPaths.                                                            *)
(***************************************************************************)

ImportGoes(i, next) ==
    /\ imports' = [imports EXCEPT ![i] = next]
    /\ UNCHANGED <<disk, tokens, relinks, confirms, job, uses, analysed>>

ImportOf(phase, source, candidates, resolved) ==
    [phase |-> phase, source |-> source, candidates |-> candidates, resolved |-> resolved]

\* inspectSource: a known path is not read again, its Episode is believed.
BeginImport(i, p) ==
    /\ imports[i].phase = "idle"
    /\ Exists(p)
    /\ \/ /\ AtPath(p) = {}
          /\ ImportGoes(i, ImportOf("inspecting",
               [path |-> p, print |-> FingerprintOf[files[p].content],
                hash |-> None, mtime |-> files[p].mtime], {}, {}))
       \/ \E e \in AtPath(p) :
            ImportGoes(i, ImportOf("inspected",
              [path |-> p, print |-> episodes[e].print,
               hash |-> episodes[e].hash, mtime |-> files[p].mtime], {}, {}))
    /\ UNCHANGED <<episodes, toHash>>

Unchanged(source) == Exists(source.path) /\ files[source.path].mtime = source.mtime

EndInspection(i) ==
    /\ imports[i].phase = "inspecting"
    /\ ImportGoes(i, IF Unchanged(imports[i].source)
                     THEN ImportOf("inspected", imports[i].source, {}, {}) ELSE NoImport)
    /\ UNCHANGED <<episodes, toHash>>

Finalizing == {i \in Imports : imports[i].phase \in {"hashing", "finalizing"}}

\* Mutant: identities are finalized concurrently.
BeginFinalizeUnserialized(i) ==
    /\ imports[i].phase = "inspected"
    /\ LET source == imports[i].source
           alike  == WithPrint(source.print)
       IN  ImportGoes(i,
             IF AtPath(source.path) # {} THEN NoImport
             ELSE ImportOf(IF alike = {} THEN "finalizing" ELSE "hashing", source,
                           {[id |-> e, row |-> episodes[e]] : e \in alike}, {}))
    /\ UNCHANGED <<episodes, toHash>>

\* finalizeIdentity begins when the import before it is through.
BeginFinalize(i) ==
    /\ imports[i].phase = "inspected"
    /\ Finalizing = {}
    /\ LET source == imports[i].source
           alike  == WithPrint(source.print)
       IN  ImportGoes(i,
             IF AtPath(source.path) # {} THEN NoImport
             ELSE ImportOf(IF alike = {} THEN "finalizing" ELSE "hashing", source,
                           {[id |-> e, row |-> episodes[e]] : e \in alike}, {}))
    /\ UNCHANGED <<episodes, toHash>>

\* The candidates whose file is the one the Episode was made from, hashed.
HashedCandidates(i) ==
    {[id |-> c.id, hash |-> files[c.row.path].content] :
        c \in {k \in imports[i].candidates :
                 /\ k.row.hash = None
                 /\ Exists(k.row.path)
                 /\ files[k.row.path].mtime = k.row.mtime}}

\* With Episodes of the same fingerprint, everything not yet hashed is.
HashForIdentity(i) ==
    /\ imports[i].phase = "hashing"
    /\ LET source == imports[i].source
           hash   == IF source.hash = None THEN files[source.path].content
                     ELSE source.hash
       IN  ImportGoes(i,
             IF source.hash = None /\ ~Unchanged(source) THEN NoImport
             ELSE ImportOf("finalizing", [source EXCEPT !.hash = hash],
                           imports[i].candidates, HashedCandidates(i)))
    /\ UNCHANGED <<episodes, toHash>>

\* The first statements of the transaction: hashes found meanwhile are kept.
Resolved(i) ==
    [e \in Episodes |->
        IF episodes[e].hash = None /\ \E r \in imports[i].resolved : r.id = e
        THEN [episodes[e] EXCEPT
                !.hash = (CHOOSE r \in imports[i].resolved : r.id = e).hash]
        ELSE episodes[e]]

\* The Episodes the query by path, or else by hash, may return.
Duplicates(i) ==
    LET source == imports[i].source
    IN  IF AtPath(source.path) # {} THEN AtPath(source.path)
        ELSE {e \in Known : source.hash # None /\ Resolved(i)[e].hash = source.hash}

Unresolved(i) ==
    \E c \in imports[i].candidates : c.row.status = "source_missing" /\ c.row.hash = None

ImportEnds(i) == ImportGoes(i, NoImport)

\* The final stat failed: the import is rejected.
RejectChanged(i) ==
    /\ imports[i].phase = "finalizing"
    /\ ~Unchanged(imports[i].source)
    /\ ImportEnds(i)
    /\ UNCHANGED <<episodes, toHash>>

\* A duplicate that is missing is moved to the imported file, any other stays.
ResolveDuplicate(i, e) ==
    LET source == imports[i].source
        row    == Resolved(i)[e]
    IN  /\ imports[i].phase = "finalizing"
        /\ Unchanged(source)
        /\ e \in Duplicates(i)
        /\ IF row.status = "source_missing" /\ source.hash # None /\ row.hash = source.hash
           THEN /\ MayRelink(e, source.path)
                /\ episodes' = [Resolved(i) EXCEPT ![e] =
                     Relinked(row, source.path, source.hash, source.mtime, FALSE)]
           ELSE episodes' = Resolved(i)
        /\ ImportEnds(i)
        /\ UNCHANGED toHash

\* A missing Episode that cannot be hashed may be this file: explicit relink.
RejectUnresolved(i) ==
    /\ imports[i].phase = "finalizing"
    /\ Unchanged(imports[i].source)
    /\ Duplicates(i) = {}
    /\ Unresolved(i)
    /\ episodes' = Resolved(i)
    /\ ImportEnds(i)
    /\ UNCHANGED toHash

\* A new Episode; importPaths of the service, but no scan, has it hashed later.
InsertEpisode(i, e, scanned) ==
    LET source == imports[i].source
    IN  /\ imports[i].phase = "finalizing"
        /\ Unchanged(source)
        /\ Duplicates(i) = {}
        /\ ~Unresolved(i)
        /\ e \notin Known
        /\ episodes' = [Resolved(i) EXCEPT ![e] =
             [status |-> "indexing", restore |-> "none", path |-> source.path,
              print |-> source.print, hash |-> source.hash, mtime |-> source.mtime]]
        /\ toHash' = IF scanned \/ source.hash # None THEN toHash ELSE toHash \cup {e}
        /\ ImportEnds(i)
-----------------------------------------------------------------------------
(***************************************************************************)
(* relinkSource and confirmRelink.                                         *)
(***************************************************************************)

RelinkGoes(i, next) ==
    /\ relinks' = [relinks EXCEPT ![i] = next]
    /\ UNCHANGED <<disk, imports, confirms, toHash, job, uses, analysed>>

\* The Episode is read, then the candidate is inspected and hashed.
BeginRelink(i, e, p) ==
    /\ relinks[i].phase = "idle"
    /\ Missing(e)
    /\ Exists(p)
    /\ RelinkGoes(i, [phase |-> "inspecting", episode |-> e, hash |-> episodes[e].hash,
                      print |-> episodes[e].print, path |-> p,
                      content |-> files[p].content, mtime |-> files[p].mtime])
    /\ UNCHANGED <<episodes, tokens>>

Inspected(i) ==
    /\ relinks[i].phase = "inspecting"
    /\ Exists(relinks[i].path)
    /\ files[relinks[i].path].mtime = relinks[i].mtime

\* The hash known when the call began decides.
CommitRelink(i) ==
    LET r == relinks[i]
    IN  /\ Inspected(i)
        /\ r.hash = r.content
        /\ MayRelink(r.episode, r.path)
        /\ episodes' = [episodes EXCEPT ![r.episode] =
             Relinked(@, r.path, r.content, r.mtime, FALSE)]
        /\ RelinkGoes(i, NoRelink)
        /\ UNCHANGED tokens

\* Without a hash the user is asked to confirm the comparison.
IssueToken(i, t) ==
    LET r == relinks[i]
    IN  /\ Inspected(i)
        /\ r.hash = None
        /\ r.print = FingerprintOf[r.content]
        /\ tokens[t].state = "absent"
        /\ tokens' = [tokens EXCEPT ![t] =
             [state |-> "issued", episode |-> r.episode, path |-> r.path,
              content |-> r.content, mtime |-> r.mtime]]
        /\ RelinkGoes(i, NoRelink)
        /\ UNCHANGED episodes

\* Refused as a mismatch, as no longer missing, or because the file changed.
RefuseRelink(i) ==
    /\ relinks[i].phase = "inspecting"
    /\ RelinkGoes(i, NoRelink)
    /\ UNCHANGED <<episodes, tokens>>

ConfirmGoes(i, next) ==
    /\ confirms' = [confirms EXCEPT ![i] = next]
    /\ UNCHANGED <<disk, imports, relinks, toHash, job>>

\* The candidate is what was compared.
StillCompared(t) == files[tokens[t].path] = [content |-> tokens[t].content,
                                             mtime   |-> tokens[t].mtime]

\* The comparison is looked up, then the candidate is inspected once more.
BeginConfirm(i, t) ==
    /\ confirms[i].phase = "idle"
    /\ tokens[t].state = "issued"
    /\ StillCompared(t)
    /\ ConfirmGoes(i, [phase |-> "inspecting", token |-> t])
    /\ UNCHANGED <<episodes, tokens, uses, analysed>>

\* Mutant: the comparison is consumed without a look at whether it still is open.
CommitConfirmUnguarded(i) ==
    LET t == confirms[i].token
        k == tokens[t]
    IN  /\ confirms[i].phase = "inspecting"
        /\ StillCompared(t)
        /\ MayRelink(k.episode, k.path)
        /\ tokens' = [tokens EXCEPT ![t].state = "consumed"]
        /\ episodes' = [episodes EXCEPT ![k.episode] =
             Relinked(@, k.path, k.content, k.mtime, TRUE)]
        /\ uses' = [uses EXCEPT ![t] = @ + 1]
        /\ analysed' = analysed \ {k.episode}
        /\ ConfirmGoes(i, NoConfirm)

\* One transaction: still missing, still unconsumed, then the forced relink.
CommitConfirm(i) ==
    LET t == confirms[i].token
        k == tokens[t]
    IN  /\ confirms[i].phase = "inspecting"
        /\ StillCompared(t)
        /\ MayRelink(k.episode, k.path)
        /\ k.state = "issued"
        /\ tokens' = [tokens EXCEPT ![t].state = "consumed"]
        /\ episodes' = [episodes EXCEPT ![k.episode] =
             Relinked(@, k.path, k.content, k.mtime, TRUE)]
        /\ uses' = [uses EXCEPT ![t] = @ + 1]
        /\ analysed' = analysed \ {k.episode}
        /\ ConfirmGoes(i, NoConfirm)

\* Changed, no longer missing, already used, or past its ten minutes.
RefuseConfirm(i) ==
    /\ confirms[i].phase = "inspecting"
    /\ ConfirmGoes(i, NoConfirm)
    /\ UNCHANGED <<episodes, tokens, uses, analysed>>
-----------------------------------------------------------------------------
(***************************************************************************)
(* Jobs of the runner: hashEpisode and reconcile.                          *)
(***************************************************************************)

JobGoes(next) ==
    /\ job' = next
    /\ UNCHANGED <<disk, tokens, imports, relinks, confirms, uses, analysed>>

\* The file is gone: the Episode is marked, the job fails.
HashFindsNoSource(e) ==
    /\ job.kind = "idle"
    /\ e \in toHash
    /\ ~Exists(episodes[e].path)
    /\ episodes' = [episodes EXCEPT ![e] = MarkedMissing(@)]
    /\ toHash' = toHash \ {e}
    /\ JobGoes(NoJob)

BeginHash(e) ==
    /\ job.kind = "idle"
    /\ e \in toHash
    /\ Exists(episodes[e].path)
    /\ toHash' = toHash \ {e}
    /\ JobGoes([kind |-> "hash", episode |-> e, status |-> "unread",
                 path |-> episodes[e].path, file |-> files[episodes[e].path],
                 todo |-> {}])
    /\ UNCHANGED episodes

\* A file that changed while it was read fails the job.
EndHash ==
    /\ job.kind = "hash"
    /\ episodes' = IF files[job.path] = job.file
                   THEN [episodes EXCEPT ![job.episode].hash = job.file.content]
                   ELSE episodes
    /\ JobGoes(NoJob)
    /\ UNCHANGED toHash

\* The loop of reconcile reads an Episode in the stretch that began the loop or
\* wrote the Episode before it, and then awaits the disk.
Checks(todo, rows) ==
    IF todo = {} THEN {NoJob}
    ELSE {[kind |-> "checking", episode |-> e,
           status |-> IF rows[e].status = "source_missing" THEN "missing" ELSE "present",
           path |-> rows[e].path, file |-> NoFile, todo |-> todo \ {e}] : e \in todo}

\* Every few minutes, and at the start of every scan.
BeginReconcile ==
    /\ job.kind = "idle"
    /\ \E next \in Checks(Known, episodes) : JobGoes(next)
    /\ UNCHANGED <<episodes, toHash>>

CheckSource ==
    /\ job.kind = "checking"
    /\ JobGoes([job EXCEPT !.kind = IF Exists(job.path) THEN "found" ELSE "gone",
                           !.path = None])
    /\ UNCHANGED <<episodes, toHash>>

\* Mutant: what is missing stays so until it is relinked.
ApplyMissingOnly ==
    /\ job.kind \in {"found", "gone"}
    /\ episodes' = [episodes EXCEPT ![job.episode] =
         IF job.kind = "gone" /\ job.status = "present" THEN MarkedMissing(@) ELSE @]
    /\ \E next \in Checks(job.todo, episodes') : JobGoes(next)
    /\ UNCHANGED toHash

\* The status read before the check decides which of the two writes is tried.
ApplyCheck ==
    /\ job.kind \in {"found", "gone"}
    /\ episodes' = [episodes EXCEPT ![job.episode] =
         IF job.kind = "gone" /\ job.status = "present" THEN MarkedMissing(@)
         ELSE IF job.kind = "found" /\ job.status = "missing" THEN Restored(@) ELSE @]
    /\ \E next \in Checks(job.todo, episodes') : JobGoes(next)
    /\ UNCHANGED toHash
-----------------------------------------------------------------------------
DiskStep ==
    \/ \E p \in Paths, c \in Contents : WriteFile(p, c)
    \/ \E p \in Paths : RemoveFile(p)
    \/ \E p, q \in Paths : MoveFile(p, q)

ImportStep(i) ==
    \/ \E p \in Paths : BeginImport(i, p)
    \/ EndInspection(i)
    \/ BeginFinalize(i)
    \/ HashForIdentity(i)
    \/ RejectChanged(i)
    \/ \E e \in Episodes : ResolveDuplicate(i, e)
    \/ RejectUnresolved(i)
    \/ \E e \in Episodes, scanned \in BOOLEAN : InsertEpisode(i, e, scanned)

RelinkStep(i) ==
    \/ \E e \in Episodes, p \in Paths : BeginRelink(i, e, p)
    \/ CommitRelink(i)
    \/ \E t \in Tokens : IssueToken(i, t)
    \/ RefuseRelink(i)

ConfirmStep(i) ==
    \/ \E t \in Tokens : BeginConfirm(i, t)
    \/ CommitConfirm(i)
    \/ RefuseConfirm(i)

HashStep == EndHash \/ \E e \in Episodes : HashFindsNoSource(e) \/ BeginHash(e)

ReconcileStep ==
    \/ BeginReconcile
    \/ CheckSource
    \/ ApplyCheck

RunnerStep == HashStep \/ ReconcileStep

Next ==
    \/ DiskStep
    \/ \E i \in Imports : ImportStep(i)
    \/ \E i \in Relinks : RelinkStep(i)
    \/ \E i \in Confirms : ConfirmStep(i)
    \/ RunnerStep
    \/ \E e \in Episodes : StoreTranscript(e)

Spec == Init /\ [][Next]_vars

(***************************************************************************)
(* The runner takes up and carries on its jobs, of which the interval      *)
(* timer keeps adding a reconciliation, and reads of the disk return.      *)
(***************************************************************************)
FairSpec == Spec /\ WF_vars(RunnerStep)
-----------------------------------------------------------------------------
(***************************************************************************)
(* Properties                                                              *)
(***************************************************************************)

\* The type invariant of the module.
TypeOK ==
    /\ files \in [Paths -> File \cup {NoFile}]
    /\ changes \in Times
    /\ episodes \in [Episodes -> EpisodeRow \cup {NoEpisode}]
    /\ tokens \in [Tokens -> Token \cup {NoToken}]
    /\ imports \in [Imports -> Import \cup {NoImport}]
    /\ relinks \in [Relinks -> Relink \cup {NoRelink}]
    /\ confirms \in [Confirms -> Confirm \cup {NoConfirm}]
    /\ toHash \subseteq Known
    /\ job \in Job \cup {NoJob}
    /\ uses \in [Tokens -> Nat]
    /\ analysed \subseteq Known

\* Files that sampling cannot tell apart are told apart by their bytes: of two
\* Episodes with one fingerprint, at least one had its bytes hashed before the
\* second was made, also when both were imported at once.
DuplicatesAreResolved ==
    \A d, e \in Known :
        d # e /\ episodes[d].print = episodes[e].print =>
            episodes[d].hash # None \/ episodes[e].hash # None

\* A confirmation moves its Episode once, however many are under way, and even
\* if the source is lost again in between.
ConfirmationIsSingleUse == \A t \in Tokens : uses[t] <= 1

\* An Episode is ready, or becomes so when its source returns, only if it was
\* given a transcript since the last confirmed relink: a move to bytes nobody
\* verified sends it through analysis again, whatever is lost and restored in
\* between.
ReadyIsAnalysed ==
    \A e \in Known :
        episodes[e].status = "ready" \/ episodes[e].restore = "ready" => e \in analysed

\* Missed events are repaired: once the files rest, every Episode comes to be
\* shown as missing exactly if there is no file at its path.
SourcesAreReconciled ==
    <>[](\A e \in Known : Missing(e) <=> ~Exists(episodes[e].path))

\* The documented rule (SPEC.md, 5.3): an Episode whose bytes were verified is
\* never relinked to a file with other bytes.
RelinkKeepsVerifiedContent ==
    [][\A e \in Known :
          /\ episodes[e].hash # None
          /\ episodes'[e].path # episodes[e].path
          => files[episodes'[e].path].content = episodes[e].hash]_vars
=============================================================================
