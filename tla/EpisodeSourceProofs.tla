-------------------------- MODULE EpisodeSourceProofs --------------------------
(***************************************************************************)
(* Theorems about EpisodeSource, for every set of paths, contents,         *)
(* Episodes and calls under way, and any number of changes of the disk.    *)
(***************************************************************************)
EXTENDS EpisodeSource, TLAPS

\* A row that can be restored whenever it is missing.
GoodRow == {row \in EpisodeRow : row.status = "source_missing" => row.restore # "none"}

Rows == [Episodes -> GoodRow \cup {NoEpisode}]

\* The Episode is ready, or will be when its source returns.
ReadyRow(row) == row.status = "ready" \/ row.restore = "ready"

KnownIn(rows) == {e \in Episodes : rows[e].status # "absent"}

\* The work under way is about Episodes that exist.
ImportsKnown ==
    \A i \in Imports : /\ \A c \in imports[i].candidates : c.id \in Known
                       /\ \A r \in imports[i].resolved : r.id \in Known

JobKnown ==
    /\ job # NoJob => job.episode \in Known /\ job.todo \subseteq Known
    /\ job.kind = "hash" => job.file \in File /\ job.path \in Paths
    /\ job.kind = "checking" => job.path \in Paths

TypeInv == TypeOK /\ episodes \in Rows /\ ImportsKnown /\ JobKnown
-----------------------------------------------------------------------------
(***************************************************************************)
(* What the writes of the episodes table make of a row.                    *)
(***************************************************************************)

LEMMA RowFields ==
    ASSUME NEW row \in GoodRow
    PROVE  /\ row.status \in {"indexing", "ready", "source_missing"}
           /\ row.restore \in {"none", "indexing", "ready"}
           /\ row.path \in Paths
           /\ row.print \in Prints
           /\ row.hash \in Contents \cup {None}
           /\ row.mtime \in Times
           /\ row.status = "source_missing" => row.restore \in {"indexing", "ready"}
           /\ row \in EpisodeRow
           /\ row # NoEpisode
BY DEF GoodRow, EpisodeRow, NoEpisode

LEMMA RowMade ==
    ASSUME NEW st \in {"indexing", "ready", "source_missing"},
           NEW rs \in {"none", "indexing", "ready"}, NEW p \in Paths, NEW f \in Prints,
           NEW h \in Contents \cup {None}, NEW m \in Times,
           st = "source_missing" => rs # "none"
    PROVE  [status |-> st, restore |-> rs, path |-> p, print |-> f, hash |-> h,
            mtime |-> m] \in GoodRow
BY DEF GoodRow, EpisodeRow

LEMMA RowIs ==
    ASSUME NEW row \in GoodRow
    PROVE  row = [status |-> row.status, restore |-> row.restore, path |-> row.path,
                  print |-> row.print, hash |-> row.hash, mtime |-> row.mtime]
BY DEF GoodRow, EpisodeRow

LEMMA MarkedIsGood ==
    ASSUME NEW row \in GoodRow
    PROVE  /\ MarkedMissing(row) \in GoodRow
           /\ MarkedMissing(row).print = row.print
           /\ MarkedMissing(row).hash = row.hash
           /\ MarkedMissing(row).status # "ready"
           /\ MarkedMissing(row).restore = "ready" =>
                row.status = "ready" \/ row.restore = "ready"
<1>1. CASE row.status = "source_missing"
  BY <1>1, RowFields DEF MarkedMissing
<1>2. CASE row.status # "source_missing"
  <2>. DEFINE back == IF row.status = "ready" THEN "ready" ELSE "indexing"
              made == [status |-> "source_missing", restore |-> back, path |-> row.path,
                       print |-> row.print, hash |-> row.hash, mtime |-> row.mtime]
  <2>1. MarkedMissing(row) = made
    BY <1>2, RowFields DEF MarkedMissing, EpisodeRow
  <2>2. back \in {"indexing", "ready"}
    OBVIOUS
  <2>3. made \in GoodRow
    BY <2>2, RowFields, RowMade
  <2>. QED
    BY <2>1, <2>3
<1>. QED
  BY <1>1, <1>2

LEMMA RestoredIsGood ==
    ASSUME NEW row \in GoodRow
    PROVE  /\ Restored(row) \in GoodRow
           /\ Restored(row).print = row.print
           /\ Restored(row).hash = row.hash
           /\ Restored(row).status = "ready" \/ Restored(row).restore = "ready" =>
                row.status = "ready" \/ row.restore = "ready"
<1>1. CASE row.status # "source_missing"
  BY <1>1 DEF Restored
<1>2. CASE row.status = "source_missing"
  <2>. DEFINE made == [status |-> row.restore, restore |-> "none", path |-> row.path,
                       print |-> row.print, hash |-> row.hash, mtime |-> row.mtime]
  <2>1. Restored(row) = made
    BY <1>2, RowFields DEF Restored, EpisodeRow
  <2>2. made \in GoodRow
    BY <1>2, RowFields, RowMade
  <2>. QED
    BY <2>1, <2>2
<1>. QED
  BY <1>1, <1>2

LEMMA RelinkedIsGood ==
    ASSUME NEW row \in GoodRow, NEW p \in Paths, NEW c \in Contents, NEW m \in Times,
           NEW force \in BOOLEAN, row.status = "source_missing"
    PROVE  Relinked(row, p, c, m, force) \in GoodRow
<1>. FingerprintOf[c] \in Prints
  BY DEF Prints
<1>. DEFINE st   == IF force THEN "indexing" ELSE row.restore
            made == [status |-> st, restore |-> "none", path |-> p,
                     print |-> FingerprintOf[c], hash |-> c, mtime |-> m]
<1>1. Relinked(row, p, c, m, force) = made
  <2>1. Relinked(row, p, c, m, force)
          = [row EXCEPT !.path = p, !.print = FingerprintOf[c], !.hash = c, !.mtime = m,
                        !.status = st, !.restore = "none"]
    BY DEF Relinked
  <2>. HIDE DEF st
  <2>. QED
    BY <2>1, RowFields DEF EpisodeRow
<1>2. st \in {"indexing", "ready"}
  BY RowFields
<1>3. made \in GoodRow
  BY <1>2, RowMade
<1>. QED
  BY <1>1, <1>3

LEMMA VerifiedRow ==
    ASSUME NEW row \in GoodRow, NEW p \in Paths, NEW c \in Contents, NEW m \in Times,
           row.status = "source_missing"
    PROVE  LET made == Relinked(row, p, c, m, FALSE)
           IN  (ReadyRow(made) => ReadyRow(row)) /\ made.hash = c
BY RowFields DEF Relinked, EpisodeRow, ReadyRow

LEMMA ConfirmedRow ==
    ASSUME NEW row \in GoodRow, NEW p \in Paths, NEW c \in Contents, NEW m \in Times,
           row.status = "source_missing"
    PROVE  LET made == Relinked(row, p, c, m, TRUE)
           IN  ~ReadyRow(made) /\ made.hash = c
BY RowFields DEF Relinked, EpisodeRow, ReadyRow

\* A relinked Episode has the hash of the file it moves to.
LEMMA VerifiedHash ==
    ASSUME NEW row \in GoodRow, NEW p \in Paths, NEW c \in Contents, NEW m \in Times,
           row.status = "source_missing"
    PROVE  Relinked(row, p, c, m, FALSE).hash = c
BY VerifiedRow

LEMMA ConfirmedHash ==
    ASSUME NEW row \in GoodRow, NEW p \in Paths, NEW c \in Contents, NEW m \in Times,
           row.status = "source_missing"
    PROVE  Relinked(row, p, c, m, TRUE).hash = c
BY ConfirmedRow

LEMMA HashedIsGood ==
    ASSUME NEW row \in GoodRow, NEW c \in Contents
    PROVE  /\ [row EXCEPT !.hash = c] \in GoodRow
           /\ [row EXCEPT !.hash = c].hash = c
           /\ [row EXCEPT !.hash = c].print = row.print
           /\ [row EXCEPT !.hash = c].status = row.status
           /\ [row EXCEPT !.hash = c].restore = row.restore
           /\ [row EXCEPT !.hash = c].path = row.path
<1>. DEFINE made == [status |-> row.status, restore |-> row.restore, path |-> row.path,
                     print |-> row.print, hash |-> c, mtime |-> row.mtime]
<1>1. [row EXCEPT !.hash = c] = made
  BY RowIs
<1>2. made \in GoodRow
  BY RowFields, RowMade
<1>. QED
  BY <1>1, <1>2

LEMMA ReadyIsGood ==
    ASSUME NEW row \in GoodRow
    PROVE  row.status = "indexing" =>
             /\ [row EXCEPT !.status = "ready"] \in GoodRow
             /\ [row EXCEPT !.status = "ready"].print = row.print
             /\ [row EXCEPT !.status = "ready"].hash = row.hash
<1>. DEFINE made == [status |-> "ready", restore |-> row.restore, path |-> row.path,
                     print |-> row.print, hash |-> row.hash, mtime |-> row.mtime]
<1>1. [row EXCEPT !.status = "ready"] = made
  BY RowIs
<1>2. made \in GoodRow
  BY RowFields, RowMade
<1>. QED
  BY <1>1, <1>2

\* A known Episode has a good row, and writing a good row keeps the table good.
LEMMA KnownRow ==
    ASSUME NEW rows \in Rows, NEW e \in KnownIn(rows)
    PROVE  rows[e] \in GoodRow /\ e \in Episodes
BY DEF Rows, KnownIn, NoEpisode

LEMMA RowsKeep ==
    ASSUME NEW rows \in Rows, NEW e \in Episodes, NEW row \in GoodRow
    PROVE  /\ [rows EXCEPT ![e] = row] \in Rows
           /\ KnownIn([rows EXCEPT ![e] = row]) = KnownIn(rows) \cup {e}
BY RowFields DEF Rows, KnownIn

LEMMA KnownIsKnownIn == Known = KnownIn(episodes) /\ Known' = KnownIn(episodes')
BY DEF Known, KnownIn

LEMMA RowsAreTyped ==
    ASSUME NEW rows \in Rows
    PROVE  rows \in [Episodes -> EpisodeRow \cup {NoEpisode}]
BY DEF Rows, GoodRow
-----------------------------------------------------------------------------
(***************************************************************************)
(* Type correctness.  A step writes the episodes table so that no Episode  *)
(* disappears, and moves one of the calls under way.                       *)
(***************************************************************************)

\* What a step may do to the episodes table, and what it leaves true.
Grows == episodes' \in Rows /\ Known \subseteq Known'

LEMMA SameRows == ASSUME TypeInv, UNCHANGED episodes PROVE Grows /\ Known' = Known
BY DEF TypeInv, Grows, Known

LEMMA OneRow ==
    ASSUME TypeInv, NEW e \in Episodes, NEW row \in GoodRow,
           episodes' = [episodes EXCEPT ![e] = row]
    PROVE  Grows /\ Known' = Known \cup {e}
<1>1. episodes \in Rows
  BY DEF TypeInv
<1>2. episodes' \in Rows /\ KnownIn(episodes') = KnownIn(episodes) \cup {e}
  BY <1>1, RowsKeep
<1>. QED
  BY <1>2, KnownIsKnownIn DEF Grows

LEMMA KnownEpisode ==
    ASSUME TypeInv, NEW e \in Known
    PROVE  episodes[e] \in GoodRow /\ e \in Episodes
BY KnownRow, KnownIsKnownIn DEF TypeInv

LEMMA MissingIsKnown ==
    ASSUME TypeInv, NEW e \in Episodes, Missing(e)
    PROVE  e \in Known /\ episodes[e] \in GoodRow /\ episodes[e].status = "source_missing"
<1>1. e \in Known
  BY DEF Missing, Known
<1>. QED
  BY <1>1, KnownEpisode DEF Missing

\* The parts of the invariant that depend on which Episodes exist.
LEMMA ImportsStayKnown ==
    ASSUME ImportsKnown, Known \subseteq Known', UNCHANGED imports
    PROVE  ImportsKnown'
BY DEF ImportsKnown

LEMMA JobStaysKnown ==
    ASSUME JobKnown, Known \subseteq Known', UNCHANGED job
    PROVE  JobKnown'
BY DEF JobKnown

LEMMA ImportMoves ==
    ASSUME TypeInv, NEW i \in Imports, NEW next \in Import \cup {NoImport},
           ImportGoes(i, next), Grows, toHash' \subseteq Known',
           \A c \in next.candidates : c.id \in Known,
           \A r \in next.resolved : r.id \in Known
    PROVE  TypeInv'
<1>1. ImportsKnown'
  BY DEF TypeInv, TypeOK, ImportGoes, ImportsKnown, Grows
<1>2. JobKnown'
  BY JobStaysKnown DEF TypeInv, ImportGoes, Grows
<1>3. TypeOK'
  BY RowsAreTyped DEF TypeInv, TypeOK, ImportGoes, Grows, disk
<1>. QED
  BY <1>1, <1>2, <1>3 DEF TypeInv, Grows

LEMMA ImportIsOver ==
    ASSUME TypeInv, NEW i \in Imports, ImportGoes(i, NoImport), Grows,
           toHash' \subseteq Known'
    PROVE  TypeInv'
<1>1. NoImport.candidates = {} /\ NoImport.resolved = {}
  BY DEF NoImport
<1>. QED
  BY <1>1, ImportMoves

LEMMA RelinkMoves ==
    ASSUME TypeInv, NEW i \in Relinks, NEW next \in Relink \cup {NoRelink},
           RelinkGoes(i, next), Grows, tokens' \in [Tokens -> Token \cup {NoToken}]
    PROVE  TypeInv'
<1>1. ImportsKnown' /\ JobKnown'
  BY ImportsStayKnown, JobStaysKnown DEF TypeInv, RelinkGoes, Grows
<1>2. TypeOK'
  BY RowsAreTyped DEF TypeInv, TypeOK, RelinkGoes, Grows, disk
<1>. QED
  BY <1>1, <1>2 DEF TypeInv, Grows

LEMMA ConfirmMoves ==
    ASSUME TypeInv, NEW i \in Confirms, NEW next \in Confirm \cup {NoConfirm},
           ConfirmGoes(i, next), Grows, tokens' \in [Tokens -> Token \cup {NoToken}],
           uses' \in [Tokens -> Nat], analysed' \subseteq Known'
    PROVE  TypeInv'
<1>1. ImportsKnown' /\ JobKnown'
  BY ImportsStayKnown, JobStaysKnown DEF TypeInv, ConfirmGoes, Grows
<1>2. TypeOK'
  BY RowsAreTyped DEF TypeInv, TypeOK, ConfirmGoes, Grows, disk
<1>. QED
  BY <1>1, <1>2 DEF TypeInv, Grows

LEMMA JobMoves ==
    ASSUME TypeInv, NEW next \in Job \cup {NoJob}, JobGoes(next), Grows,
           toHash' \subseteq Known',
           next # NoJob => next.episode \in Known' /\ next.todo \subseteq Known',
           next.kind = "hash" => next.file \in File /\ next.path \in Paths,
           next.kind = "checking" => next.path \in Paths
    PROVE  TypeInv'
<1>1. ImportsKnown' /\ JobKnown'
  BY ImportsStayKnown DEF TypeInv, JobGoes, Grows, JobKnown
<1>2. TypeOK'
  BY RowsAreTyped DEF TypeInv, TypeOK, JobGoes, Grows, disk
<1>. QED
  BY <1>1, <1>2 DEF TypeInv, Grows

LEMMA JobIsOver ==
    ASSUME TypeInv, JobGoes(NoJob), Grows, toHash' \subseteq Known'
    PROVE  TypeInv'
<1>1. NoJob.kind = "idle"
  BY DEF NoJob
<1>. QED
  BY <1>1, JobMoves

\* The next check of the loop is a job about an Episode that exists.
LEMMA NextCheck ==
    ASSUME NEW rows \in Rows, NEW todo \in SUBSET KnownIn(rows),
           NEW next \in Checks(todo, rows)
    PROVE  /\ next \in Job \cup {NoJob}
           /\ next # NoJob => /\ next.episode \in KnownIn(rows)
                              /\ next.todo \subseteq KnownIn(rows)
           /\ next.kind # "hash"
           /\ next.kind = "checking" => next.path \in Paths
<1>1. CASE todo = {}
  BY <1>1 DEF Checks, NoJob
<1>2. CASE todo # {}
  <2>1. PICK e \in todo :
          next = [kind |-> "checking", episode |-> e,
                  status |-> IF rows[e].status = "source_missing" THEN "missing"
                             ELSE "present",
                  path |-> rows[e].path, file |-> NoFile, todo |-> todo \ {e}]
    BY <1>2 DEF Checks
  <2>. DEFINE status == IF rows[e].status = "source_missing" THEN "missing" ELSE "present"
  <2>2. e \in Episodes /\ rows[e].path \in Paths /\ todo \ {e} \subseteq Episodes
    BY KnownRow, RowFields DEF KnownIn
  <2>3. status \in {"missing", "present", "unread"}
    OBVIOUS
  <2>. HIDE DEF status
  <2>4. next = [kind |-> "checking", episode |-> e, status |-> status,
                path |-> rows[e].path, file |-> NoFile, todo |-> todo \ {e}]
    BY <2>1 DEF status
  <2>. QED
    BY <2>2, <2>3, <2>4 DEF Job
<1>. QED
  BY <1>1, <1>2

LEMMA DiskTypes == ASSUME TypeInv, DiskStep PROVE TypeInv'
<1>1. Grows
  BY SameRows DEF DiskStep, WriteFile, RemoveFile, MoveFile, Change
<1>2. Change
  BY DEF DiskStep, WriteFile, RemoveFile, MoveFile
<1>3. changes' \in Times /\ changes + 1 \in Times /\ changes \in Times
  BY <1>2, BoundAssumption DEF Change, TypeInv, TypeOK, Times
<1>4. files' \in [Paths -> File \cup {NoFile}]
  <2>. files \in [Paths -> File \cup {NoFile}]
    BY DEF TypeInv, TypeOK
  <2>1. ASSUME NEW p \in Paths, NEW c \in Contents, WriteFile(p, c)
        PROVE  files' \in [Paths -> File \cup {NoFile}]
    <3>1. [content |-> c, mtime |-> changes + 1] \in File
      BY <1>3 DEF File
    <3>. QED
      BY <2>1, <3>1 DEF WriteFile
  <2>2. ASSUME NEW p \in Paths, RemoveFile(p)
        PROVE  files' \in [Paths -> File \cup {NoFile}]
    BY <2>2 DEF RemoveFile
  <2>3. ASSUME NEW p \in Paths, NEW q \in Paths, MoveFile(p, q)
        PROVE  files' \in [Paths -> File \cup {NoFile}]
    BY <2>3 DEF MoveFile
  <2>. QED
    BY <2>1, <2>2, <2>3 DEF DiskStep
<1>5. ImportsKnown' /\ JobKnown'
  BY <1>1, <1>2, ImportsStayKnown, JobStaysKnown DEF TypeInv, Change, Grows
<1>6. TypeOK'
  BY <1>1, <1>2, <1>3, <1>4, RowsAreTyped DEF TypeInv, TypeOK, Change, Grows
<1>. QED
  BY <1>1, <1>5, <1>6 DEF TypeInv, Grows

LEMMA TranscriptTypes ==
    ASSUME TypeInv, NEW e \in Episodes, StoreTranscript(e) PROVE TypeInv' /\ Grows
<1>. DEFINE row == [episodes[e] EXCEPT !.status = "ready"]
<1>1. e \in Known
  BY DEF StoreTranscript, Known
<1>2. row \in GoodRow
  BY <1>1, KnownEpisode, ReadyIsGood DEF StoreTranscript
<1>3. episodes' = [episodes EXCEPT ![e] = row]
  BY DEF StoreTranscript
<1>. HIDE DEF row
<1>4. Grows /\ Known' = Known \cup {e}
  BY <1>2, <1>3, OneRow
<1>5. ImportsKnown' /\ JobKnown'
  BY <1>4, ImportsStayKnown, JobStaysKnown DEF TypeInv, StoreTranscript, Grows
<1>6. TypeOK'
  BY <1>4, RowsAreTyped DEF TypeInv, TypeOK, StoreTranscript, Grows, disk
<1>. QED
  BY <1>4, <1>5, <1>6 DEF TypeInv, Grows

LEMMA ImportMade ==
    ASSUME NEW phase \in {"inspecting", "inspected", "hashing", "finalizing"},
           NEW source \in Source, NEW candidates \in SUBSET Candidate,
           NEW resolved \in SUBSET Found
    PROVE  /\ ImportOf(phase, source, candidates, resolved) \in Import
           /\ ImportOf(phase, source, candidates, resolved).phase = phase
           /\ ImportOf(phase, source, candidates, resolved).source = source
           /\ ImportOf(phase, source, candidates, resolved).candidates = candidates
           /\ ImportOf(phase, source, candidates, resolved).resolved = resolved
BY DEF ImportOf, Import

\* An import that is under way has a typed source.
LEMMA ImportUnderWay ==
    ASSUME TypeInv, NEW i \in Imports, imports[i].phase # "idle"
    PROVE  /\ imports[i] \in Import
           /\ imports[i].source \in Source
           /\ imports[i].candidates \in SUBSET Candidate
           /\ imports[i].resolved \in SUBSET Found
           /\ \A c \in imports[i].candidates : c.id \in Known
           /\ \A r \in imports[i].resolved : r.id \in Known
<1>1. imports[i] \in Import \cup {NoImport}
  BY DEF TypeInv, TypeOK
<1>2. imports[i] \in Import
  BY <1>1 DEF NoImport
<1>. QED
  BY <1>2 DEF TypeInv, ImportsKnown, Import

\* The file at a path that exists has content.
LEMMA ExistingFile ==
    ASSUME TypeInv, NEW p \in Paths, Exists(p)
    PROVE  files[p] \in File /\ files[p].content \in Contents /\ files[p].mtime \in Times
BY DEF TypeInv, TypeOK, Exists, File

LEMMA BeginImportTypes ==
    ASSUME TypeInv, NEW i \in Imports, NEW p \in Paths, BeginImport(i, p) PROVE TypeInv'
<1>1. Grows /\ toHash' \subseteq Known'
  BY SameRows DEF BeginImport, TypeInv, TypeOK
<1>2. CASE AtPath(p) = {} /\
           ImportGoes(i, ImportOf("inspecting",
             [path |-> p, print |-> FingerprintOf[files[p].content],
              hash |-> None, mtime |-> files[p].mtime], {}, {}))
  <2>. DEFINE source == [path |-> p, print |-> FingerprintOf[files[p].content],
                         hash |-> None, mtime |-> files[p].mtime]
  <2>1. source \in Source
    BY ExistingFile DEF BeginImport, Source, Prints
  <2>. HIDE DEF source
  <2>2. ImportGoes(i, ImportOf("inspecting", source, {}, {}))
    BY <1>2 DEF source
  <2>. QED
    BY <1>1, <2>1, <2>2, ImportMade, ImportMoves
<1>3. ASSUME NEW e \in AtPath(p),
             ImportGoes(i, ImportOf("inspected",
               [path |-> p, print |-> episodes[e].print,
                hash |-> episodes[e].hash, mtime |-> files[p].mtime], {}, {}))
      PROVE  TypeInv'
  <2>. DEFINE source == [path |-> p, print |-> episodes[e].print,
                         hash |-> episodes[e].hash, mtime |-> files[p].mtime]
  <2>1. source \in Source
    <3>1. episodes[e] \in GoodRow
      BY KnownEpisode DEF AtPath
    <3>. QED
      BY <3>1, RowFields, ExistingFile DEF BeginImport, Source
  <2>. HIDE DEF source
  <2>2. ImportGoes(i, ImportOf("inspected", source, {}, {}))
    BY <1>3 DEF source
  <2>. QED
    BY <1>1, <2>1, <2>2, ImportMade, ImportMoves
<1>. QED
  BY <1>2, <1>3 DEF BeginImport

LEMMA EndInspectionTypes ==
    ASSUME TypeInv, NEW i \in Imports, EndInspection(i) PROVE TypeInv'
<1>1. Grows /\ toHash' \subseteq Known'
  BY SameRows DEF EndInspection, TypeInv, TypeOK
<1>2. imports[i].source \in Source
  BY ImportUnderWay DEF EndInspection
<1>3. CASE ImportGoes(i, NoImport)
  BY <1>1, <1>3, ImportIsOver
<1>4. CASE ImportGoes(i, ImportOf("inspected", imports[i].source, {}, {}))
  BY <1>1, <1>2, <1>4, ImportMade, ImportMoves
<1>. QED
  BY <1>3, <1>4 DEF EndInspection

LEMMA BeginFinalizeTypes ==
    ASSUME TypeInv, NEW i \in Imports, BeginFinalize(i) PROVE TypeInv'
<1>. DEFINE source == imports[i].source
            alike  == WithPrint(source.print)
            cands  == {[id |-> e, row |-> episodes[e]] : e \in alike}
            phase  == IF alike = {} THEN "finalizing" ELSE "hashing"
<1>1. Grows /\ toHash' \subseteq Known'
  BY SameRows DEF BeginFinalize, TypeInv, TypeOK
<1>2. source \in Source
  BY ImportUnderWay DEF BeginFinalize
<1>3. cands \in SUBSET Candidate /\ \A c \in cands : c.id \in Known
  BY KnownEpisode, RowFields DEF WithPrint, Candidate
<1>4. phase \in {"inspecting", "inspected", "hashing", "finalizing"}
  OBVIOUS
<1>5. ImportGoes(i, NoImport) \/ ImportGoes(i, ImportOf(phase, source, cands, {}))
  BY DEF BeginFinalize
<1>. HIDE DEF source, cands, phase
<1>. QED
  BY <1>1, <1>2, <1>3, <1>4, <1>5, ImportMade, ImportMoves, ImportIsOver

LEMMA HashedAreFound ==
    ASSUME TypeInv, NEW i \in Imports, imports[i].phase # "idle"
    PROVE  /\ HashedCandidates(i) \in SUBSET Found
           /\ \A r \in HashedCandidates(i) : r.id \in Known
<1>1. ASSUME NEW c \in imports[i].candidates, Exists(c.row.path)
      PROVE  c.id \in Known /\ c.id \in Episodes /\ files[c.row.path].content \in Contents
  <2>1. c \in Candidate /\ c.id \in Known
    BY ImportUnderWay
  <2>2. c.id \in Episodes /\ c.row.path \in Paths
    BY <2>1 DEF Candidate, EpisodeRow
  <2>. QED
    BY <1>1, <2>1, <2>2, ExistingFile
<1>. QED
  BY <1>1 DEF HashedCandidates, Found

\* What an import whose file was hashed knows of it.
LEMMA HashedSource ==
    ASSUME TypeInv, NEW i \in Imports, HashForIdentity(i), imports'[i] # NoImport
    PROVE  /\ imports[i].source \in Source
           /\ imports'[i] \in Import
           /\ imports'[i].phase = "finalizing"
           /\ imports'[i].source.hash \in Contents
           /\ imports'[i].source.print = imports[i].source.print
           /\ ImportGoes(i, imports'[i])
           /\ imports'[i].candidates = imports[i].candidates
           /\ imports'[i].resolved = HashedCandidates(i)
<1>. DEFINE source == imports[i].source
            hash   == IF source.hash = None THEN files[source.path].content
                      ELSE source.hash
            hashed == [source EXCEPT !.hash = hash]
<1>1. source \in Source /\ imports[i].candidates \in SUBSET Candidate
  BY ImportUnderWay DEF HashForIdentity
<1>2. PICK next : /\ ImportGoes(i, next)
                  /\ \/ next = NoImport
                     \/ /\ ~(source.hash = None /\ ~Unchanged(source))
                        /\ next = ImportOf("finalizing", hashed, imports[i].candidates,
                                           HashedCandidates(i))
  BY DEF HashForIdentity
<1>3. imports'[i] = next
  BY <1>2 DEF ImportGoes, TypeInv, TypeOK
<1>4. hash \in Contents
  <2>1. source.path \in Paths /\ source.hash \in Contents \cup {None}
    BY <1>1 DEF Source
  <2>2. CASE source.hash = None
    BY <1>2, <1>3, <2>1, <2>2, ExistingFile DEF Unchanged
  <2>. QED
    BY <2>1, <2>2
<1>. HIDE DEF hash
<1>5. hashed \in Source /\ hashed.hash = hash /\ hashed.print = source.print
  BY <1>1, <1>4 DEF Source
<1>6. HashedCandidates(i) \in SUBSET Found
  BY HashedAreFound DEF HashForIdentity
<1>. HIDE DEF hashed, source
<1>7. ImportOf("finalizing", hashed, imports[i].candidates, HashedCandidates(i)) \in Import
  BY <1>1, <1>5, <1>6, ImportMade
<1>. QED
  BY <1>1, <1>2, <1>3, <1>4, <1>5, <1>6, <1>7, ImportMade DEF source

LEMMA HashForIdentityTypes ==
    ASSUME TypeInv, NEW i \in Imports, HashForIdentity(i) PROVE TypeInv'
<1>1. Grows /\ toHash' \subseteq Known'
  BY SameRows DEF HashForIdentity, TypeInv, TypeOK
<1>2. CASE imports'[i] = NoImport
  <2>1. ImportGoes(i, NoImport)
    BY <1>2 DEF HashForIdentity, ImportGoes, TypeInv, TypeOK
  <2>. QED
    BY <1>1, <2>1, ImportIsOver
<1>3. CASE imports'[i] # NoImport
  <2>1. \A r \in imports'[i].resolved : r.id \in Known
    BY <1>3, HashedSource, HashedAreFound DEF HashForIdentity
  <2>2. \A c \in imports'[i].candidates : c.id \in Known
    BY <1>3, HashedSource, ImportUnderWay DEF HashForIdentity
  <2>. QED
    BY <1>1, <1>3, <2>1, <2>2, HashedSource, ImportMoves
<1>. QED
  BY <1>2, <1>3

\* Hashes found on the way are added to rows that have none.
LEMMA ResolvedRow ==
    ASSUME TypeInv, NEW i \in Imports, imports[i].phase # "idle", NEW e \in Episodes
    PROVE  \/ Resolved(i)[e] = episodes[e]
           \/ /\ e \in Known
              /\ episodes[e].hash = None
              /\ \E c \in Contents : Resolved(i)[e] = [episodes[e] EXCEPT !.hash = c]
<1>1. CASE episodes[e].hash = None /\ \E r \in imports[i].resolved : r.id = e
  <2>. DEFINE found == CHOOSE r \in imports[i].resolved : r.id = e
  <2>1. found \in imports[i].resolved /\ found.id = e
    BY <1>1
  <2>2. found \in Found /\ found.id \in Known
    BY <2>1, ImportUnderWay
  <2>3. found.hash \in Contents
    BY <2>2 DEF Found
  <2>4. Resolved(i)[e] = [episodes[e] EXCEPT !.hash = found.hash]
    BY <1>1 DEF Resolved
  <2>. QED
    BY <1>1, <2>1, <2>2, <2>3, <2>4
<1>2. CASE ~(episodes[e].hash = None /\ \E r \in imports[i].resolved : r.id = e)
  BY <1>2 DEF Resolved
<1>. QED
  BY <1>1, <1>2

LEMMA ResolvedRows ==
    ASSUME TypeInv, NEW i \in Imports, imports[i].phase # "idle"
    PROVE  /\ Resolved(i) \in Rows
           /\ KnownIn(Resolved(i)) = Known
           /\ \A e \in Known : /\ Resolved(i)[e] \in GoodRow
                               /\ Resolved(i)[e].status = episodes[e].status
                               /\ Resolved(i)[e].restore = episodes[e].restore
                               /\ Resolved(i)[e].print = episodes[e].print
                               /\ \/ Resolved(i)[e].hash = episodes[e].hash
                                  \/ Resolved(i)[e].hash \in Contents
           /\ \A e \in Episodes \ Known : Resolved(i)[e] = episodes[e]
<1>1. ASSUME NEW e \in Known
      PROVE  /\ Resolved(i)[e] \in GoodRow
             /\ Resolved(i)[e].status = episodes[e].status
             /\ Resolved(i)[e].restore = episodes[e].restore
             /\ Resolved(i)[e].print = episodes[e].print
             /\ \/ Resolved(i)[e].hash = episodes[e].hash
                \/ Resolved(i)[e].hash \in Contents
  <2>1. episodes[e] \in GoodRow /\ e \in Episodes
    BY KnownEpisode
  <2>2. CASE Resolved(i)[e] = episodes[e]
    BY <2>1, <2>2
  <2>3. ASSUME NEW c \in Contents, Resolved(i)[e] = [episodes[e] EXCEPT !.hash = c]
        PROVE  /\ Resolved(i)[e] \in GoodRow
               /\ Resolved(i)[e].status = episodes[e].status
               /\ Resolved(i)[e].restore = episodes[e].restore
               /\ Resolved(i)[e].print = episodes[e].print
               /\ Resolved(i)[e].hash \in Contents
    BY <2>1, <2>3, HashedIsGood
  <2>. QED
    BY <2>1, <2>2, <2>3, ResolvedRow, ZenonT(60)
<1>2. \A e \in Episodes \ Known : Resolved(i)[e] = episodes[e]
  BY ResolvedRow
<1>3. Resolved(i) = [e \in Episodes |-> Resolved(i)[e]]
  BY DEF Resolved
<1>4. \A e \in Episodes \ Known : episodes[e] \in GoodRow \cup {NoEpisode}
  BY DEF TypeInv, Rows
<1>5. Resolved(i) \in Rows
  BY <1>1, <1>2, <1>3, <1>4 DEF Rows
<1>6. KnownIn(Resolved(i)) = Known
  BY <1>1, <1>2 DEF KnownIn, Known
<1>. QED
  BY <1>1, <1>2, <1>5, <1>6

\* The table is written with the hashes resolved, and perhaps one row on top.
LEMMA ResolvedGrows ==
    ASSUME TypeInv, NEW i \in Imports, imports[i].phase # "idle", episodes' = Resolved(i)
    PROVE  Grows /\ Known' = Known
BY ResolvedRows, KnownIsKnownIn DEF Grows

LEMMA ResolvedAndOneRow ==
    ASSUME TypeInv, NEW i \in Imports, imports[i].phase # "idle",
           NEW e \in Episodes, NEW row \in GoodRow,
           episodes' = [Resolved(i) EXCEPT ![e] = row]
    PROVE  Grows /\ Known' = Known \cup {e}
<1>1. Resolved(i) \in Rows /\ KnownIn(Resolved(i)) = Known
  BY ResolvedRows
<1>2. episodes' \in Rows /\ KnownIn(episodes') = Known \cup {e}
  BY <1>1, RowsKeep
<1>. QED
  BY <1>2, KnownIsKnownIn DEF Grows

LEMMA ResolvedAndKnownRow ==
    ASSUME TypeInv, NEW i \in Imports, imports[i].phase # "idle",
           NEW e \in Known, NEW row \in GoodRow,
           episodes' = [Resolved(i) EXCEPT ![e] = row]
    PROVE  /\ Known' = Known
           /\ episodes'[e] = row
           /\ \A d \in Known \ {e} : episodes'[d] = Resolved(i)[d]
<1>1. Known' = Known \cup {e} /\ Resolved(i) \in Rows
  BY KnownEpisode, ResolvedRows, ResolvedAndOneRow
<1>. QED
  BY <1>1 DEF Rows, Known

LEMMA RejectTypes ==
    ASSUME TypeInv, NEW i \in Imports, RejectChanged(i) \/ RejectUnresolved(i)
    PROVE  TypeInv'
<1>1. Grows /\ toHash' \subseteq Known'
  <2>1. CASE RejectChanged(i)
    BY <2>1, SameRows DEF RejectChanged, TypeInv, TypeOK
  <2>2. CASE RejectUnresolved(i)
    BY <2>2, ResolvedGrows DEF RejectUnresolved, TypeInv, TypeOK
  <2>. QED
    BY <2>1, <2>2
<1>2. ImportGoes(i, NoImport)
  BY DEF RejectChanged, RejectUnresolved, ImportEnds
<1>. QED
  BY <1>1, <1>2, ImportIsOver

\* The duplicate an import resolves to exists, and is moved only with a good row.
LEMMA DuplicateRow ==
    ASSUME TypeInv, NEW i \in Imports, NEW e \in Episodes, ResolveDuplicate(i, e)
    PROVE  /\ e \in Known
           /\ imports[i].phase # "idle"
           /\ \/ episodes' = Resolved(i)
              \/ \E p \in Paths, c \in Contents, m \in Times :
                   /\ episodes' = [Resolved(i) EXCEPT ![e] =
                                     Relinked(Resolved(i)[e], p, c, m, FALSE)]
                   /\ Resolved(i)[e].status = "source_missing"
<1>1. e \in Known /\ imports[i].phase # "idle"
  BY DEF ResolveDuplicate, Duplicates, AtPath
<1>2. imports[i].source \in Source
  BY <1>1, ImportUnderWay
<1>. QED
  BY <1>1, <1>2 DEF ResolveDuplicate, Source

LEMMA ResolveDuplicateTypes ==
    ASSUME TypeInv, NEW i \in Imports, NEW e \in Episodes, ResolveDuplicate(i, e)
    PROVE  TypeInv'
<1>1. Grows
  <2>1. CASE episodes' = Resolved(i)
    BY <2>1, DuplicateRow, ResolvedGrows
  <2>2. CASE episodes' # Resolved(i)
    <3>. PICK p \in Paths, c \in Contents, m \in Times :
           /\ episodes' = [Resolved(i) EXCEPT ![e] =
                             Relinked(Resolved(i)[e], p, c, m, FALSE)]
           /\ Resolved(i)[e].status = "source_missing"
      BY <2>2, DuplicateRow
    <3>1. Resolved(i)[e] \in GoodRow
      BY DuplicateRow, ResolvedRows
    <3>2. Relinked(Resolved(i)[e], p, c, m, FALSE) \in GoodRow
      BY <3>1, RelinkedIsGood
    <3>. QED
      BY <3>2, DuplicateRow, ResolvedAndOneRow
  <2>. QED
    BY <2>1, <2>2
<1>2. ImportGoes(i, NoImport) /\ toHash' = toHash
  BY DEF ResolveDuplicate, ImportEnds
<1>. QED
  BY <1>1, <1>2, ImportIsOver DEF Grows, TypeInv, TypeOK

\* The row of a new Episode.
LEMMA NewRow ==
    ASSUME TypeInv, NEW i \in Imports, NEW e \in Episodes, NEW scanned \in BOOLEAN,
           InsertEpisode(i, e, scanned)
    PROVE  /\ imports[i].source \in Source
           /\ e \notin Known
           /\ imports[i].phase = "finalizing"
           /\ \E row \in GoodRow :
                /\ row.status = "indexing" /\ row.restore = "none"
                /\ row.print = imports[i].source.print
                /\ row.hash = imports[i].source.hash
                /\ episodes' = [Resolved(i) EXCEPT ![e] = row]
<1>. DEFINE source == imports[i].source
            row    == [status |-> "indexing", restore |-> "none", path |-> source.path,
                       print |-> source.print, hash |-> source.hash,
                       mtime |-> source.mtime]
<1>1. source \in Source
  BY ImportUnderWay DEF InsertEpisode
<1>2. row \in GoodRow
  BY <1>1, RowMade DEF Source
<1>3. episodes' = [Resolved(i) EXCEPT ![e] = row]
  BY DEF InsertEpisode
<1>. QED
  BY <1>1, <1>2, <1>3 DEF InsertEpisode

LEMMA InsertTypes ==
    ASSUME TypeInv, NEW i \in Imports, NEW e \in Episodes, NEW scanned \in BOOLEAN,
           InsertEpisode(i, e, scanned)
    PROVE  TypeInv' /\ Known' = Known \cup {e}
<1>1. Grows /\ Known' = Known \cup {e}
  BY NewRow, ResolvedAndOneRow
<1>2. toHash' \subseteq toHash \cup {e}
  BY DEF InsertEpisode
<1>3. ImportGoes(i, NoImport)
  BY DEF InsertEpisode, ImportEnds
<1>. QED
  BY <1>1, <1>2, <1>3, ImportIsOver DEF TypeInv, TypeOK

LEMMA ImportTypes == ASSUME TypeInv, NEW i \in Imports, ImportStep(i) PROVE TypeInv'
BY BeginImportTypes, EndInspectionTypes, BeginFinalizeTypes, HashForIdentityTypes,
   RejectTypes, ResolveDuplicateTypes, InsertTypes DEF ImportStep

LEMMA RelinkUnderWay ==
    ASSUME TypeInv, NEW i \in Relinks, relinks[i].phase = "inspecting"
    PROVE  relinks[i] \in Relink
BY DEF TypeInv, TypeOK, NoRelink

\* A relink by verified bytes writes one good row of a missing Episode.
LEMMA CommitRelinkRow ==
    ASSUME TypeInv, NEW i \in Relinks, CommitRelink(i)
    PROVE  \E e \in Known, p \in Paths, c \in Contents, m \in Times :
             /\ episodes[e] \in GoodRow /\ e \in Episodes
             /\ episodes[e].status = "source_missing"
             /\ episodes' = [episodes EXCEPT ![e] = Relinked(episodes[e], p, c, m, FALSE)]
<1>1. relinks[i] \in Relink
  BY RelinkUnderWay DEF CommitRelink, Inspected
<1>2. /\ relinks[i].episode \in Episodes /\ relinks[i].path \in Paths
      /\ relinks[i].content \in Contents /\ relinks[i].mtime \in Times
  BY <1>1 DEF Relink
<1>3. Missing(relinks[i].episode)
  BY DEF CommitRelink, MayRelink
<1>4. /\ relinks[i].episode \in Known /\ episodes[relinks[i].episode] \in GoodRow
      /\ episodes[relinks[i].episode].status = "source_missing"
  BY <1>2, <1>3, MissingIsKnown
<1>. QED
  BY <1>2, <1>4 DEF CommitRelink

LEMMA RelinkTypes == ASSUME TypeInv, NEW i \in Relinks, RelinkStep(i) PROVE TypeInv'
<1>1. ASSUME NEW e \in Episodes, NEW p \in Paths, BeginRelink(i, e, p) PROVE TypeInv'
  <2>. DEFINE next == [phase |-> "inspecting", episode |-> e, hash |-> episodes[e].hash,
                       print |-> episodes[e].print, path |-> p,
                       content |-> files[p].content, mtime |-> files[p].mtime]
  <2>1. next \in Relink
    BY <1>1, MissingIsKnown, RowFields, ExistingFile DEF BeginRelink, Relink
  <2>2. RelinkGoes(i, next) /\ UNCHANGED <<episodes, tokens>>
    BY <1>1 DEF BeginRelink
  <2>. HIDE DEF next
  <2>. QED
    BY <2>1, <2>2, SameRows, RelinkMoves DEF TypeInv, TypeOK
<1>2. ASSUME CommitRelink(i) PROVE TypeInv'
  <2>1. Grows
    <3>. PICK e \in Known, p \in Paths, c \in Contents, m \in Times :
           /\ episodes[e] \in GoodRow /\ e \in Episodes
           /\ episodes[e].status = "source_missing"
           /\ episodes' = [episodes EXCEPT ![e] = Relinked(episodes[e], p, c, m, FALSE)]
      BY <1>2, CommitRelinkRow
    <3>1. Relinked(episodes[e], p, c, m, FALSE) \in GoodRow
      BY RelinkedIsGood
    <3>. QED
      BY <3>1, OneRow
  <2>. QED
    BY <1>2, <2>1, RelinkMoves DEF CommitRelink, TypeInv, TypeOK
<1>3. ASSUME NEW t \in Tokens, IssueToken(i, t) PROVE TypeInv'
  <2>. DEFINE r    == relinks[i]
              next == [state |-> "issued", episode |-> r.episode, path |-> r.path,
                       content |-> r.content, mtime |-> r.mtime]
  <2>1. next \in Token
    BY <1>3, RelinkUnderWay DEF IssueToken, Inspected, Relink, Token
  <2>2. tokens' = [tokens EXCEPT ![t] = next]
    BY <1>3 DEF IssueToken
  <2>. HIDE DEF next
  <2>3. tokens' \in [Tokens -> Token \cup {NoToken}]
    BY <2>1, <2>2 DEF TypeInv, TypeOK
  <2>. QED
    BY <1>3, <2>3, SameRows, RelinkMoves DEF IssueToken
<1>4. ASSUME RefuseRelink(i) PROVE TypeInv'
  BY <1>4, SameRows, RelinkMoves DEF RefuseRelink, TypeInv, TypeOK
<1>. QED
  BY <1>1, <1>2, <1>3, <1>4 DEF RelinkStep

\* A confirmed relink writes one good row, and uses its comparison.
LEMMA CommitConfirmRow ==
    ASSUME TypeInv, NEW i \in Confirms, CommitConfirm(i)
    PROVE  LET t == confirms[i].token
               e == tokens[t].episode
           IN  /\ t \in Tokens /\ tokens[t] \in Token /\ tokens[t].state = "issued"
               /\ e \in Known /\ e \in Episodes /\ episodes[e] \in GoodRow
               /\ episodes[e].status = "source_missing"
               /\ \E p \in Paths, c \in Contents, m \in Times :
                    episodes' = [episodes EXCEPT ![e] =
                                   Relinked(episodes[e], p, c, m, TRUE)]
<1>. DEFINE t == confirms[i].token
            e == tokens[t].episode
<1>1. confirms[i] \in Confirm
  BY DEF CommitConfirm, TypeInv, TypeOK, NoConfirm
<1>2. t \in Tokens
  BY <1>1 DEF Confirm
<1>3. tokens[t].state = "issued"
  BY DEF CommitConfirm
<1>4. tokens[t] \in Token
  BY <1>2, <1>3 DEF TypeInv, TypeOK, NoToken
<1>5. /\ e \in Episodes /\ tokens[t].path \in Paths /\ tokens[t].content \in Contents
      /\ tokens[t].mtime \in Times
  BY <1>4 DEF Token
<1>6. Missing(e)
  BY DEF CommitConfirm, MayRelink
<1>7. e \in Known /\ episodes[e] \in GoodRow /\ episodes[e].status = "source_missing"
  BY <1>5, <1>6, MissingIsKnown
<1>8. episodes' = [episodes EXCEPT ![e] =
        Relinked(episodes[e], tokens[t].path, tokens[t].content, tokens[t].mtime, TRUE)]
  BY DEF CommitConfirm
<1>. QED
  BY <1>2, <1>3, <1>4, <1>5, <1>7, <1>8

LEMMA ConfirmTypes == ASSUME TypeInv, NEW i \in Confirms, ConfirmStep(i) PROVE TypeInv'
<1>1. ASSUME NEW t \in Tokens, BeginConfirm(i, t) PROVE TypeInv'
  <2>1. [phase |-> "inspecting", token |-> t] \in Confirm
    BY DEF Confirm
  <2>2. Grows /\ Known' = Known
    BY <1>1, SameRows DEF BeginConfirm
  <2>. QED
    BY <1>1, <2>1, <2>2, ConfirmMoves DEF BeginConfirm, TypeInv, TypeOK
<1>2. ASSUME CommitConfirm(i) PROVE TypeInv'
  <2>. DEFINE t == confirms[i].token
              e == tokens[t].episode
  <2>. PICK p \in Paths, c \in Contents, m \in Times :
         episodes' = [episodes EXCEPT ![e] = Relinked(episodes[e], p, c, m, TRUE)]
    BY <1>2, CommitConfirmRow
  <2>1. Relinked(episodes[e], p, c, m, TRUE) \in GoodRow
    BY <1>2, CommitConfirmRow, RelinkedIsGood
  <2>2. Grows /\ Known' = Known \cup {e}
    BY <1>2, <2>1, CommitConfirmRow, OneRow
  <2>3. t \in Tokens /\ tokens[t] \in Token
    BY <1>2, CommitConfirmRow
  <2>4. tokens' = [tokens EXCEPT ![t].state = "consumed"] /\ uses' = [uses EXCEPT ![t] = @ + 1]
        /\ analysed' = analysed \ {e} /\ ConfirmGoes(i, NoConfirm)
    BY <1>2 DEF CommitConfirm
  <2>5. [tokens[t] EXCEPT !.state = "consumed"] \in Token
    BY <2>3 DEF Token
  <2>6. tokens' \in [Tokens -> Token \cup {NoToken}]
    BY <2>3, <2>4, <2>5 DEF TypeInv, TypeOK
  <2>7. uses' \in [Tokens -> Nat]
    BY <2>3, <2>4 DEF TypeInv, TypeOK
  <2>8. analysed' \subseteq Known'
    BY <2>2, <2>4 DEF TypeInv, TypeOK
  <2>. QED
    BY <2>2, <2>4, <2>6, <2>7, <2>8, ConfirmMoves
<1>3. ASSUME RefuseConfirm(i) PROVE TypeInv'
  BY <1>3, SameRows, ConfirmMoves DEF RefuseConfirm, TypeInv, TypeOK
<1>. QED
  BY <1>1, <1>2, <1>3 DEF ConfirmStep

\* Jobs write at most one row: they mark it, restore it or add its hash.
LEMMA MarkedOrRestored ==
    ASSUME TypeInv, NEW e \in Known,
           NEW row \in {episodes[e], MarkedMissing(episodes[e]), Restored(episodes[e])}
    PROVE  /\ row \in GoodRow
           /\ e \in Episodes
           /\ row.print = episodes[e].print
           /\ row.hash = episodes[e].hash
           /\ row.status = "ready" \/ row.restore = "ready" =>
                episodes[e].status = "ready" \/ episodes[e].restore = "ready"
BY KnownEpisode, MarkedIsGood, RestoredIsGood

LEMMA ApplyCheckRow ==
    ASSUME TypeInv, ApplyCheck
    PROVE  /\ job.episode \in Known
           /\ \E row \in {episodes[job.episode], MarkedMissing(episodes[job.episode]),
                          Restored(episodes[job.episode])} :
                episodes' = [episodes EXCEPT ![job.episode] = row]
<1>. DEFINE e   == job.episode
            row == IF job.kind = "gone" /\ job.status = "present"
                   THEN MarkedMissing(episodes[e])
                   ELSE IF job.kind = "found" /\ job.status = "missing"
                   THEN Restored(episodes[e]) ELSE episodes[e]
<1>1. e \in Known
  BY DEF ApplyCheck, TypeInv, JobKnown, NoJob
<1>2. episodes' = [episodes EXCEPT ![e] = row]
  BY DEF ApplyCheck
<1>3. row \in {episodes[e], MarkedMissing(episodes[e]), Restored(episodes[e])}
  OBVIOUS
<1>. HIDE DEF row
<1>. QED
  BY <1>1, <1>2, <1>3

LEMMA EndHashRow ==
    ASSUME TypeInv, EndHash
    PROVE  \/ episodes' = episodes
           \/ /\ job.episode \in Known /\ job.episode \in Episodes
              /\ episodes[job.episode] \in GoodRow
              /\ \E c \in Contents :
                   episodes' = [episodes EXCEPT ![job.episode] =
                                  [episodes[job.episode] EXCEPT !.hash = c]]
<1>1. job # NoJob /\ job.episode \in Known /\ job.file \in File
  BY DEF EndHash, TypeInv, JobKnown, NoJob
<1>2. job.file.content \in Contents
  BY <1>1 DEF File
<1>3. \/ episodes' = episodes
      \/ episodes' = [episodes EXCEPT ![job.episode] =
                        [episodes[job.episode] EXCEPT !.hash = job.file.content]]
  BY DEF EndHash
<1>. QED
  BY <1>1, <1>2, <1>3, KnownEpisode

LEMMA HashTypes == ASSUME TypeInv, HashStep PROVE TypeInv'
<1>1. ASSUME NEW e \in Episodes, HashFindsNoSource(e) PROVE TypeInv'
  <2>1. e \in Known
    BY <1>1 DEF HashFindsNoSource, TypeInv, TypeOK
  <2>2. MarkedMissing(episodes[e]) \in GoodRow
    BY <2>1, MarkedOrRestored
  <2>3. episodes' = [episodes EXCEPT ![e] = MarkedMissing(episodes[e])]
    BY <1>1 DEF HashFindsNoSource
  <2>4. Grows
    BY <2>2, <2>3, OneRow
  <2>. QED
    BY <1>1, <2>4, JobIsOver DEF HashFindsNoSource, Grows, TypeInv, TypeOK
<1>2. ASSUME NEW e \in Episodes, BeginHash(e) PROVE TypeInv'
  <2>. DEFINE next == [kind |-> "hash", episode |-> e, status |-> "unread",
                       path |-> episodes[e].path, file |-> files[episodes[e].path],
                       todo |-> {}]
  <2>1. e \in Known /\ episodes[e].path \in Paths
    BY <1>2, KnownEpisode, RowFields DEF BeginHash, TypeInv, TypeOK
  <2>2. files[episodes[e].path] \in File
    BY <1>2, <2>1, ExistingFile DEF BeginHash
  <2>3. next \in Job
    BY <2>1, <2>2 DEF Job
  <2>4. JobGoes(next) /\ Grows /\ Known' = Known /\ toHash' \subseteq Known
    BY <1>2, SameRows DEF BeginHash, TypeInv, TypeOK
  <2>5. /\ next.episode = e /\ next.todo = {} /\ next.kind = "hash"
        /\ next.file = files[episodes[e].path] /\ next.path = episodes[e].path
    OBVIOUS
  <2>. HIDE DEF next
  <2>. QED
    BY <2>1, <2>2, <2>3, <2>4, <2>5, JobMoves
<1>3. ASSUME EndHash PROVE TypeInv'
  <2>1. Grows
    <3>1. CASE episodes' = episodes
      BY <3>1, SameRows
    <3>2. CASE episodes' # episodes
      <4>. PICK c \in Contents :
             episodes' = [episodes EXCEPT ![job.episode] =
                            [episodes[job.episode] EXCEPT !.hash = c]]
        BY <1>3, <3>2, EndHashRow
      <4>1. [episodes[job.episode] EXCEPT !.hash = c] \in GoodRow
        BY <1>3, <3>2, EndHashRow, HashedIsGood
      <4>. QED
        BY <1>3, <3>2, <4>1, EndHashRow, OneRow
    <3>. QED
      BY <3>1, <3>2
  <2>. QED
    BY <1>3, <2>1, JobIsOver DEF EndHash, Grows, TypeInv, TypeOK
<1>. QED
  BY <1>1, <1>2, <1>3 DEF HashStep

LEMMA ReconcileTypes == ASSUME TypeInv, ReconcileStep PROVE TypeInv'
<1>1. ASSUME BeginReconcile PROVE TypeInv'
  <2>. PICK next \in Checks(Known, episodes) : JobGoes(next)
    BY <1>1 DEF BeginReconcile
  <2>1. Grows /\ Known' = Known /\ toHash' \subseteq Known'
    BY <1>1, SameRows DEF BeginReconcile, TypeInv, TypeOK
  <2>2. Known = KnownIn(episodes) /\ episodes \in Rows
    BY KnownIsKnownIn DEF TypeInv
  <2>. QED
    BY <2>1, <2>2, NextCheck, JobMoves
<1>2. ASSUME CheckSource PROVE TypeInv'
  <2>. DEFINE kind == IF Exists(job.path) THEN "found" ELSE "gone"
              next == [job EXCEPT !.kind = kind, !.path = None]
  <2>1. JobGoes(next) /\ UNCHANGED <<episodes, toHash>>
    BY <1>2 DEF CheckSource
  <2>2. job \in Job /\ job # NoJob
    BY <1>2 DEF CheckSource, TypeInv, TypeOK, NoJob
  <2>3. kind \in {"found", "gone"}
    OBVIOUS
  <2>. HIDE DEF kind
  <2>4. /\ next \in Job /\ next.kind \in {"found", "gone"}
        /\ next.episode = job.episode /\ next.todo = job.todo
    BY <2>2, <2>3 DEF Job
  <2>5. Grows /\ Known' = Known /\ toHash' \subseteq Known'
    BY <2>1, SameRows DEF TypeInv, TypeOK
  <2>6. job.episode \in Known /\ job.todo \subseteq Known
    BY <2>2 DEF TypeInv, JobKnown
  <2>. HIDE DEF next
  <2>. QED
    BY <2>1, <2>4, <2>5, <2>6, JobMoves
<1>3. ASSUME ApplyCheck PROVE TypeInv'
  <2>. PICK row \in {episodes[job.episode], MarkedMissing(episodes[job.episode]),
                     Restored(episodes[job.episode])} :
         episodes' = [episodes EXCEPT ![job.episode] = row]
    BY <1>3, ApplyCheckRow
  <2>1. Grows
    BY <1>3, ApplyCheckRow, MarkedOrRestored, OneRow
  <2>2. PICK next \in Checks(job.todo, episodes') : JobGoes(next)
    BY <1>3 DEF ApplyCheck
  <2>3. job.todo \subseteq Known'
    BY <1>3, <2>1 DEF ApplyCheck, TypeInv, JobKnown, NoJob, Grows
  <2>4. Known' = KnownIn(episodes') /\ episodes' \in Rows
    BY <2>1, KnownIsKnownIn DEF Grows
  <2>5. /\ next \in Job \cup {NoJob} /\ next.kind # "hash"
        /\ next # NoJob => next.episode \in Known' /\ next.todo \subseteq Known'
        /\ next.kind = "checking" => next.path \in Paths
    BY <2>3, <2>4, NextCheck
  <2>6. toHash' \subseteq Known'
    BY <1>3, <2>1 DEF ApplyCheck, TypeInv, TypeOK, Grows
  <2>. QED
    BY <2>1, <2>2, <2>5, <2>6, JobMoves
<1>. QED
  BY <1>1, <1>2, <1>3 DEF ReconcileStep

LEMMA TypeInit == Init => TypeInv
<1>. SUFFICES ASSUME Init PROVE TypeInv
  OBVIOUS
<1>1. Known = {}
  BY DEF Init, Known, NoEpisode
<1>2. episodes \in Rows
  BY DEF Init, Rows
<1>3. ImportsKnown /\ JobKnown
  BY DEF Init, ImportsKnown, JobKnown, NoImport, NoJob
<1>4. changes \in Times
  BY BoundAssumption DEF Init, Times
<1>5. files \in [Paths -> File \cup {NoFile}]
  <2>1. PICK old \in SUBSET Paths, c \in Contents :
          files = [p \in Paths |-> IF p \in old THEN [content |-> c, mtime |-> 0]
                                                ELSE NoFile]
    BY DEF Init
  <2>2. [content |-> c, mtime |-> 0] \in File
    BY BoundAssumption DEF File, Times
  <2>. QED
    BY <2>1, <2>2
<1>6. /\ tokens \in [Tokens -> Token \cup {NoToken}]
      /\ imports \in [Imports -> Import \cup {NoImport}]
      /\ relinks \in [Relinks -> Relink \cup {NoRelink}]
      /\ confirms \in [Confirms -> Confirm \cup {NoConfirm}]
      /\ toHash \subseteq Known
      /\ job \in Job \cup {NoJob}
      /\ uses \in [Tokens -> Nat]
      /\ analysed \subseteq Known
  BY DEF Init
<1>7. TypeOK
  BY <1>2, <1>4, <1>5, <1>6, RowsAreTyped DEF TypeOK
<1>. QED
  BY <1>2, <1>3, <1>7 DEF TypeInv

LEMMA TypeNext == TypeInv /\ [Next]_vars => TypeInv'
<1>. SUFFICES ASSUME TypeInv, [Next]_vars PROVE TypeInv'
  OBVIOUS
<1>1. CASE UNCHANGED vars
  BY <1>1 DEF vars, disk, TypeInv, TypeOK, ImportsKnown, JobKnown, Known
<1>2. CASE RunnerStep
  BY <1>2, HashTypes, ReconcileTypes DEF RunnerStep
<1>. QED
  BY <1>1, <1>2, DiskTypes, ImportTypes, RelinkTypes, ConfirmTypes, TranscriptTypes DEF Next

\* The episodes table, the comparisons and all work under way keep their types:
\* in particular no interleaving restores a row that has nothing to restore.
THEOREM TypeCorrect == Spec => []TypeOK
<1>1. Init => TypeInv
  BY TypeInit
<1>2. TypeInv /\ [Next]_vars => TypeInv'
  BY TypeNext
<1>3. TypeInv => TypeOK
  BY DEF TypeInv
<1>. QED
  BY <1>1, <1>2, <1>3, PTL DEF Spec
-----------------------------------------------------------------------------
(***************************************************************************)
(* Confirmations.  A comparison that has moved its Episode is consumed.    *)
(***************************************************************************)

UsesInv == \A t \in Tokens : /\ uses[t] \in {0, 1}
                             /\ tokens[t].state # "consumed" => uses[t] = 0

LEMMA UsesKept == ASSUME UsesInv, UNCHANGED <<tokens, uses>> PROVE UsesInv'
BY DEF UsesInv

LEMMA UsesNext == TypeInv /\ UsesInv /\ [Next]_vars => UsesInv'
<1>. SUFFICES ASSUME TypeInv, UsesInv, [Next]_vars PROVE UsesInv'
  OBVIOUS
<1>1. CASE UNCHANGED vars
  BY <1>1, UsesKept DEF vars
<1>2. CASE DiskStep
  BY <1>2, UsesKept DEF DiskStep, WriteFile, RemoveFile, MoveFile, Change
<1>3. ASSUME NEW i \in Imports, ImportStep(i) PROVE UsesInv'
  <2>1. \E next : ImportGoes(i, next)
    BY <1>3 DEF ImportStep, BeginImport, EndInspection, BeginFinalize, HashForIdentity,
       RejectChanged, ResolveDuplicate, RejectUnresolved, InsertEpisode, ImportEnds
  <2>. QED
    BY <2>1, UsesKept DEF ImportGoes
<1>4. ASSUME NEW i \in Relinks, RelinkStep(i) PROVE UsesInv'
  <2>1. ASSUME NEW t \in Tokens, IssueToken(i, t) PROVE UsesInv'
    <3>. DEFINE r    == relinks[i]
                next == [state |-> "issued", episode |-> r.episode, path |-> r.path,
                         content |-> r.content, mtime |-> r.mtime]
    <3>1. tokens' = [tokens EXCEPT ![t] = next] /\ tokens[t].state = "absent" /\ uses' = uses
      BY <2>1 DEF IssueToken, RelinkGoes
    <3>2. next.state = "issued"
      OBVIOUS
    <3>. HIDE DEF next
    <3>. QED
      BY <3>1, <3>2 DEF UsesInv, TypeInv, TypeOK
  <2>2. CASE UNCHANGED tokens /\ \E next : RelinkGoes(i, next)
    BY <2>2, UsesKept DEF RelinkGoes
  <2>. QED
    BY <1>4, <2>1, <2>2 DEF RelinkStep, BeginRelink, CommitRelink, RefuseRelink
<1>5. ASSUME NEW i \in Confirms, ConfirmStep(i) PROVE UsesInv'
  <2>1. ASSUME CommitConfirm(i) PROVE UsesInv'
    <3>. DEFINE t == confirms[i].token
    <3>1. t \in Tokens /\ tokens[t] \in Token /\ tokens[t].state = "issued"
      BY <2>1, CommitConfirmRow
    <3>2. /\ tokens' = [tokens EXCEPT ![t].state = "consumed"]
          /\ uses' = [uses EXCEPT ![t] = @ + 1]
      BY <2>1 DEF CommitConfirm
    <3>3. uses[t] = 0
      BY <3>1 DEF UsesInv
    <3>4. tokens'[t].state = "consumed" /\ uses'[t] = 1
      BY <3>1, <3>2, <3>3 DEF TypeInv, TypeOK, Token
    <3>5. \A u \in Tokens \ {t} : tokens'[u] = tokens[u] /\ uses'[u] = uses[u]
      BY <3>2 DEF TypeInv, TypeOK
    <3>. QED
      BY <3>4, <3>5 DEF UsesInv
  <2>2. CASE UNCHANGED <<tokens, uses>>
    BY <2>2, UsesKept
  <2>. QED
    BY <1>5, <2>1, <2>2 DEF ConfirmStep, BeginConfirm, RefuseConfirm
<1>6. CASE RunnerStep
  <2>1. \E next : JobGoes(next)
    BY <1>6 DEF RunnerStep, HashStep, HashFindsNoSource, BeginHash, EndHash, ReconcileStep,
       BeginReconcile, CheckSource, ApplyCheck
  <2>. QED
    BY <2>1, UsesKept DEF JobGoes
<1>7. ASSUME NEW e \in Episodes, StoreTranscript(e) PROVE UsesInv'
  BY <1>7, UsesKept DEF StoreTranscript
<1>. QED
  BY <1>1, <1>2, <1>3, <1>4, <1>5, <1>6, <1>7 DEF Next

\* A relink confirmation moves its Episode at most once, for any number of
\* confirmations under way, and whatever is lost and found between them.
THEOREM ConfirmedOnce == Spec => []ConfirmationIsSingleUse
<1>1. Init => UsesInv
  BY DEF Init, UsesInv
<1>2. UsesInv => ConfirmationIsSingleUse
  BY DEF UsesInv, ConfirmationIsSingleUse
<1>. QED
  BY <1>1, <1>2, TypeInit, TypeNext, UsesNext, PTL DEF Spec
-----------------------------------------------------------------------------
(***************************************************************************)
(* Analysis.  No write but a stored transcript makes a row ready, and a    *)
(* confirmed relink leaves a row that is not.                              *)
(***************************************************************************)

\* What every step but these two does.
Kept == \A e \in Known' : ReadyRow(episodes'[e]) => e \in Known /\ ReadyRow(episodes[e])

LEMMA ReadyKept ==
    ASSUME ReadyIsAnalysed, Kept, UNCHANGED analysed PROVE ReadyIsAnalysed'
BY DEF ReadyIsAnalysed, Kept, ReadyRow

LEMMA SameRowsKeep == ASSUME UNCHANGED episodes PROVE Kept
BY DEF Kept, Known

LEMMA OneRowKeeps ==
    ASSUME TypeInv, NEW e \in Known, NEW row \in GoodRow,
           ReadyRow(row) => ReadyRow(episodes[e]),
           episodes' = [episodes EXCEPT ![e] = row]
    PROVE  Kept
<1>1. Known' = Known /\ e \in Episodes
  BY KnownEpisode, OneRow
<1>. QED
  BY <1>1 DEF Kept, TypeInv, Rows, Known

LEMMA ImportKeeps == ASSUME TypeInv, NEW i \in Imports, ImportStep(i) PROVE Kept
<1>. DEFINE rows == Resolved(i)
<1>1. CASE UNCHANGED episodes
  BY <1>1, SameRowsKeep
<1>2. ASSUME imports[i].phase # "idle", episodes' = rows PROVE Kept
  BY <1>2, ResolvedRows, ResolvedGrows DEF Kept, ReadyRow
<1>3. ASSUME NEW e \in Episodes, ResolveDuplicate(i, e) PROVE Kept
  <2>1. e \in Known /\ imports[i].phase # "idle"
    BY <1>3, DuplicateRow
  <2>2. CASE episodes' # rows
    <3>. PICK p \in Paths, c \in Contents, m \in Times :
           /\ episodes' = [rows EXCEPT ![e] = Relinked(rows[e], p, c, m, FALSE)]
           /\ rows[e].status = "source_missing"
      BY <1>3, <2>2, DuplicateRow
    <3>. DEFINE row == Relinked(rows[e], p, c, m, FALSE)
    <3>0. rows[e] \in GoodRow
      BY <2>1, ResolvedRows
    <3>. HIDE DEF rows
    <3>1. row \in GoodRow /\ (ReadyRow(row) => ReadyRow(rows[e]))
      <4>1. rows[e].status = "source_missing"
        OBVIOUS
      <4>2. Relinked(rows[e], p, c, m, FALSE) \in GoodRow
        BY <3>0, <4>1, RelinkedIsGood
      <4>3. ReadyRow(Relinked(rows[e], p, c, m, FALSE)) => ReadyRow(rows[e])
        BY <3>0, <4>1, VerifiedRow
      <4>. QED
        BY <4>2, <4>3
    <3>. HIDE DEF row
    <3>2. episodes' = [rows EXCEPT ![e] = row]
      BY DEF row
    <3>3. /\ Known' = Known
          /\ episodes'[e] = row
          /\ \A d \in Known \ {e} : episodes'[d] = rows[d]
      <4>1. episodes' = [Resolved(i) EXCEPT ![e] = row]
        BY <3>2 DEF rows
      <4>. QED
        BY <2>1, <3>1, <4>1, ResolvedAndKnownRow, ZenonT(60) DEF rows
    <3>5. \A d \in Known : ReadyRow(rows[d]) => ReadyRow(episodes[d])
      BY <2>1, ResolvedRows DEF ReadyRow, rows
    <3>. QED
      BY <3>1, <3>3, <3>5 DEF Kept
  <2>. QED
    BY <1>2, <2>1, <2>2
<1>4. ASSUME NEW e \in Episodes, NEW scanned \in BOOLEAN, InsertEpisode(i, e, scanned)
      PROVE  Kept
  <2>. PICK row \in GoodRow :
         /\ row.status = "indexing" /\ row.restore = "none"
         /\ episodes' = [rows EXCEPT ![e] = row]
    BY <1>4, NewRow
  <2>1. imports[i].phase # "idle" /\ Known' = Known \cup {e}
    BY <1>4, NewRow, InsertTypes
  <2>2. \A d \in Known' : episodes'[d] = IF d = e THEN row ELSE rows[d]
    BY <2>1, ResolvedRows DEF Rows, Known
  <2>3. \A d \in Known : ReadyRow(rows[d]) => ReadyRow(episodes[d])
    BY <2>1, ResolvedRows DEF ReadyRow
  <2>4. ~ReadyRow(row)
    BY DEF ReadyRow
  <2>. HIDE DEF rows
  <2>. QED
    BY <2>1, <2>2, <2>3, <2>4 DEF Kept
<1>5. CASE RejectUnresolved(i)
  BY <1>2, <1>5 DEF RejectUnresolved
<1>. QED
  BY <1>1, <1>3, <1>4, <1>5 DEF ImportStep, BeginImport, EndInspection, BeginFinalize,
     HashForIdentity, RejectChanged

LEMMA CommitRelinkKeeps == ASSUME TypeInv, NEW i \in Relinks, CommitRelink(i) PROVE Kept
<1>. PICK e \in Known, p \in Paths, c \in Contents, m \in Times :
       /\ episodes[e] \in GoodRow /\ e \in Episodes
       /\ episodes[e].status = "source_missing"
       /\ episodes' = [episodes EXCEPT ![e] = Relinked(episodes[e], p, c, m, FALSE)]
  BY CommitRelinkRow
<1>. DEFINE row == Relinked(episodes[e], p, c, m, FALSE)
<1>1. episodes[e].status = "source_missing" /\ episodes[e] \in GoodRow
  OBVIOUS
<1>2. row \in GoodRow
  BY <1>1, RelinkedIsGood
<1>3. ReadyRow(row) => ReadyRow(episodes[e])
  BY <1>1, VerifiedRow
<1>. QED
  BY <1>2, <1>3, OneRowKeeps

LEMMA RunnerKeeps == ASSUME TypeInv, RunnerStep PROVE Kept
<1>1. CASE UNCHANGED episodes
  BY <1>1, SameRowsKeep
<1>2. ASSUME NEW e \in Known,
             NEW row \in {episodes[e], MarkedMissing(episodes[e]), Restored(episodes[e])},
             episodes' = [episodes EXCEPT ![e] = row]
      PROVE  Kept
  <2>1. row \in GoodRow
    BY MarkedOrRestored
  <2>2. ReadyRow(row) => ReadyRow(episodes[e])
    BY MarkedOrRestored DEF ReadyRow
  <2>. QED
    BY <1>2, <2>1, <2>2, OneRowKeeps
<1>3. ASSUME NEW e \in Episodes, HashFindsNoSource(e) PROVE Kept
  <2>1. e \in Known
    BY <1>3 DEF HashFindsNoSource, TypeInv, TypeOK
  <2>2. episodes' = [episodes EXCEPT ![e] = MarkedMissing(episodes[e])]
    BY <1>3 DEF HashFindsNoSource
  <2>. QED
    BY <1>2, <2>1, <2>2
<1>4. ASSUME EndHash, episodes' # episodes PROVE Kept
  <2>. DEFINE e == job.episode
  <2>. PICK c \in Contents :
         episodes' = [episodes EXCEPT ![e] = [episodes[e] EXCEPT !.hash = c]]
    BY <1>4, EndHashRow
  <2>. DEFINE row == [episodes[e] EXCEPT !.hash = c]
  <2>1. e \in Known /\ episodes[e] \in GoodRow
    BY <1>4, EndHashRow
  <2>2. row \in GoodRow
    BY <2>1, HashedIsGood
  <2>3. ReadyRow(row) => ReadyRow(episodes[e])
    BY <2>1, HashedIsGood DEF ReadyRow
  <2>. QED
    BY <2>1, <2>2, <2>3, OneRowKeeps
<1>5. ASSUME ApplyCheck PROVE Kept
  BY <1>2, <1>5, ApplyCheckRow
<1>. QED
  BY <1>1, <1>3, <1>4, <1>5 DEF RunnerStep, HashStep, ReconcileStep, BeginHash,
     BeginReconcile, CheckSource

LEMMA ReadyNext == TypeInv /\ ReadyIsAnalysed /\ [Next]_vars => ReadyIsAnalysed'
<1>. SUFFICES ASSUME TypeInv, ReadyIsAnalysed, [Next]_vars PROVE ReadyIsAnalysed'
  OBVIOUS
<1>1. CASE UNCHANGED vars
  BY <1>1, SameRowsKeep, ReadyKept DEF vars
<1>2. CASE DiskStep
  BY <1>2, SameRowsKeep, ReadyKept DEF DiskStep, WriteFile, RemoveFile, MoveFile, Change
<1>3. ASSUME NEW i \in Imports, ImportStep(i) PROVE ReadyIsAnalysed'
  <2>1. \E next : ImportGoes(i, next)
    BY <1>3 DEF ImportStep, BeginImport, EndInspection, BeginFinalize, HashForIdentity,
       RejectChanged, ResolveDuplicate, RejectUnresolved, InsertEpisode, ImportEnds
  <2>. QED
    BY <1>3, <2>1, ImportKeeps, ReadyKept DEF ImportGoes
<1>4. ASSUME NEW i \in Relinks, RelinkStep(i) PROVE ReadyIsAnalysed'
  <2>1. Kept
    BY <1>4, CommitRelinkKeeps, SameRowsKeep
       DEF RelinkStep, BeginRelink, IssueToken, RefuseRelink
  <2>2. UNCHANGED analysed
    BY <1>4 DEF RelinkStep, BeginRelink, CommitRelink, IssueToken, RefuseRelink, RelinkGoes
  <2>. QED
    BY <2>1, <2>2, ReadyKept
<1>5. ASSUME NEW i \in Confirms, ConfirmStep(i) PROVE ReadyIsAnalysed'
  <2>1. ASSUME CommitConfirm(i) PROVE ReadyIsAnalysed'
    <3>. DEFINE e == tokens[confirms[i].token].episode
    <3>1. /\ e \in Known /\ e \in Episodes /\ episodes[e] \in GoodRow
          /\ episodes[e].status = "source_missing"
      BY <2>1, CommitConfirmRow
    <3>. PICK p \in Paths, c \in Contents, m \in Times :
           episodes' = [episodes EXCEPT ![e] = Relinked(episodes[e], p, c, m, TRUE)]
      BY <2>1, CommitConfirmRow
    <3>. DEFINE row == Relinked(episodes[e], p, c, m, TRUE)
    <3>2. row \in GoodRow
      BY <3>1, RelinkedIsGood
    <3>3. ~ReadyRow(row)
      BY <3>1, ConfirmedRow
    <3>4. episodes' = [episodes EXCEPT ![e] = row]
      OBVIOUS
    <3>. HIDE DEF row
    <3>5. Known' = Known
      <4>1. Known' = Known \cup {e}
        BY <3>1, <3>2, <3>4, OneRow
      <4>. QED
        BY <3>1, <4>1
    <3>6. analysed' = analysed \ {e}
      BY <2>1 DEF CommitConfirm
    <3>7. \A d \in Known : episodes'[d] = IF d = e THEN row ELSE episodes[d]
      BY <3>4 DEF TypeInv, Rows, Known
    <3>. HIDE DEF e
    <3>. QED
      BY <3>3, <3>5, <3>6, <3>7 DEF ReadyIsAnalysed, ReadyRow
  <2>2. CASE UNCHANGED <<episodes, analysed>>
    BY <2>2, SameRowsKeep, ReadyKept
  <2>. QED
    BY <1>5, <2>1, <2>2 DEF ConfirmStep, BeginConfirm, RefuseConfirm
<1>6. CASE RunnerStep
  <2>1. \E next : JobGoes(next)
    BY <1>6 DEF RunnerStep, HashStep, HashFindsNoSource, BeginHash, EndHash, ReconcileStep,
       BeginReconcile, CheckSource, ApplyCheck
  <2>. QED
    BY <1>6, <2>1, RunnerKeeps, ReadyKept DEF JobGoes
<1>7. ASSUME NEW e \in Episodes, StoreTranscript(e) PROVE ReadyIsAnalysed'
  <2>1. \A d \in Known' \ {e} : d \in Known /\ episodes'[d] = episodes[d]
    BY <1>7 DEF StoreTranscript, TypeInv, Rows, Known
  <2>2. analysed' = analysed \cup {e}
    BY <1>7 DEF StoreTranscript
  <2>. QED
    BY <2>1, <2>2 DEF ReadyIsAnalysed
<1>. QED
  BY <1>1, <1>2, <1>3, <1>4, <1>5, <1>6, <1>7 DEF Next

\* An Episode is shown as ready, or will be when its source returns, only if it
\* was given a transcript since the last confirmed relink, through any losses.
THEOREM ReadyMeansAnalysed == Spec => []ReadyIsAnalysed
<1>1. Init => ReadyIsAnalysed
  BY DEF Init, ReadyIsAnalysed, Known, NoEpisode
<1>. QED
  BY <1>1, TypeInit, TypeNext, ReadyNext, PTL DEF Spec
-----------------------------------------------------------------------------
(***************************************************************************)
(* Duplicates.  The invariant as it stands does not say why an import that *)
(* met no Episode of its fingerprint may still insert one without a hash:  *)
(* imports are finalized one at a time, and whatever takes on the          *)
(* fingerprint meanwhile, by a relink, has been hashed.                    *)
(***************************************************************************)

OneFinalizing == \A i, j \in Finalizing : i = j

NoneAlikeUnhashed ==
    \A i \in Imports :
        imports[i].phase = "finalizing" /\ imports[i].source.hash = None =>
            \A e \in Known : episodes[e].print = imports[i].source.print =>
                episodes[e].hash # None

DuplicateInv == DuplicatesAreResolved /\ OneFinalizing /\ NoneAlikeUnhashed

\* What every write but an insertion does to a row.
Hashed(e) == \/ episodes'[e].hash # None
             \/ /\ episodes'[e].print = episodes[e].print
                /\ episodes[e].hash = None

NoNewUnhashed == \A e \in Known' : e \in Known /\ Hashed(e)

LEMMA ResolvedKept == ASSUME DuplicatesAreResolved, NoNewUnhashed PROVE DuplicatesAreResolved'
BY DEF DuplicatesAreResolved, NoNewUnhashed, Hashed

LEMMA DuplicatesKept ==
    ASSUME DuplicateInv, NoNewUnhashed, UNCHANGED imports PROVE DuplicateInv'
<1>1. OneFinalizing'
  BY DEF DuplicateInv, OneFinalizing, Finalizing
<1>2. NoneAlikeUnhashed'
  BY DEF DuplicateInv, NoneAlikeUnhashed, NoNewUnhashed, Hashed
<1>. QED
  BY <1>1, <1>2, ResolvedKept DEF DuplicateInv

LEMMA SameRowsHashed == ASSUME UNCHANGED episodes PROVE NoNewUnhashed
BY DEF NoNewUnhashed, Hashed, Known

LEMMA OneRowHashed ==
    ASSUME TypeInv, NEW e \in Known, NEW row \in GoodRow,
           row.hash # None \/ (row.print = episodes[e].print /\ row.hash = episodes[e].hash),
           episodes' = [episodes EXCEPT ![e] = row]
    PROVE  NoNewUnhashed
<1>1. Known' = Known /\ e \in Episodes
  BY KnownEpisode, OneRow, ZenonT(60)
<1>2. \A d \in Known : episodes'[d] = IF d = e THEN row ELSE episodes[d]
  BY DEF TypeInv, Rows, Known
<1>. QED
  BY <1>1, <1>2 DEF NoNewUnhashed, Hashed

LEMMA ContentIsHash == ASSUME NEW c \in Contents PROVE c # None
BY NoneAssumption

LEMMA CommitRelinkHashed ==
    ASSUME TypeInv, NEW i \in Relinks, CommitRelink(i) PROVE NoNewUnhashed
<1>. PICK e \in Known, p \in Paths, c \in Contents, m \in Times :
       /\ episodes[e] \in GoodRow /\ e \in Episodes
       /\ episodes[e].status = "source_missing"
       /\ episodes' = [episodes EXCEPT ![e] = Relinked(episodes[e], p, c, m, FALSE)]
  BY CommitRelinkRow
<1>. DEFINE row == Relinked(episodes[e], p, c, m, FALSE)
<1>1. episodes[e].status = "source_missing" /\ episodes[e] \in GoodRow
  OBVIOUS
<1>2. row \in GoodRow
  BY <1>1, RelinkedIsGood
<1>3. row.hash = c /\ c # None
  <2>1. row.hash = c
    BY <1>1, VerifiedHash
  <2>. QED
    BY <2>1, ContentIsHash
<1>4. episodes' = [episodes EXCEPT ![e] = row]
  OBVIOUS
<1>. HIDE DEF row
<1>. QED
  BY <1>2, <1>3, <1>4, OneRowHashed

LEMMA CommitConfirmHashed ==
    ASSUME TypeInv, NEW i \in Confirms, CommitConfirm(i) PROVE NoNewUnhashed
<1>. DEFINE e == tokens[confirms[i].token].episode
<1>1. e \in Known /\ episodes[e] \in GoodRow /\ episodes[e].status = "source_missing"
  BY CommitConfirmRow
<1>. PICK p \in Paths, c \in Contents, m \in Times :
       episodes' = [episodes EXCEPT ![e] = Relinked(episodes[e], p, c, m, TRUE)]
  BY CommitConfirmRow
<1>. DEFINE row == Relinked(episodes[e], p, c, m, TRUE)
<1>2. row \in GoodRow
  BY <1>1, RelinkedIsGood
<1>3. row.hash = c /\ c # None
  <2>1. row.hash = c
    BY <1>1, ConfirmedHash
  <2>. QED
    BY <2>1, ContentIsHash
<1>4. episodes' = [episodes EXCEPT ![e] = row]
  OBVIOUS
<1>. HIDE DEF row, e
<1>. QED
  BY <1>1, <1>2, <1>3, <1>4, OneRowHashed

LEMMA RunnerHashed == ASSUME TypeInv, RunnerStep PROVE NoNewUnhashed
<1>1. CASE UNCHANGED episodes
  BY <1>1, SameRowsHashed
<1>2. ASSUME NEW e \in Known,
             NEW row \in {episodes[e], MarkedMissing(episodes[e]), Restored(episodes[e])},
             episodes' = [episodes EXCEPT ![e] = row]
      PROVE  NoNewUnhashed
  <2>1. row \in GoodRow /\ row.print = episodes[e].print /\ row.hash = episodes[e].hash
    BY MarkedOrRestored
  <2>. QED
    BY <1>2, <2>1, OneRowHashed
<1>3. ASSUME NEW e \in Episodes, HashFindsNoSource(e) PROVE NoNewUnhashed
  <2>1. e \in Known
    BY <1>3 DEF HashFindsNoSource, TypeInv, TypeOK
  <2>2. episodes' = [episodes EXCEPT ![e] = MarkedMissing(episodes[e])]
    BY <1>3 DEF HashFindsNoSource
  <2>. QED
    BY <1>2, <2>1, <2>2
<1>4. ASSUME EndHash, episodes' # episodes PROVE NoNewUnhashed
  <2>. DEFINE e == job.episode
  <2>. PICK c \in Contents :
         episodes' = [episodes EXCEPT ![e] = [episodes[e] EXCEPT !.hash = c]]
    BY <1>4, EndHashRow
  <2>. DEFINE row == [episodes[e] EXCEPT !.hash = c]
  <2>1. e \in Known /\ episodes[e] \in GoodRow
    BY <1>4, EndHashRow
  <2>2. row \in GoodRow /\ row.hash = c
    BY <2>1, HashedIsGood
  <2>3. episodes' = [episodes EXCEPT ![e] = row]
    OBVIOUS
  <2>. HIDE DEF row
  <2>. QED
    BY <2>1, <2>2, <2>3, ContentIsHash, OneRowHashed
<1>5. ASSUME ApplyCheck PROVE NoNewUnhashed
  BY <1>2, <1>5, ApplyCheckRow
<1>. QED
  BY <1>1, <1>3, <1>4, <1>5 DEF RunnerStep, HashStep, ReconcileStep, BeginHash,
     BeginReconcile, CheckSource

LEMMA TranscriptHashed ==
    ASSUME TypeInv, NEW e \in Episodes, StoreTranscript(e) PROVE NoNewUnhashed
<1>. DEFINE row == [episodes[e] EXCEPT !.status = "ready"]
<1>1. e \in Known /\ episodes[e].status = "indexing"
  BY DEF StoreTranscript, Known
<1>2. row \in GoodRow /\ row.print = episodes[e].print /\ row.hash = episodes[e].hash
  BY <1>1, KnownEpisode, ReadyIsGood
<1>3. episodes' = [episodes EXCEPT ![e] = row]
  BY DEF StoreTranscript
<1>. HIDE DEF row
<1>. QED
  BY <1>1, <1>2, <1>3, OneRowHashed

LEMMA ResolvedHashed ==
    ASSUME TypeInv, NEW i \in Imports, imports[i].phase # "idle", episodes' = Resolved(i)
    PROVE  NoNewUnhashed
<1>1. Known' = Known
  BY ResolvedGrows
<1>2. \A e \in Known : /\ Resolved(i)[e].print = episodes[e].print
                       /\ \/ Resolved(i)[e].hash = episodes[e].hash
                          \/ Resolved(i)[e].hash \in Contents
  BY ResolvedRows
<1>. QED
  BY <1>1, <1>2, ContentIsHash DEF NoNewUnhashed, Hashed

\* Setting the row of one Episode besides adds no unhashed one, if that row has a hash.
LEMMA ResolvedAndRowHashed ==
    ASSUME TypeInv, NEW i \in Imports, imports[i].phase # "idle",
           NEW e \in Known, NEW row \in GoodRow, row.hash # None,
           episodes' = [Resolved(i) EXCEPT ![e] = row]
    PROVE  NoNewUnhashed
<1>1. /\ Known' = Known /\ episodes'[e] = row
      /\ \A d \in Known \ {e} : episodes'[d] = Resolved(i)[d]
  BY ResolvedAndKnownRow
<1>2. \A d \in Known : /\ Resolved(i)[d].print = episodes[d].print
                       /\ \/ Resolved(i)[d].hash = episodes[d].hash
                          \/ Resolved(i)[d].hash \in Contents
  BY ResolvedRows
<1>3. ASSUME NEW d \in Known PROVE Hashed(d)
  <2>1. CASE d = e
    BY <1>1, <2>1 DEF Hashed
  <2>2. CASE d # e
    BY <1>1, <1>2, <2>2, ContentIsHash DEF Hashed
  <2>. QED
    BY <2>1, <2>2
<1>. QED
  BY <1>1, <1>3 DEF NoNewUnhashed

LEMMA ResolveDuplicateHashed ==
    ASSUME TypeInv, NEW i \in Imports, NEW e \in Episodes, ResolveDuplicate(i, e)
    PROVE  NoNewUnhashed
<1>1. e \in Known /\ imports[i].phase # "idle"
  BY DuplicateRow
<1>2. CASE episodes' # Resolved(i)
  <2>. PICK p \in Paths, c \in Contents, m \in Times :
         /\ episodes' = [Resolved(i) EXCEPT ![e] = Relinked(Resolved(i)[e], p, c, m, FALSE)]
         /\ Resolved(i)[e].status = "source_missing"
    BY <1>2, DuplicateRow
  <2>1. Resolved(i)[e] \in GoodRow
    BY <1>1, ResolvedRows
  <2>2. Relinked(Resolved(i)[e], p, c, m, FALSE) \in GoodRow
    BY <2>1, RelinkedIsGood
  <2>3. Relinked(Resolved(i)[e], p, c, m, FALSE).hash # None
    <3>1. Resolved(i)[e].status = "source_missing"
      OBVIOUS
    <3>2. Relinked(Resolved(i)[e], p, c, m, FALSE).hash = c
      BY <2>1, <3>1, VerifiedHash
    <3>. QED
      BY <3>2, ContentIsHash
  <2>. QED
    BY <1>1, <2>2, <2>3, ResolvedAndRowHashed
<1>. QED
  BY <1>1, <1>2, ResolvedHashed

\* An insertion, the only step that may add a row without a hash.
LEMMA InsertDuplicates ==
    ASSUME TypeInv, DuplicateInv, NEW i \in Imports, NEW e \in Episodes,
           NEW scanned \in BOOLEAN, InsertEpisode(i, e, scanned)
    PROVE  DuplicateInv'
<1>. DEFINE rows == Resolved(i)
<1>1. /\ e \notin Known /\ imports[i].phase = "finalizing"
      /\ Known' = Known \cup {e}
  BY NewRow, InsertTypes
<1>. PICK row \in GoodRow :
       /\ row.print = imports[i].source.print /\ row.hash = imports[i].source.hash
       /\ episodes' = [rows EXCEPT ![e] = row]
  BY NewRow
<1>2. row.print = imports[i].source.print /\ row.hash = imports[i].source.hash
  OBVIOUS
<1>3. episodes'[e] = row /\ \A d \in Known : episodes'[d] = Resolved(i)[d]
  <2>1. Resolved(i) \in Rows
    BY <1>1, ResolvedRows
  <2>2. episodes' = [Resolved(i) EXCEPT ![e] = row]
    OBVIOUS
  <2>. QED
    BY <1>1, <2>1, <2>2 DEF Rows, Known
<1>. HIDE DEF rows
<1>4. ASSUME NEW d \in Known
      PROVE  /\ episodes'[d].print = episodes[d].print
             /\ episodes[d].hash # None => episodes'[d].hash # None
  <2>1. /\ Resolved(i)[d].print = episodes[d].print
        /\ \/ Resolved(i)[d].hash = episodes[d].hash
           \/ Resolved(i)[d].hash \in Contents
    BY <1>1, ResolvedRows
  <2>. QED
    BY <1>3, <2>1, ContentIsHash
<1>5. ASSUME NEW d \in Known, row.hash = None, episodes[d].print = row.print
      PROVE  episodes[d].hash # None
  BY <1>1, <1>2, <1>5 DEF DuplicateInv, NoneAlikeUnhashed
<1>6. DuplicatesAreResolved'
  BY <1>1, <1>3, <1>4, <1>5 DEF DuplicateInv, DuplicatesAreResolved
<1>7. /\ imports'[i].phase = "idle"
      /\ \A j \in Imports \ {i} : imports'[j] = imports[j]
  BY DEF InsertEpisode, ImportEnds, ImportGoes, TypeInv, TypeOK, NoImport
<1>8. OneFinalizing'
  BY <1>7 DEF DuplicateInv, OneFinalizing, Finalizing
<1>9. NoneAlikeUnhashed'
  BY <1>1, <1>7 DEF DuplicateInv, OneFinalizing, Finalizing, NoneAlikeUnhashed
<1>. QED
  BY <1>6, <1>8, <1>9 DEF DuplicateInv

\* Any other step of an import.
LEMMA ImportDuplicates ==
    ASSUME TypeInv, DuplicateInv, NEW i \in Imports, NoNewUnhashed,
           NEW next, ImportGoes(i, next),
           next.phase \in {"hashing", "finalizing"} => Finalizing \subseteq {i},
           next.phase = "finalizing" /\ next.source.hash = None =>
               \A e \in Known : episodes[e].print # next.source.print
    PROVE  DuplicateInv'
<1>1. imports'[i] = next /\ \A j \in Imports \ {i} : imports'[j] = imports[j]
  BY DEF ImportGoes, TypeInv, TypeOK
<1>2. OneFinalizing'
  BY <1>1 DEF DuplicateInv, OneFinalizing, Finalizing
<1>3. NoneAlikeUnhashed'
  <2>. SUFFICES ASSUME NEW j \in Imports, imports'[j].phase = "finalizing",
                       imports'[j].source.hash = None, NEW e \in Known',
                       episodes'[e].print = imports'[j].source.print,
                       episodes'[e].hash = None
                PROVE  FALSE
    BY DEF NoneAlikeUnhashed
  <2>1. e \in Known /\ episodes'[e].print = episodes[e].print /\ episodes[e].hash = None
    BY DEF NoNewUnhashed, Hashed
  <2>2. CASE j = i
    BY <1>1, <2>1, <2>2
  <2>3. CASE j # i
    BY <1>1, <2>1, <2>3 DEF DuplicateInv, NoneAlikeUnhashed
  <2>. QED
    BY <2>2, <2>3
<1>. QED
  BY <1>2, <1>3, ResolvedKept DEF DuplicateInv

LEMMA ImportStepDuplicates ==
    ASSUME TypeInv, DuplicateInv, NEW i \in Imports, ImportStep(i) PROVE DuplicateInv'
<1>1. ASSUME NoNewUnhashed, ImportGoes(i, NoImport) PROVE DuplicateInv'
  <2>1. NoImport.phase = "idle"
    BY DEF NoImport
  <2>. QED
    BY <1>1, <2>1, ImportDuplicates
<1>2. ASSUME NEW phase \in {"inspecting", "inspected"}, NEW source, UNCHANGED episodes,
             ImportGoes(i, ImportOf(phase, source, {}, {}))
      PROVE  DuplicateInv'
  <2>1. ImportOf(phase, source, {}, {}).phase = phase
    BY DEF ImportOf
  <2>. QED
    BY <1>2, <2>1, SameRowsHashed, ImportDuplicates
<1>3. ASSUME NEW p \in Paths, BeginImport(i, p) PROVE DuplicateInv'
  BY <1>2, <1>3 DEF BeginImport
<1>4. ASSUME EndInspection(i) PROVE DuplicateInv'
  BY <1>1, <1>2, <1>4, SameRowsHashed DEF EndInspection
<1>5. ASSUME BeginFinalize(i) PROVE DuplicateInv'
  <2>. DEFINE source == imports[i].source
              alike  == WithPrint(source.print)
              cands  == {[id |-> e, row |-> episodes[e]] : e \in alike}
              phase  == IF alike = {} THEN "finalizing" ELSE "hashing"
              next   == ImportOf(phase, source, cands, {})
  <2>1. Finalizing = {} /\ UNCHANGED episodes
    BY <1>5 DEF BeginFinalize
  <2>2. ImportGoes(i, NoImport) \/ ImportGoes(i, next)
    BY <1>5 DEF BeginFinalize
  <2>3. next.phase = "finalizing" => \A e \in Known : episodes[e].print # next.source.print
    BY DEF ImportOf, WithPrint
  <2>. HIDE DEF next
  <2>. QED
    BY <1>1, <2>1, <2>2, <2>3, SameRowsHashed, ImportDuplicates
<1>6. ASSUME HashForIdentity(i) PROVE DuplicateInv'
  <2>1. UNCHANGED episodes /\ i \in Finalizing
    BY <1>6 DEF HashForIdentity, Finalizing
  <2>2. Finalizing \subseteq {i}
    BY <2>1 DEF DuplicateInv, OneFinalizing
  <2>3. CASE imports'[i] = NoImport
    <3>1. ImportGoes(i, NoImport)
      BY <1>6, <2>3 DEF HashForIdentity, ImportGoes, TypeInv, TypeOK
    <3>. QED
      BY <1>1, <2>1, <3>1, SameRowsHashed
  <2>4. CASE imports'[i] # NoImport
    <3>1. ImportGoes(i, imports'[i]) /\ imports'[i].source.hash # None
      BY <1>6, <2>4, HashedSource, ContentIsHash
    <3>. QED
      BY <2>1, <2>2, <3>1, SameRowsHashed, ImportDuplicates
  <2>. QED
    BY <2>3, <2>4
<1>7. ASSUME RejectChanged(i) PROVE DuplicateInv'
  BY <1>1, <1>7, SameRowsHashed DEF RejectChanged, ImportEnds
<1>8. ASSUME RejectUnresolved(i) PROVE DuplicateInv'
  BY <1>1, <1>8, ResolvedHashed DEF RejectUnresolved, ImportEnds
<1>9. ASSUME NEW e \in Episodes, ResolveDuplicate(i, e) PROVE DuplicateInv'
  BY <1>1, <1>9, ResolveDuplicateHashed DEF ResolveDuplicate, ImportEnds
<1>. QED
  BY <1>3, <1>4, <1>5, <1>6, <1>7, <1>8, <1>9, InsertDuplicates DEF ImportStep

LEMMA DuplicateNext == TypeInv /\ DuplicateInv /\ [Next]_vars => DuplicateInv'
<1>. SUFFICES ASSUME TypeInv, DuplicateInv, [Next]_vars PROVE DuplicateInv'
  OBVIOUS
<1>1. CASE UNCHANGED vars
  BY <1>1, SameRowsHashed, DuplicatesKept DEF vars
<1>2. CASE DiskStep
  BY <1>2, SameRowsHashed, DuplicatesKept DEF DiskStep, WriteFile, RemoveFile, MoveFile, Change
<1>3. ASSUME NEW i \in Relinks, RelinkStep(i) PROVE DuplicateInv'
  <2>1. NoNewUnhashed
    BY <1>3, CommitRelinkHashed, SameRowsHashed
       DEF RelinkStep, BeginRelink, IssueToken, RefuseRelink
  <2>2. UNCHANGED imports
    BY <1>3 DEF RelinkStep, BeginRelink, CommitRelink, IssueToken, RefuseRelink, RelinkGoes
  <2>. QED
    BY <2>1, <2>2, DuplicatesKept
<1>4. ASSUME NEW i \in Confirms, ConfirmStep(i) PROVE DuplicateInv'
  <2>1. NoNewUnhashed
    BY <1>4, CommitConfirmHashed, SameRowsHashed DEF ConfirmStep, BeginConfirm, RefuseConfirm
  <2>2. UNCHANGED imports
    BY <1>4 DEF ConfirmStep, BeginConfirm, CommitConfirm, RefuseConfirm, ConfirmGoes
  <2>. QED
    BY <2>1, <2>2, DuplicatesKept
<1>5. CASE RunnerStep
  <2>1. UNCHANGED imports
    BY <1>5 DEF RunnerStep, HashStep, HashFindsNoSource, BeginHash, EndHash, ReconcileStep,
       BeginReconcile, CheckSource, ApplyCheck, JobGoes
  <2>. QED
    BY <1>5, <2>1, RunnerHashed, DuplicatesKept
<1>6. ASSUME NEW e \in Episodes, StoreTranscript(e) PROVE DuplicateInv'
  BY <1>6, TranscriptHashed, DuplicatesKept DEF StoreTranscript
<1>. QED
  BY <1>1, <1>2, <1>3, <1>4, <1>5, <1>6, ImportStepDuplicates DEF Next

\* No two Episodes of one fingerprint were both made without a look at the bytes,
\* for any number of imports at once, and however their files and rows change
\* between the looks.
THEOREM DuplicatesWereResolved == Spec => []DuplicatesAreResolved
<1>1. Init => DuplicateInv
  BY DEF Init, DuplicateInv, DuplicatesAreResolved, OneFinalizing, NoneAlikeUnhashed,
     Finalizing, Known, NoEpisode, NoImport
<1>2. DuplicateInv => DuplicatesAreResolved
  BY DEF DuplicateInv
<1>. QED
  BY <1>1, <1>2, TypeInit, TypeNext, DuplicateNext, PTL DEF Spec
=============================================================================
