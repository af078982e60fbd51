------------------------------ MODULE Migrations ------------------------------
(***************************************************************************)
(* The database through the releases of the application (database.ts):     *)
(* each migration is one transaction, in order, and an upgrade may be cut  *)
(* off after any of them.  Between upgrades a release writes rows in the   *)
(* shape it knows.                                                         *)
(*                                                                         *)
(* A behaviour follows one kind of row.  Migrations that only create       *)
(* tables and indexes change none.  A layer is a video layer, and of a     *)
(* crop frame there is its time; the identities a migration computes and   *)
(* the defaults of what no older row could hold are left out, and of audio *)
(* its muting and warnings.                                                *)
(***************************************************************************)
EXTENDS Integers, Sequences, FiniteSets, SequencesExt

CONSTANTS Releases,         \* by the last migration each knows
          MaxOpens          \* bound: openings of the database

Current == 20

ASSUME MigrationsAssumption ==
    Releases \subseteq 1..Current /\ Current \in Releases /\ MaxOpens \in Nat

VARIABLES rowKind,          \* of the row that is followed
          stored,           \* the row
          version,          \* the last migration applied
          app,              \* the release that has the database open, and whether it migrates
          opens

migrationVars == <<rowKind, stored, version, app, opens>>

NoRow == [none |-> TRUE]
Closed == [release |-> 0, ready |-> FALSE]

MigrationsInit ==
    /\ rowKind \in {"composition", "starter", "captions", "audio", "analyses", "render",
                 "transcript", "path", "candidate"}
    /\ stored = NoRow /\ version = 0 /\ app = Closed /\ opens = 0
-----------------------------------------------------------------------------
(***************************************************************************)
(* What the migrations make of a row                                       *)
(***************************************************************************)

Increasing(S) == CHOOSE s \in SetToSeqs(S) : \A i, j \in DOMAIN s : i < j => s[i] < s[j]

\* The frames of one source by time; of equal times the first stays.
Track(frames, source) ==
    Increasing({frames[i].at : i \in {j \in DOMAIN frames : frames[j].source = source}})

VideoLayer(has, legacy, auto, manual) ==
    [has |-> has, legacy |-> legacy, auto |-> auto, manual |-> manual]

\* Each passes over a layer that has its fields already.
MigratedLayer(v, r) ==
    CASE v = 8 -> [r EXCEPT !.has = @ \cup {"assetId"}]
      [] v = 9 /\ "tracks" \notin r.has ->
            [r EXCEPT !.has = @ \cup {"tracks"}, !.auto = Track(r.legacy, "automatic"),
                      !.manual = Track(r.legacy, "manual")]
      [] v = 18 -> [r EXCEPT !.has = @ \cup {"visible"}]
      [] OTHER  -> r

Everything == {"assetId", "tracks", "visible"}

ShapeOf(release) ==
    {f \in Everything : release >= CASE f = "assetId" -> 8 [] f = "tracks" -> 9 [] OTHER -> 18}

\* A release inserts the built-in templates as it knows them.
StarterTemplate(release) == VideoLayer(ShapeOf(release), <<>>, <<>>, <<>>)

MigratedCaptions(v, r) ==
    CASE v = 10 -> [r EXCEPT !.style = "current", !.transform = "absent",
                             !.size = IF @ \in 12..200 THEN @ ELSE 64]
      [] v = 17 -> [r EXCEPT !.transform = IF @ = "absent" THEN "none" ELSE @]
      [] OTHER  -> r

Clamped(x, low, high) == CASE x < low -> low [] x > high -> high [] OTHER -> x

NoGain == 1000

\* A bed is kept if it is an audio asset; its gain has a default.
MigratedAudio(r) ==
    LET gain == Clamped(r.gain, -60, 12)
        bed  == r.bed = "audio"
        bedGain == IF ~bed THEN NoGain
                   ELSE IF r.bedGain = NoGain THEN -18 ELSE Clamped(r.bedGain, -60, 0)
    IN  [shape |-> "current", gain |-> gain,
         fade |-> Clamped(r.fade, 0, 500), bed |-> IF bed THEN "audio" ELSE "none",
         bedGain |-> bedGain]

\* Of the active analyses of one input an accepted one stays, or else the newest.
Rank(a)     == IF a.state = "accepted" THEN 100 + a.at ELSE a.at
InUseOf(r)  == {a \in r.rows : a.state # "superseded"}
Winner(r)   == CHOOSE a \in InUseOf(r) : \A b \in InUseOf(r) : Rank(b) <= Rank(a)
OneWinner(r) ==
    [rows |-> {IF a \in InUseOf(r) /\ a # Winner(r) THEN [a EXCEPT !.state = "superseded"] ELSE a :
                  a \in r.rows}]

\* Its entry is not touched.
MigratedRender(v, r) ==
    CASE v = 14 /\ r.state = "succeeded" -> [r EXCEPT !.state = "stale", !.upgraded = TRUE]
      [] v = 15 -> [r EXCEPT !.lineage = TRUE]
      [] OTHER  -> r

\* up of migration v
Applied(v, r) ==
    IF rowKind = "starter" THEN
        IF r = NoRow THEN (IF v = 3 THEN StarterTemplate(app.release) ELSE r) ELSE MigratedLayer(v, r)
    ELSE IF r = NoRow THEN r
    ELSE CASE rowKind = "composition"         -> MigratedLayer(v, r)
           [] rowKind = "captions"            -> MigratedCaptions(v, r)
           [] rowKind = "audio" /\ v = 11     -> MigratedAudio(r)
           [] rowKind = "analyses" /\ v = 6   -> OneWinner(r)
           [] rowKind = "render"              -> MigratedRender(v, r)
           [] rowKind = "transcript" /\ v = 3 -> [r EXCEPT !.accepted = r.segments]
           [] rowKind = "path" /\ v = 4 /\ r.prefixes = 0 -> [r EXCEPT !.prefixes = 1]
           [] rowKind = "candidate" /\ v = 7  -> [r EXCEPT !.package = TRUE]
           [] OTHER                           -> r
-----------------------------------------------------------------------------
(***************************************************************************)
(* What a release writes                                                   *)
(***************************************************************************)

Frames == [at : 0..2, source : {"automatic", "manual"}]

FrameLists == UNION {[1..n -> Frames] : n \in 0..3}

Compositions(release) ==
    IF release < 9 THEN {VideoLayer(ShapeOf(release), legacy, <<>>, <<>>) : legacy \in FrameLists}
    ELSE {VideoLayer(ShapeOf(release), <<>>, Increasing(S), Increasing(T)) :
             S \in SUBSET (0..2), T \in SUBSET (0..2)}

Captions(release) ==
    [style : {IF release < 10 THEN "legacy" ELSE "current"},
     size : IF release \in 3..9 THEN {8, 64, 300} ELSE {64},
     transform : IF release < 17 THEN {"absent"} ELSE {"none", "uppercase"}]

LegacyAudio ==
    [shape : {"legacy"}, gain : {-100, 0, 99}, fade : {0, 700},
     bed : {"none", "audio", "image"}, bedGain : {-100, -3, NoGain}]

\* Before it is stored there is its default; later what the contract accepts.
Audio(release) ==
    CASE release < 3       -> {[shape |-> "legacy", gain |-> 0, fade |-> 0,
                                bed |-> "none", bedGain |-> NoGain]}
      [] release \in 3..10 -> LegacyAudio
      [] OTHER             -> {MigratedAudio(a) : a \in LegacyAudio}

Analyses(release) ==
    {[rows |-> {[at |-> i, state |-> s[i]] : i \in 1..3}] :
        s \in {t \in [1..3 -> {"proposed", "accepted", "superseded"}] :
                 /\ release < 3 => \A i \in 1..3 : t[i] # "superseded"
                 /\ release >= 6 => Cardinality({i \in 1..3 : t[i] # "superseded"}) <= 1}}

\* Flagged is the entry of the calendar that names the Render.
RendersOf(release) ==
    {[state |-> s, evidence |-> release >= 14, lineage |-> release >= 15,
      flagged |-> s = "stale", upgraded |-> FALSE] : s \in {"succeeded", "stale"}}

Written(release) ==
    CASE rowKind = "composition" -> Compositions(release)
      [] rowKind = "captions"    -> Captions(release)
      [] rowKind = "audio"       -> Audio(release)
      [] rowKind = "analyses"    -> Analyses(release)
      [] rowKind = "render"      -> RendersOf(release)
      [] rowKind = "transcript"  -> {[segments |-> n, accepted |-> IF release < 3 THEN 0 ELSE n] : n \in 1..2}
      [] rowKind = "path"        -> {[prefixes |-> IF release < 4 THEN 0 ELSE 1]}
      [] OTHER                   -> {[package |-> release >= 7]}
-----------------------------------------------------------------------------
\* Mutant: what this release does not know is left as it is.
OpensAnyway(release) == TRUE

\* A version it does not know is refused.
Supports(release) == version <= release

\* openDatabase
OpenDatabase(release) ==
    /\ app = Closed /\ opens < MaxOpens
    /\ Supports(release)
    /\ app' = [release |-> release, ready |-> FALSE]
    /\ opens' = opens + 1
    /\ UNCHANGED <<rowKind, stored, version>>

\* Each migration is a transaction with the row that says it was applied; the
\* application may end after any of them, and nothing else comes between.
ApplyMigration ==
    /\ app # Closed /\ ~app.ready /\ version < app.release
    /\ version' = version + 1
    /\ stored' = Applied(version + 1, stored)
    /\ UNCHANGED <<rowKind, app, opens>>

FinishOpening ==
    /\ app # Closed /\ ~app.ready /\ version >= app.release
    /\ app' = [app EXCEPT !.ready = TRUE]
    /\ UNCHANGED <<rowKind, stored, version, opens>>

\* What is written over it could have been written in its place.
WriteRow ==
    /\ app.ready
    /\ rowKind # "starter" /\ stored = NoRow
    /\ stored' \in Written(app.release)
    /\ UNCHANGED <<rowKind, version, app, opens>>

\* The application ends, or a migration failed: MigrationError.
CloseDatabase ==
    /\ app # Closed
    /\ app' = Closed
    /\ UNCHANGED <<rowKind, stored, version, opens>>

MigrationsNext ==
    \/ \E release \in Releases : OpenDatabase(release)
    \/ ApplyMigration \/ FinishOpening \/ WriteRow \/ CloseDatabase

MigrationsSpec == MigrationsInit /\ [][MigrationsNext]_migrationVars
-----------------------------------------------------------------------------
InTime(track) == \A i \in 1..(Len(track) - 1) : track[i] < track[i + 1]

\* What the contracts of this release ask of a row.
IsReadable ==
    CASE rowKind \in {"composition", "starter"} ->
            stored.has = Everything /\ InTime(stored.auto) /\ InTime(stored.manual)
      [] rowKind = "captions"   -> stored.style = "current" /\ stored.size \in 12..200 /\ stored.transform # "absent"
      [] rowKind = "audio"      -> /\ stored.shape = "current"
                                   /\ stored.gain \in -60..12 /\ stored.fade \in 0..500
                                   /\ (stored.bed = "none") <=> (stored.bedGain = NoGain)
                                   /\ stored.bed # "none" => stored.bedGain \in -60..0
      [] rowKind = "analyses"   -> Cardinality(InUseOf(stored)) <= 1
      [] rowKind = "render"     -> /\ stored.lineage /\ (stored.state = "succeeded" => stored.evidence)
                                   /\ stored.state = "stale" => stored.flagged \/ stored.upgraded
      [] rowKind = "transcript" -> stored.accepted = stored.segments
      [] rowKind = "path"       -> stored.prefixes = 1
      [] OTHER                  -> stored.package

(***************************************************************************)
(* Whatever releases a database went through, and wherever its upgrades    *)
(* were cut off, this release finds rows its contracts accept, and the     *)
(* built-in templates as it would have inserted them.  A Render that an    *)
(* upgrade made stale may have an entry that is not flagged: that much the *)
(* migration leaves undone.                                                *)
(***************************************************************************)
RowsStayReadable ==
    app = [release |-> Current, ready |-> TRUE] /\ stored # NoRow =>
        IsReadable /\ (rowKind = "starter" => stored = StarterTemplate(Current))
===============================================================================
