-------------------------------- MODULE Startup --------------------------------
(***************************************************************************)
(* The data directory at startup (startup.ts): prepareDataDirectory moves  *)
(* the data of the legacy location to the native one by a checked copy and *)
(* three renames.  Each rename may fail, and the process may die between   *)
(* any two steps.  What a migration leaves under a name with its own time  *)
(* stamp is out of sight of the next start.                                *)
(***************************************************************************)
EXTENDS Naturals

CONSTANTS MaxSaves,         \* of the running core
          MaxStarts

ASSUME StartupAssumption == MaxSaves \in Nat \ {0} /\ MaxStarts \in Nat

VARIABLES
    place,      \* what each location holds
    starting,   \* the step prepareDataDirectory has reached
    latest,     \* the newest data that was ever saved, 0: none yet
    starts

startupVars == <<place, starting, latest, starts>>

Locations == {"native", "legacy", "staging", "prior", "backup"}

\* "empty" has no entry, "bare" has some, but neither database nor artifacts.
Absent  == [kind |-> "absent", version |-> 0, whole |-> TRUE]
Empty   == [kind |-> "empty",  version |-> 0, whole |-> TRUE]
Bare    == [kind |-> "bare",   version |-> 0, whole |-> TRUE]
Data(v) == [kind |-> "data",   version |-> v, whole |-> TRUE]

isPopulated(l) == place[l].kind = "data"

StartupInit ==
    /\ \E native \in {Absent, Empty, Bare, Data(1)}, legacy \in {Absent, Bare, Data(1)},
          whole \in BOOLEAN :
         /\ native = Data(1) => legacy # Data(1)
         /\ place = [l \in Locations |-> CASE l = "native" -> native
                                           [] l = "legacy" -> [legacy EXCEPT !.whole = whole]
                                           [] OTHER        -> Absent]
         /\ latest = IF Data(1) \in {native, legacy} THEN 1 ELSE 0
    /\ starting = "down"
    /\ starts = 0

At(step) == starting = step

\* renameSync: names another location for what there is.
Moved(P, from, to) == [P EXCEPT ![to] = P[from], ![from] = Absent]

\* staging goes to its quarantine.
Quarantined(P) == [P EXCEPT !["staging"] = Absent]

\* The outer catch: a native directory that was set aside comes back.
Restored(P) ==
    Quarantined(IF P["prior"] # Absent /\ P["native"] = Absent
                THEN Moved(P, "prior", "native") ELSE P)
-----------------------------------------------------------------------------
\* Data in both locations are refused; else native is opened unless only
\* legacy has some.  Opening creates the database if need be.
Opened(P) == [P EXCEPT !["native"] = IF @.kind = "data" THEN @ ELSE Data(0)]

Begin ==
    /\ At("down")
    /\ starts < MaxStarts
    /\ starts' = starts + 1
    /\ \/ /\ isPopulated("native") /\ isPopulated("legacy")
          /\ starting' = "refused"
          /\ UNCHANGED place
       \/ /\ ~isPopulated("legacy")
          /\ starting' = "running"
          /\ place' = Opened(place)
       \/ /\ ~isPopulated("native") /\ isPopulated("legacy")
          /\ starting' = "copying"
          /\ place' = [place EXCEPT !["staging"] = Bare]
    /\ UNCHANGED latest

Fails(P) ==
    /\ starting' = "failed"
    /\ place' = Restored(P)

\* The copy is what legacy holds, or has lost something on the way.
Copy ==
    /\ At("copying")
    /\ \E intact \in BOOLEAN :
         place' = [place EXCEPT !["staging"] = [place["legacy"] EXCEPT !.whole = @ /\ intact]]
    /\ starting' = "copied"
    /\ UNCHANGED <<latest, starts>>

\* Integrity of the database, and every complete artifact by its hash.
Verified == place["staging"].whole

Verify ==
    /\ At("copied")
    /\ IF Verified THEN starting' = "verified" /\ UNCHANGED place ELSE Fails(place)
    /\ UNCHANGED <<latest, starts>>

SetAside ==
    /\ At("verified")
    /\ starting' = "installing"
    /\ place' = IF place["native"].kind = "bare" THEN Moved(place, "native", "prior")
                ELSE [place EXCEPT !["native"] = Absent]
    /\ UNCHANGED <<latest, starts>>

\* Mutant: legacy is retired before its copy is in place.
InstallLegacyFirst ==
    /\ At("installing")
    /\ \/ starting' = "installed" /\ place' = Moved(place, "legacy", "backup")
       \/ Fails(place)
    /\ UNCHANGED <<latest, starts>>

Install ==
    /\ At("installing")
    /\ \/ starting' = "installed" /\ place' = Moved(place, "staging", "native")
       \/ Fails(place)
    /\ UNCHANGED <<latest, starts>>

\* A legacy directory that cannot be renamed takes the installation back.
TakenBack(P) ==
    LET undone == Moved(P, "native", "staging")
    IN  IF P["prior"] # Absent THEN Moved(undone, "prior", "native") ELSE undone

Retire ==
    /\ At("installed")
    /\ \/ starting' = "running" /\ place' = Moved(place, "legacy", "backup")
       \/ Fails(TakenBack(place))
       \/ Fails(place)              \* it cannot be taken back either
    /\ UNCHANGED <<latest, starts>>
-----------------------------------------------------------------------------
Save ==
    /\ At("running")
    /\ latest < MaxSaves
    /\ latest' = latest + 1
    /\ place' = [place EXCEPT !["native"] = Data(latest + 1)]
    /\ UNCHANGED <<starting, starts>>

\* The end of the process, in whatever step.
End ==
    /\ ~At("down")
    /\ starting' = "down"
    /\ place' = [place EXCEPT !["staging"] = Absent, !["prior"] = Absent]
    /\ UNCHANGED <<latest, starts>>

\* What the refusal asks a person for.
MoveAside(l) ==
    /\ At("refused")
    /\ l \in {"native", "legacy"}
    /\ starting' = "down"
    /\ place' = [place EXCEPT ![l] = Absent]
    /\ UNCHANGED <<latest, starts>>

StartupNext ==
    \/ Begin \/ Copy \/ Verify \/ SetAside \/ Install \/ Retire \/ Save \/ End
    \/ MoveAside("native") \/ MoveAside("legacy")

StartupSpec == StartupInit /\ [][StartupNext]_startupVars
-----------------------------------------------------------------------------
StartupTypeOK ==
    /\ place \in [Locations -> [kind : {"absent", "empty", "bare", "data"},
                                version : 0..MaxSaves, whole : BOOLEAN]]
    /\ latest \in 0..MaxSaves

HasLatest(l) == isPopulated(l) /\ place[l].version = latest

(***************************************************************************)
(* However often a migration fails or dies half way, the data stay         *)
(* reachable: the core only ever runs on a whole copy of the newest data,  *)
(* until then a location that the next start looks at has them, and when   *)
(* a start refuses to choose, either choice of its user is right.          *)
(***************************************************************************)
StartupKeepsData ==
    /\ At("running") => HasLatest("native") /\ place["native"].whole
    /\ latest > 0 => HasLatest("native") \/ HasLatest("legacy")
    /\ isPopulated("native") /\ isPopulated("legacy")
         => HasLatest("native") /\ HasLatest("legacy")
=============================================================================
