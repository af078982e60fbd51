------------------------------ MODULE MCAnalysis ------------------------------
(***************************************************************************)
(* From the analysis of an Episode to an approved Short, for TLC: the      *)
(* installed speech model, the analysis, its candidates, the edits of a    *)
(* Short, and the rows all this is kept in, through the releases.  A       *)
(* behaviour exercises one part, which Init chooses; the others keep their *)
(* initial state.                                                          *)
(***************************************************************************)
EXTENDS CloudAnalysis, CandidatePool, ShortEdits, ModelInstall, Migrations

VARIABLE part

analysisVars == <<part, cloudVars, poolVars, editsVars, modelVars, migrationVars>>

AnalysisInit ==
    /\ CloudInit /\ PoolInit /\ EditsInit /\ ModelInit /\ MigrationsInit
    /\ part \in {"cloud", "pool", "edits", "model", "migrations"}
    /\ part # "model" => dir["target"] = "absent"
    /\ part # "migrations" => rowKind = "starter"

Still ==
    /\ UNCHANGED part
    /\ part # "cloud" => UNCHANGED cloudVars
    /\ part # "pool"  => UNCHANGED poolVars
    /\ part # "edits" => UNCHANGED editsVars
    /\ part # "model" => UNCHANGED modelVars
    /\ part # "migrations" => UNCHANGED migrationVars

AnalysisNext ==
    /\ Still
    /\ \/ part = "cloud" /\ CloudNext
       \/ part = "pool"  /\ PoolNext
       \/ part = "edits" /\ EditsNext
       \/ part = "model" /\ ModelNext
       \/ part = "migrations" /\ MigrationsNext

\* The fairness of CloudAnalysis, in its part.
AnalysisSpec ==
    /\ AnalysisInit /\ [][AnalysisNext]_analysisVars
    /\ WF_cloudVars(part = "cloud" /\ CoreStep)
    /\ WF_cloudVars(part = "cloud" /\ BridgeStep)
===============================================================================
