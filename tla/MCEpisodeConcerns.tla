--------------------------- MODULE MCEpisodeConcerns ---------------------------
(***************************************************************************)
(* EpisodeSource followed with two concerns, which Init chooses between:   *)
(* two imports beside each other, of files that only a full hash can tell  *)
(* apart, and one Episode whose source moves, with everything else that    *)
(* may happen to it.                                                       *)
(***************************************************************************)
EXTENDS MCEpisodeSource

VARIABLE concern

(* Which identifier comes first tells no behaviours apart.                  *)
InOrder == /\ imports[i2] = NoImport /\ imports[i1] = NoImport => imports'[i2] = NoImport
           /\ e2 \in Known' => e1 \in Known'

(* Bounds of the first concern: one change of the disk, and no relink.      *)
OnlyImports == changes' <= 1 /\ relinks' = relinks

(* Bounds of the second: one content, and imports until an Episode is known. *)
OnlyOneEpisode ==
    /\ \A f \in Paths : files'[f].content # y
    /\ imports'[i2] = NoImport
    /\ imports' # imports => Known = {}

ConcernsInit ==
    /\ Init
    /\ concern \in {"imports", "relinks"}
    /\ concern = "relinks" => \A f \in Paths : files[f].content # y

ConcernsNext ==
    /\ Next
    /\ InOrder
    /\ UNCHANGED concern
    /\ concern = "imports" => OnlyImports
    /\ concern = "relinks" => OnlyOneEpisode

ConcernsSpec == ConcernsInit /\ [][ConcernsNext]_<<vars, concern>> /\ WF_vars(RunnerStep)
=============================================================================
