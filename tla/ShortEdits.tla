------------------------------ MODULE ShortEdits ------------------------------
(***************************************************************************)
(* The composition of one Short as the service edits it: created from a    *)
(* template, with an automatic and a manual crop track on its video layer, *)
(* cut, re-analysed and approved (service.ts, repository.ts).              *)
(*                                                                         *)
(* The source ranges are their length, a crop control is its identity and  *)
(* time, an automatic track its set of times.  Operations are single       *)
(* transactions on an expected revision; refused ones change nothing.      *)
(***************************************************************************)
EXTENDS Naturals, Sequences, FiniteSets, SequencesExt

CONSTANTS CropIds,           \* of manual crop controls
          MaxOutput,         \* bounds: length of the output,
          MaxEditRevision    \* and revisions

ASSUME EditsAssumption == MaxOutput \in Nat \ {0} /\ MaxEditRevision \in Nat

VARIABLES template,         \* the composition of a template users may change
          project,
          known              \* the revision a client has read

editsVars == <<template, project, known>>

ControlTimes == 0..MaxOutput
Durations    == 1..MaxOutput

\* compositionSchema: the times of a track are strictly increasing; that an
\* identity occurs once is asked of added controls only.
ManualTracks ==
    UNION {{t \in [1..n -> [id : CropIds, at : ControlTimes]] :
              \A i \in 1..(n - 1) : t[i].at < t[i + 1].at} : n \in 0..2}

Composition(auto, manual) == [auto |-> auto, manual |-> manual]

NoShort == [revision |-> 0]

\* inherited: the tracks are still the template's.
EditsInit == template = Composition({}, <<>>) /\ project = NoShort /\ known = 0

AtTimes(composition) == composition.auto \cup {c.at : c \in ToSet(composition.manual)}

\* validateCompositionCropTimes
WithinOutput(composition, duration) == \A at \in AtTimes(composition) : at <= duration

ByTime(controls) ==
    CHOOSE s \in SetToSeqs(controls) : \A i, j \in DOMAIN s : i < j => s[i].at < s[j].at

\* cloneTemplate and updateTemplate; built-in templates stay as they are.
updateTemplate(composition) ==
    /\ template' = composition
    /\ UNCHANGED <<project, known>>

\* The tracks of the template are copied as they are.
createShort(duration, composition) ==
    /\ project = NoShort
    /\ composition \in {template, Composition({}, <<>>)}
    /\ \E copy \in {"proposed", "accepted"} :
          project' = [duration |-> duration, composition |-> composition, inherited |-> TRUE,
                    copy |-> copy, approved |-> FALSE, revision |-> 1]
    /\ UNCHANGED <<template, known>>

ReadShort == known' = project.revision /\ UNCHANGED <<template, project>>

ExpectedShort ==
    project # NoShort /\ known = project.revision /\ project.revision < MaxEditRevision

Revised(s) == [s EXCEPT !.revision = @ + 1]

Edit(s) == ExpectedShort /\ project' = Revised(s) /\ UNCHANGED <<template, known>>

\* updateShort with a composition
Composed(composition) ==
    /\ WithinOutput(composition, project.duration)
    /\ Edit([project EXCEPT !.composition = composition, !.inherited = FALSE, !.approved = FALSE])

updateComposition(composition) == ExpectedShort /\ Composed(composition)

Manual == project.composition.manual

Managed(manual) == Composed([project.composition EXCEPT !.manual = manual])

addManualCropControl(control) ==
    /\ ExpectedShort
    /\ control.at <= project.duration
    /\ \A c \in ToSet(Manual) : c.id # control.id /\ c.at # control.at
    /\ Managed(ByTime(ToSet(Manual) \cup {control}))

\* Of two controls with one identity the first moves.
moveManualCropControl(i, at) ==
    /\ ExpectedShort
    /\ \A j \in 1..(i - 1) : Manual[j].id # Manual[i].id
    /\ at <= project.duration /\ \A j \in DOMAIN Manual \ {i} : Manual[j].at # at
    /\ Managed(ByTime(ToSet([Manual EXCEPT ![i].at = at])))

\* What is left of a track keeps its order, which is by time.
removeManualCropControl(id) ==
    /\ ExpectedShort
    /\ \E c \in ToSet(Manual) : c.id = id
    /\ Managed(ByTime({c \in ToSet(Manual) : c.id # id}))

\* Samples are remapped into the output; without any the track begins with the
\* whole frame.
reanalyzeCrops(auto) ==
    /\ ExpectedShort
    /\ auto # {} /\ auto \subseteq 0..project.duration
    /\ Composed([project.composition EXCEPT !.auto = auto])

\* Mutant: the crop tracks are left to the next composition edit.
updateTimelineUnchecked(duration) ==
    /\ ExpectedShort
    /\ Edit([project EXCEPT !.duration = duration, !.inherited = FALSE, !.approved = FALSE])

updateShortTimeline(duration) ==
    /\ ExpectedShort
    /\ WithinOutput(project.composition, duration)
    /\ Edit([project EXCEPT !.duration = duration, !.inherited = FALSE, !.approved = FALSE])

\* updateShortCaptions, updateShortAudio
updateCaptionsOrAudio == ExpectedShort /\ Edit([project EXCEPT !.approved = FALSE])

updateCopy == ExpectedShort /\ Edit([project EXCEPT !.copy = "accepted"])

approveShort ==
    /\ ExpectedShort
    /\ ~project.approved /\ project.copy = "accepted"
    /\ Edit([project EXCEPT !.approved = TRUE])

\* acceptTranscriptRevision expects no revision of the Short.
acceptTranscriptRevision ==
    /\ project # NoShort /\ project.revision < MaxEditRevision
    /\ project' = Revised([project EXCEPT !.approved = FALSE])
    /\ UNCHANGED <<template, known>>

EditsNext ==
    \/ \E manual \in {<<>>} \cup [1..1 -> [id : CropIds, at : {MaxOutput}]] :
          project = NoShort /\ updateTemplate(Composition({0}, manual))
    \/ \E manual \in ManualTracks : updateComposition(Composition({}, manual))
    \/ \E duration \in Durations :
          \/ \E composition \in {template, Composition({}, <<>>)} : createShort(duration, composition)
          \/ updateShortTimeline(duration)
    \/ ReadShort
    \/ \E id \in CropIds, at \in ControlTimes : addManualCropControl([id |-> id, at |-> at])
    \/ ExpectedShort /\ \E i \in DOMAIN Manual, at \in ControlTimes : moveManualCropControl(i, at)
    \/ \E id \in CropIds : removeManualCropControl(id)
    \/ ExpectedShort /\ \E auto \in SUBSET (0..project.duration) : reanalyzeCrops(auto)
    \/ updateCaptionsOrAudio \/ updateCopy \/ approveShort \/ acceptTranscriptRevision

EditsSpec == EditsInit /\ [][EditsNext]_editsVars
-----------------------------------------------------------------------------
(***************************************************************************)
(* The crop tracks are strictly ordered and end with the output, through   *)
(* moves, cuts and re-analyses, once the Short has tracks of its own; what *)
(* a template brings is not looked at when the Short is created.  The copy *)
(* of an approved Short is one that a person accepted.                     *)
(***************************************************************************)
EditsAreSound ==
    project # NoShort =>
        /\ \A i \in 1..(Len(Manual) - 1) : Manual[i].at < Manual[i + 1].at
        /\ project.inherited \/ WithinOutput(project.composition, project.duration)
        /\ project.approved => project.copy = "accepted"
===============================================================================
