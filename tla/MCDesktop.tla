------------------------------- MODULE MCDesktop -------------------------------
(***************************************************************************)
(* The desktop application around its jobs, for TLC.  A behaviour          *)
(* exercises one part of it, which Init chooses; the variables of the      *)
(* others keep their initial values.  For the parts that are functions the *)
(* state is the data they are given, and nothing happens.                  *)
(***************************************************************************)
EXTENDS ShortWorkflow, WorkerSupervisor, ArtifactStore, Startup, Editor,
        Timeline, CropTracks, CropGeneration, CaptionLayout, RenderGraph,
        Calendar, Candidates

VARIABLES part, data

desktopVars == <<part, data, workflowVars, supervisorVars, storeVars, startupVars, editorVars,
                 calendarVars>>

Nothing == [none |-> TRUE]

\* The second Short is published first; the third is of another Episode.
MCPriority == [s \in {1, 2, 3} |-> IF s = 2 THEN 2 ELSE 1]
MCOwner    == [s \in {1, 2, 3} |-> IF s = 3 THEN 2 ELSE 1]

Steady(offset) == [change |-> 0, before |-> offset, after |-> offset]

\* The calendar is tried with another zone, more times a day, less spacing.
MCRules == {[zone |-> Steady(0), days |-> {0, 1}, times |-> <<2>>, spacing |-> 5],
            [zone |-> Steady(-3), days |-> {0, 1}, times |-> <<5, 2>>, spacing |-> 0]}

Pieces(n) == {[from |-> p[1], to |-> p[2]] : p \in {q \in (0..n) \X (0..n) : q[1] < q[2]}}

RangesUpTo(n) ==
    UNION {{s \in [1..k -> Pieces(n)] : \A i \in 1..(k - 1) : s[i].to <= s[i + 1].from} : k \in 1..3}

TimelineData ==
    [ranges : RangesUpTo(4), cues : {pair \in Pieces(4) \X Pieces(4) : pair[1].from <= pair[2].from},
     samples : {{}}, fade : {0}, bed : {6}]
    \cup [ranges : RangesUpTo(4), cues : {<<>>}, samples : {0..4, {0, 3}},
          fade : {0, 1, 3}, bed : 1..3]

Ordered(S, n) ==
    UNION {{s \in [1..k -> S] : \A i \in 1..(k - 1) : s[i].at < s[i + 1].at} : k \in 0..n}

CropData ==
    [frames   : Ordered([at : CropTimes, value : {Scale, 3 * Scale}], 2),
     controls : Ordered([at : CropTimes, mode : {"crop"}, value : {0, 2 * Scale}]
                          \cup [at : CropTimes, mode : {"automatic"}], 3)]

\* Rectangles are made of quarters of the source.
Quarter == Unit \div 4

ASSUME QuarterAssumption == Quarter \in Nat \ {0}

Corners == {Rectangle(x, y, w, Quarter) : x \in {0, 2 * Quarter}, y \in {0, Quarter, 3 * Quarter},
                                          w \in {Quarter, 2 * Quarter}}

Corner == Rectangle(0, 0, Quarter, Quarter)

Persons == {{}} \cup {{r, s} : r \in Corners, s \in Corners}

Sampled(screens) == [screens : screens, people : Persons]

GenerationData ==
    [samples : {<<>>} \cup [1..1 -> Sampled({{}, {Rectangle(Quarter, 0, 2 * Quarter, Unit)}})]
                 \cup {<<[screens |-> {}, people |-> {Corner}], s>> : s \in Sampled({{}})},
     target : {"screen", "person", "auto"}, fit : {"fit", "fill"},
     shape : {[over |-> 1, under |-> 2], [over |-> 1, under |-> 1], [over |-> 2, under |-> 1]}]

Tokens == [space : {TRUE}, width : {1}] \cup [space : {FALSE}, width : {1, 2, 5}]

Texts ==
    UNION {{t \in [1..n -> Tokens] : \A i \in 1..(n - 1) : t[i].space # t[i + 1].space} : n \in 0..5}

CaptionData ==
    [tokens : Texts, maximum : {3, 4}, at : {[x |-> 3, y |-> 2], [x |-> 5, y |-> 5]}, cues : {<<>>}]
    \cup [tokens : {<<>>}, maximum : {3}, at : {[x |-> 3, y |-> 2]},
          cues : [1..3 -> Pieces(4)]]

LayersOf(type, asset) == [type : {type}, asset : {asset}, visible : BOOLEAN]

Undrawn == {[type |-> "image", asset |-> "missing", visible |-> TRUE],
            [type |-> "shape", asset |-> "none", visible |-> TRUE]}

LayersUpTo(n) ==
    UNION {[1..k -> LayersOf("video", "none") \cup LayersOf("image", "a") \cup LayersOf("video", "b")
                    \cup LayersOf("captions", "none") \cup LayersOf("text", "none")
                    \cup Undrawn] : k \in 0..n}

GraphData ==
    [layers : LayersUpTo(3), assets : {<<"a", "b">>}, ranges : {2}, cues : BOOLEAN,
     graphics : {<<TRUE>>}, heard : {TRUE}, bed : {"none"}]
    \cup [layers : LayersUpTo(1), assets : {<<>>, <<"a", "c">>}, ranges : 1..3, cues : {TRUE},
          graphics : {<<>>, <<FALSE, TRUE, TRUE>>}, heard : BOOLEAN, bed : {"none", "c"}]

\* The times and offsets of ScheduleData are those of a day.
ASSUME HoursAssumption == DayHours >= 6

\* Some changes skip time, some repeat it, and offsets reach another date.
ScheduleData ==
    [zone : [change : {7, 12}, before : {-3, 1}, after : {-3, 0, 1, 4}],
     rules : [days : {{0, 1, 2}, {0, 2}}, times : {<<5, 0>>, <<2, 3>>}, spacing : {0, 5}],
     shorts : {{[id |-> 1, priority |-> 1, episode |-> e], [id |-> 2, priority |-> p, episode |-> 1],
                [id |-> 3, priority |-> 1, episode |-> 2]} : e \in {1, 2}, p \in {1, 2}},
     occupied : {{}, {[at |-> 2, episode |-> 1]}}]

SegmentKinds == [words : {{"a"}, {"b"}}, quality : {0, 1}]

\* Segments one after the other, of these lengths.
Times(n, lengths) ==
    {t \in [0..n -> 0..(2 * n)] : t[0] = 0 /\ \A i \in 1..n : t[i] - t[i - 1] \in lengths}

Transcript(times, kinds) ==
    [i \in DOMAIN kinds |-> [from |-> times[i - 1], to |-> times[i],
                             words |-> kinds[i].words, quality |-> kinds[i].quality]]

Transcripts(n, lengths) ==
    {Transcript(t[1], t[2]) : t \in Times(n, lengths) \X [1..n -> SegmentKinds]}

CandidateData ==
    [segments  : UNION {Transcripts(n, {1, 2}) : n \in 1..3},
     highlight : {[from |-> 0, to |-> 1], [from |-> 2, to |-> 3]}]
    \cup [segments : Transcripts(4, {1}), highlight : {[from |-> 1, to |-> 2]}]

DataOf(p) ==
    CASE p = "timeline"   -> TimelineData
      [] p = "crops"      -> CropData
      [] p = "generation" -> GenerationData
      [] p = "captions"   -> CaptionData
      [] p = "graph"      -> GraphData
      [] p = "schedule"   -> ScheduleData
      [] p = "candidates" -> CandidateData
      [] OTHER            -> {Nothing}

Parts == {"workflow", "worker", "store", "startup", "editor", "calendar",
          "timeline", "crops", "generation", "captions", "graph", "schedule", "candidates"}

DesktopInit ==
    /\ WorkflowInit /\ SupervisorInit /\ StoreInit /\ StartupInit /\ EditorInit /\ CalendarInit
    /\ server.content["captions"] = 1
    /\ part \in Parts
    /\ part # "workflow" => ~input.review /\ input.export /\ ~transcript /\ analyses = <<>>
    /\ part # "startup" => latest = 0 /\ place["native"] = Absent /\ place["legacy"] = Absent
    /\ data \in DataOf(part)

UnderWay == {k \in Kinds : flights'[k] # NoFlight}

Calling == host.calls > 0 \/ Active # {}

\* The parts that are not followed keep their state.
Still ==
    /\ UNCHANGED <<part, data>>
    /\ part # "workflow" => UNCHANGED workflowVars
    /\ part # "worker"   => UNCHANGED supervisorVars
    /\ part # "store"    => UNCHANGED storeVars
    /\ part # "startup"  => UNCHANGED startupVars
    /\ part # "editor"   => UNCHANGED editorVars
    /\ part # "calendar" => UNCHANGED calendarVars

\* The bounds: no call but an approval beside another, and that before the
\* first edit; the worker is followed while the core has calls for it.
DesktopNext ==
    /\ Still
    /\ \/ part = "workflow" /\ WorkflowNext
       \/ part = "worker" /\ Calling /\ SupervisorNext
       \/ part = "store" /\ StoreNext
       \/ part = "startup" /\ StartupNext
       \/ part = "calendar" /\ CalendarNext
       \/ /\ part = "editor"
          /\ EditorNext
          /\ Cardinality(UnderWay) > 1 =>
               Cardinality(UnderWay) = 2 /\ "approve" \in UnderWay /\ commits' = 0

\* The fairness of each component, in its own part.
DesktopSpec ==
    /\ DesktopInit /\ [][DesktopNext]_desktopVars
    /\ WF_workflowVars(part = "workflow" /\ AdvanceStep)
    /\ WF_workflowVars(part = "workflow" /\ AnalysisRuns)
    /\ WF_workflowVars(part = "workflow" /\ RenderRuns)
    /\ \A p \in Procs : WF_supervisorVars(part = "worker" /\ Calling /\ SettlesDown(p))

WaitedFor ==
    CASE part = "workflow" -> Unsettled
      [] part = "worker"   -> Up /\ Active # {}
      [] OTHER             -> FALSE

(***************************************************************************)
(* Nothing is waited for without end, as WorkflowsSettle and CallsSettle   *)
(* say of the parts: a workflow comes to its review or to an end, and a    *)
(* call of the worker settles or its process goes.                         *)
(***************************************************************************)
WaitingEnds == WaitedFor ~> ~WaitedFor

DesktopTypeOK ==
    WorkflowTypeOK /\ SupervisorTypeOK /\ StoreTypeOK /\ StartupTypeOK /\ EditorTypeOK

(***************************************************************************)
(* The playhead, the captions, the audio and the crops of one Short agree  *)
(* on which source instant each instant of its output shows.               *)
(***************************************************************************)
OneTimeline ==
    part = "timeline" => TimelinesAgree(data.ranges, data.cues, data.samples, data.fade, data.bed)

(***************************************************************************)
(* Automatic crops lie in the source, undistorted, around what was         *)
(* detected; and a crop is rendered as the controls say and as it was      *)
(* previewed, but for two stretches that CropTracks names: the glide into  *)
(* a first manual crop and the preview that holds what moves between two.  *)
(***************************************************************************)
CropsAreShownAsEdited ==
    /\ part = "generation" => CropsAreSound(data.samples, data.target, data.fit, data.shape)
    /\ part = "crops" => CropsAgree(data.frames, data.controls)

Canvas8 == [left |-> 0, right |-> 8, top |-> 0, bottom |-> 8]
Safe8   == [left |-> 1, right |-> 7, top |-> 1, bottom |-> 6]

TextStyles == [maxLines : 1..3, overflow : {"clip", "ellipsis"}, wrap : BOOLEAN]

(***************************************************************************)
(* Wrapped captions keep their words, in lines that fit or are warned of,  *)
(* and every overlap of cues is found; a text layer is drawn in its lines, *)
(* and cut only where it does not fit; and whatever layers are hidden,     *)
(* empty, repeated or without their asset, the filter graph of the Render  *)
(* is one that ffmpeg accepts.                                             *)
(***************************************************************************)
RenderIsWellFormed ==
    /\ part = "captions" =>
         /\ WrappingIsSound(data.tokens, data.maximum, data.at, Canvas8, Safe8)
         /\ OverlapsAreFound(data.cues)
         /\ \A style \in TextStyles : TextLayerIsSound(data.tokens, data.maximum, style)
    /\ part = "graph" => IsWired(buildRenderGraph(data))

(***************************************************************************)
(* What the application proposes on its own is sound.  Candidates are no   *)
(* likenesses of each other, none is dropped but for a better one, and     *)
(* every window is accounted for.  A draft of the schedule has only slots  *)
(* the rules allow, read backwards, also around a change of the zone's     *)
(* offset, and each of them once.                                          *)
(***************************************************************************)
ProposalsAreSound ==
    /\ part = "candidates" => CandidatesAreSound(data.segments, data.highlight, 2)
    /\ part = "schedule" => ScheduleIsSound(data.zone, data.rules, data.shorts, data.occupied)
=============================================================================
