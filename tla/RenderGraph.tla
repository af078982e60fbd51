------------------------------ MODULE RenderGraph ------------------------------
(***************************************************************************)
(* The filter graph of a Render (render-composition.ts): lines that take   *)
(* labelled streams and give others, numbered by counters that advance     *)
(* only for what is drawn.  ffmpeg refuses a graph in which a label is     *)
(* given twice, taken twice, never taken, or unknown; nothing checks it    *)
(* before the encoder starts.                                              *)
(*                                                                         *)
(* A snapshot has: layers, with a type, an asset or none, and visible;     *)
(* assets in the order of the inputs; ranges, their number; cues, whether  *)
(* the captions have any to draw; graphics, their visibility; heard,       *)
(* whether the Episode's sound is; and bed, an asset or "none".            *)
(***************************************************************************)
EXTENDS Integers, Sequences, FiniteSets

Line(takes, gives) == [takes |-> takes, gives |-> gives]

\* A label has a name, an input or 0, and a number or -1.
Label(name, n) == <<name, 0, n>>

Sole(name) == Label(name, -1)

Numbered(name, n) == [i \in 1..n |-> Label(name, i - 1)]

\* A stream of the k-th input: 0 is the Episode.
Stream(k, kind) == <<kind, k, 0>>

InputOf(snapshot, asset) == {i \in DOMAIN snapshot.assets : snapshot.assets[i] = asset}

IsEpisodeVideo(layer) == layer.visible /\ layer.type = "video" /\ layer.asset = "none"

\* Mutant: hidden layers are counted as uses.
UsesHidden(layer) == layer.type \in {"video", "image"} /\ layer.asset # "none"

UsesAsset(layer) == layer.visible /\ layer.type \in {"video", "image"} /\ layer.asset # "none"

\* The layers up to the k-th that use the i-th asset.
Uses(snapshot, i, k) ==
    {l \in 1..k : UsesAsset(snapshot.layers[l]) /\ snapshot.layers[l].asset = snapshot.assets[i]}

AssetLabels(snapshot, i) ==
    [use \in 1..Cardinality(Uses(snapshot, i, Len(snapshot.layers))) |-> <<"asset", i, use - 1>>]

AssetLines(snapshot) ==
    LET lines[i \in 0..Len(snapshot.assets)] ==
            IF i = 0 THEN <<>>
            ELSE lines[i - 1] \o (IF AssetLabels(snapshot, i) = <<>> THEN <<>>
                                  ELSE <<Line(<<Stream(i, "v")>>, AssetLabels(snapshot, i))>>)
    IN  lines[Len(snapshot.assets)]

EpisodeLayers(snapshot, k) == {l \in 1..k : IsEpisodeVideo(snapshot.layers[l])}

\* Split, trimmed and concatenated ranges, and a copy for every layer.
EpisodeLines(snapshot) ==
    LET n       == snapshot.ranges
        layers  == Cardinality(EpisodeLayers(snapshot, Len(snapshot.layers)))
        sources == IF n = 1 THEN <<Stream(0, "v")>> ELSE Numbered("episode_source", n)
        pieces  == Numbered("episode_segment", n)
        whole   == IF n = 1 THEN pieces ELSE <<Sole("episode_timeline")>>
    IN  IF layers = 0 THEN <<>>
        ELSE (IF n > 1 THEN <<Line(<<Stream(0, "v")>>, sources)>> ELSE <<>>)
             \o [i \in 1..n |-> Line(<<sources[i]>>, <<pieces[i]>>)]
             \o (IF n > 1 THEN <<Line(pieces, whole)>> ELSE <<>>)
             \o <<Line(whole, Numbered("episode_layer", layers))>>

\* What the layers' loop carries: the lines, canvasIndex, episodeLayerIndex
\* and how many labels of each asset are used up.
Canvas(k) == Label("canvas", k)

Drawn(state) == [state EXCEPT !.lines = Append(@, Line(<<Canvas(state.canvas)>>, <<Canvas(state.canvas + 1)>>)),
                              !.canvas = @ + 1]

\* Cropped, scaled and padded to its region: one chain of filters.
fitChain(source, prepared) == Line(<<source>>, <<prepared>>)

Overlaid(state, source) ==
    LET prepared == Label("prepared", state.canvas)
    IN  [state EXCEPT !.lines = @ \o <<fitChain(source, prepared),
                                       Line(<<Canvas(state.canvas), prepared>>, <<Canvas(state.canvas + 1)>>)>>,
                      !.canvas = @ + 1]

LayerStep(snapshot, state, layer) ==
    CASE ~layer.visible -> state
      [] layer.visible /\ layer.type = "captions" ->
           IF snapshot.cues THEN Drawn(state) ELSE state
      [] layer.visible /\ layer.type = "text"  -> Drawn(state)
      [] layer.visible /\ layer.type \in {"shape", "blank text"} -> state
      [] IsEpisodeVideo(layer) ->
           [Overlaid(state, Label("episode_layer", state.episode)) EXCEPT !.episode = @ + 1]
      [] OTHER ->
           LET inputs == InputOf(snapshot, layer.asset)
               i      == CHOOSE j \in inputs : TRUE
           IN  IF inputs = {} \/ state.used[i] >= Len(AssetLabels(snapshot, i)) THEN state
               ELSE [Overlaid(state, AssetLabels(snapshot, i)[state.used[i] + 1])
                       EXCEPT !.used[i] = @ + 1]

LayerLines(snapshot) ==
    LET start == [lines |-> <<Line(<<>>, <<Canvas(0)>>)>>, canvas |-> 0, episode |-> 0,
                  used |-> [i \in DOMAIN snapshot.assets |-> 0]]
        drawn  == Len(snapshot.layers)
        layers[k \in 0..drawn] ==
            IF k = 0 THEN start ELSE LayerStep(snapshot, layers[k - 1], snapshot.layers[k])
        all    == Len(snapshot.graphics)
        graphics[k \in 0..all] ==
            IF k = 0 THEN layers[drawn]
            ELSE IF snapshot.graphics[k] THEN Drawn(graphics[k - 1]) ELSE graphics[k - 1]
    IN  graphics[all].lines \o <<Line(<<Canvas(graphics[all].canvas)>>, <<Sole("vout")>>)>>

\* buildAudioGraph: the Episode's sound, the bed, both or silence.
AudioLines(snapshot) ==
    LET n       == snapshot.ranges
        sources == IF n = 1 THEN <<Stream(0, "a")>> ELSE Numbered("audio_source", n)
        pieces  == Numbered("source_audio", n)
        source  == IF ~snapshot.heard THEN <<>>
                   ELSE (IF n > 1 THEN <<Line(<<Stream(0, "a")>>, sources)>> ELSE <<>>)
                        \o [i \in 1..n |-> Line(<<sources[i]>>, <<pieces[i]>>)]
                        \o <<Line(pieces, <<Sole("source_audio")>>)>>
        inputs  == InputOf(snapshot, snapshot.bed)
        bed     == IF inputs = {} THEN <<>>
                   ELSE <<Line(<<Stream(CHOOSE i \in inputs : TRUE, "a")>>, <<Sole("bed_audio")>>)>>
        audible == (IF snapshot.heard THEN <<Sole("source_audio")>> ELSE <<>>)
                   \o (IF inputs = {} THEN <<>> ELSE <<Sole("bed_audio")>>)
    IN  source \o bed \o <<Line(audible, <<Sole("aout")>>)>>

\* The labels that the arguments map to the streams of the output.
OutputLabels == {Sole("vout"), Sole("aout")}

buildRenderGraph(snapshot) ==
    AssetLines(snapshot) \o EpisodeLines(snapshot) \o LayerLines(snapshot) \o AudioLines(snapshot)
-----------------------------------------------------------------------------
Ends(lines, side) == UNION {{<<i, k>> : k \in DOMAIN lines[i][side]} : i \in DOMAIN lines}

LabelAt(lines, side, end) == lines[end[1]][side][end[2]]

IsInput(label) == label[1] \in {"v", "a"}

\* Every label is given once and taken once, later; what is mapped to the
\* output is given; a stream of an input is taken once at most.
IsWired(lines) ==
    LET gives == Ends(lines, "gives")
        takes == Ends(lines, "takes")
    IN  /\ \A g, h \in gives : LabelAt(lines, "gives", g) = LabelAt(lines, "gives", h) => g = h
        /\ \A t, u \in takes : LabelAt(lines, "takes", t) = LabelAt(lines, "takes", u) => t = u
        /\ \A t \in takes : IsInput(LabelAt(lines, "takes", t)) \/
             \E g \in gives : g[1] < t[1] /\ LabelAt(lines, "gives", g) = LabelAt(lines, "takes", t)
        /\ {LabelAt(lines, "gives", g) : g \in gives} \ {LabelAt(lines, "takes", t) : t \in takes} = OutputLabels
=============================================================================
