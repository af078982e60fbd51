------------------------------- MODULE Timeline -------------------------------
(***************************************************************************)
(* One Short, many timelines: its source ranges, in ms of the Episode, are *)
(* put one after the other, and the editor's playhead (editor-state.ts),   *)
(* the captions (captions.ts, render-composition.ts), the audio decision   *)
(* (audio.ts) and the crop samples (crops.ts) each map between that output *)
(* and the source on their own.                                            *)
(*                                                                         *)
(* A range or a cue is [from, to]; ranges are ordered, apart and not empty *)
(* (the contract's sourceRangesSchema), cues are not empty.                *)
(***************************************************************************)
EXTENDS Integers, Sequences, FiniteSets, SequencesExt

Length(range) == range.to - range.from

\* Where the i-th range begins in the output, or the one before it ends.
OffsetOf(ranges, i) ==
    LET offset[j \in 1..(Len(ranges) + 1)] ==
            IF j = 1 THEN 0 ELSE offset[j - 1] + Length(ranges[j - 1])
    IN  offset[i]

outputDuration(ranges) == OffsetOf(ranges, Len(ranges) + 1)

First(indexes) == CHOOSE i \in indexes : \A j \in indexes : i <= j
-----------------------------------------------------------------------------
\* Mutant: the instant at a cut belongs to the range before it.
mapOutputLate(ranges, at) ==
    LET i == First({j \in DOMAIN ranges : at <= OffsetOf(ranges, j + 1)} \cup {Len(ranges)})
    IN  [index |-> i, source |-> ranges[i].from + (at - OffsetOf(ranges, i))]

\* The playhead: the first range that ends after it, or the last.
mapOutputToSource(ranges, at) ==
    LET i     == First({j \in DOMAIN ranges : at < OffsetOf(ranges, j + 1)} \cup {Len(ranges)})
        delta == at - OffsetOf(ranges, i)
    IN  [index  |-> i,
         source |-> ranges[i].from + (IF delta > Length(ranges[i]) THEN Length(ranges[i]) ELSE delta)]

Containing(cue, ranges) == {i \in DOMAIN ranges : ranges[i].from <= cue.from /\ cue.to <= ranges[i].to}

\* A cue that no range contains is left out.
Mapped(cues, ranges) ==
    {[id   |-> c,
      from |-> OffsetOf(ranges, First(Containing(cues[c], ranges))) + cues[c].from
                 - ranges[First(Containing(cues[c], ranges))].from,
      to   |-> OffsetOf(ranges, First(Containing(cues[c], ranges))) + cues[c].to
                 - ranges[First(Containing(cues[c], ranges))].from] :
     c \in {d \in DOMAIN cues : Containing(cues[d], ranges) # {}}}

Before(left, right) ==
    \/ left.from < right.from
    \/ left.from = right.from /\ left.to < right.to
    \/ left.from = right.from /\ left.to = right.to /\ left.id < right.id

\* Each in the place that the number of those before it gives.
InOrderOfTime(S) ==
    [i \in 1..Cardinality(S) |-> CHOOSE cue \in S : Cardinality({c \in S : Before(c, cue)}) = i - 1]

\* SRT and WebVTT, in order.
generateCaptionSidecars(cues, ranges, enabled) ==
    IF enabled THEN InOrderOfTime(Mapped(cues, ranges)) ELSE <<>>

\* drawtext, enabled from and until an output time.
captionFilters(cues, ranges) == Mapped(cues, ranges)

Timed(cues) == {[id |-> c, from |-> cues[c].from, to |-> cues[c].to] : c \in DOMAIN cues}

\* The sweep over the cues in order, with the latest ending so far.
OverlapWarnings(cues) ==
    LET ordered == InOrderOfTime(Timed(cues))
        latest[k \in 1..(Len(ordered) + 1)] ==
            IF k = 1 THEN 0
            ELSE IF ordered[k - 1].to > latest[k - 1] THEN ordered[k - 1].to ELSE latest[k - 1]
    IN  {ordered[k].id : k \in {j \in DOMAIN ordered : ordered[j].from < latest[j]}}

buildAudioDecision(ranges, cutFade) ==
    [i \in DOMAIN ranges |->
        [from |-> ranges[i].from, to |-> ranges[i].to,
         start |-> OffsetOf(ranges, i), end |-> OffsetOf(ranges, i + 1),
         fade |-> IF cutFade < Length(ranges[i]) \div 2 THEN cutFade ELSE Length(ranges[i]) \div 2]]

\* The bed starts again and again until the output ends.
buildBedPlayback(duration, bed) ==
    [k \in 1..((duration + bed - 1) \div bed) |->
        [start |-> (k - 1) * bed,
         end   |-> IF k * bed < duration THEN k * bed ELSE duration]]

\* Of the samples that fall on one output instant, at a cut, the first stays.
remapSamplesToShort(samples, ranges) ==
    LET inside   == {p \in (DOMAIN ranges) \X samples :
                       ranges[p[1]].from <= p[2] /\ p[2] <= ranges[p[1]].to}
        remapped == {[at |-> OffsetOf(ranges, p[1]) + p[2] - ranges[p[1]].from,
                      sample |-> p[2], range |-> p[1]] : p \in inside}
    IN  {r \in remapped : \A q \in remapped : q.at = r.at => r.range <= q.range}

\* trim and concat: the source instants in the order the Render shows them.
Reel(ranges) ==
    FlattenSeq([i \in DOMAIN ranges |-> [k \in 1..Length(ranges[i]) |-> ranges[i].from + k - 1]])
-----------------------------------------------------------------------------
PlayheadShowsTheRender(ranges) ==
    \A k \in DOMAIN Reel(ranges) : mapOutputToSource(ranges, k - 1).source = Reel(ranges)[k]

\* Of cues that share an instant all but the first are warned of.
OverlapsAreFound(cues) ==
    OverlapWarnings(cues) =
      {c \in DOMAIN cues : \E d \in DOMAIN cues :
         /\ Before([id |-> d, from |-> cues[d].from, to |-> cues[d].to],
                   [id |-> c, from |-> cues[c].from, to |-> cues[c].to])
         /\ cues[c].from < cues[d].to}

\* A cue is on screen with exactly the source it was written for.
CaptionsFollow(ranges, cues) ==
    /\ \A m \in captionFilters(cues, ranges) :
         \A k \in m.from..(m.to - 1) :
           k + 1 \in DOMAIN Reel(ranges) /\ Reel(ranges)[k + 1] = cues[m.id].from + k - m.from
    /\ ToSet(generateCaptionSidecars(cues, ranges, TRUE)) = captionFilters(cues, ranges)
    /\ OverlapsAreFound(cues)

AudioFollows(ranges, cutFade, bed) ==
    LET segments == buildAudioDecision(ranges, cutFade)
        playback == buildBedPlayback(outputDuration(ranges), bed)
    IN  /\ \A i \in DOMAIN segments :
             /\ \A k \in segments[i].start..(segments[i].end - 1) :
                  Reel(ranges)[k + 1] = segments[i].from + k - segments[i].start
             /\ 2 * segments[i].fade <= Length(ranges[i])
        /\ \A k \in 0..(outputDuration(ranges) - 1) :
             Cardinality({p \in DOMAIN playback : playback[p].start <= k /\ k < playback[p].end}) = 1
        /\ \A p \in DOMAIN playback : playback[p].end - playback[p].start <= bed

\* Only at a cut may a crop come from the end of the range before.
CropsFollow(ranges, samples) ==
    LET kept == remapSamplesToShort(samples, ranges)
    IN  /\ \A r, q \in kept : r.at = q.at => r = q
        /\ \A r \in kept : r.at + 1 \in DOMAIN Reel(ranges) =>
             \/ Reel(ranges)[r.at + 1] = r.sample
             \/ r.at = OffsetOf(ranges, r.range + 1) /\ r.sample = ranges[r.range].to
        /\ \A k \in DOMAIN Reel(ranges) :
             Reel(ranges)[k] \in samples => \E r \in kept : r.at = k - 1

TimelinesAgree(ranges, cues, samples, cutFade, bed) ==
    /\ PlayheadShowsTheRender(ranges)
    /\ CaptionsFollow(ranges, cues)
    /\ AudioFollows(ranges, cutFade, bed)
    /\ CropsFollow(ranges, samples)
=============================================================================
