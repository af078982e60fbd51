------------------------------- MODULE Candidates -------------------------------
(***************************************************************************)
(* Candidates of an Episode (candidates.ts): windows of transcript         *)
(* segments, or highlights of an analysis widened to whole segments, that  *)
(* pass the quality floors, and of each group of duplicates the best.      *)
(*                                                                         *)
(* A segment is [from, to, words, quality].  The score of a window is      *)
(* abstracted to the qualities of its first and last segments: the hook    *)
(* and the completeness, which the code reads there.                       *)
(***************************************************************************)
EXTENDS Integers, Sequences, FiniteSets, FiniteSetsExt

CONSTANTS MinDuration, MaxDuration

ASSUME DurationAssumption ==
    MinDuration \in Nat /\ MaxDuration \in Nat /\ MinDuration <= MaxDuration

\* A window [first, last] of segments, as a candidate.
Proposal(segments, first, last) ==
    [from  |-> segments[first].from, to |-> segments[last].to,
     words |-> UNION {segments[i].words : i \in first..last},
     score |-> 2 * segments[first].quality + segments[last].quality]

Duration(p) == p.to - p.from

passesQuality(p) == p.score >= 1

Windows(segments) == {w \in (DOMAIN segments) \X (DOMAIN segments) : w[1] <= w[2]}

Allowed(segments, w) ==
    segments[w[2]].to - segments[w[1]].from \in MinDuration..MaxDuration

compareCandidates(a, b) ==
    \/ a.score > b.score
    \/ a.score = b.score /\ a.from < b.from
    \/ a.score = b.score /\ a.from = b.from /\ a.to < b.to

\* Each in the place that the number of those before it gives.
BestFirst(S) ==
    [k \in 1..Cardinality(S) |-> CHOOSE p \in S : Cardinality({q \in S : compareCandidates(q, p)}) = k - 1]

\* intersectionRatio > 0.35
Overlap(a, b) ==
    LET common == Min({a.to, b.to}) - Max({a.from, b.from})
    IN  100 * common > 35 * Min({Duration(a), Duration(b)})

\* jaccard >= 0.88
SameWords(a, b) ==
    /\ a.words \cup b.words # {}
    /\ 100 * Cardinality(a.words \cap b.words) >= 88 * Cardinality(a.words \cup b.words)

candidatesConflict(a, b) == Overlap(a, b) \/ SameWords(a, b)

\* Mutant: a proposal is compared with the newest member of a cluster.
ComparedNewest(cluster) == Max(cluster)

\* Of a cluster, a set of places among the proposals, the one that joins compare with.
Representative(cluster) == Min(cluster)

\* A proposal joins the first cluster whose best it resembles.
Joined(clusters, sorted, k) ==
    LET like == {c \in DOMAIN clusters :
                   candidatesConflict(sorted[Representative(clusters[c])], sorted[k])}
    IN  IF like = {} THEN Append(clusters, {k})
        ELSE [clusters EXCEPT ![Min(like)] = @ \cup {k}]

clusterProposals(sorted) ==
    LET clusters[k \in 0..Len(sorted)] == IF k = 0 THEN <<>> ELSE Joined(clusters[k - 1], sorted, k)
    IN  clusters[Len(sorted)]

Total(counts) ==
    LET total[k \in 0..Len(counts)] == IF k = 0 THEN 0 ELSE total[k - 1] + counts[k]
    IN  total[Len(counts)]

Best(cluster) == Min(cluster)

\* The duplicates of the best of a cluster that overlap it; the others have its words.
TemporalDuplicates(sorted, cluster) ==
    {k \in cluster \ {Best(cluster)} : Overlap(sorted[Best(cluster)], sorted[k])}

\* From proposals to candidates, the best count of them, and what was dropped.
\* The clusters come in the order of their best.
Selected(proposals, count) ==
    LET good     == {p \in proposals : passesQuality(p)}
        sorted   == BestFirst(good)
        clusters == clusterProposals(sorted)
        best     == [c \in DOMAIN clusters |-> sorted[Best(clusters[c])]]
        temporal == [c \in DOMAIN clusters |-> Cardinality(TemporalDuplicates(sorted, clusters[c]))]
    IN  [candidates |-> SubSeq(best, 1, IF Len(best) > count THEN count ELSE Len(best)),
         found      |-> Len(best),
         quality    |-> Cardinality(proposals) - Cardinality(good),
         overlap    |-> Total(temporal),
         semantic   |-> Total([c \in DOMAIN clusters |-> Cardinality(clusters[c]) - 1 - temporal[c]])]

\* Heuristic mode: a window that is too long ends the inner loop, and all of
\* those behind count as rejected.
RejectedFrom(segments, i) ==
    LET length(j) == segments[j].to - segments[i].from
        short     == {j \in i..Len(segments) : length(j) < MinDuration}
        long      == {j \in i..Len(segments) : length(j) > MaxDuration}
    IN  Cardinality(short) + IF long = {} THEN 0 ELSE Len(segments) - Min(long) + 1

RejectedDurations(segments) == Total([i \in DOMAIN segments |-> RejectedFrom(segments, i)])

HeuristicProposals(segments) ==
    {Proposal(segments, w[1], w[2]) : w \in {v \in Windows(segments) : Allowed(segments, v)}}

generateCandidates(segments, count) == Selected(HeuristicProposals(segments), count)

\* Analysis mode: the segments a highlight touches.
Touched(segments, highlight) ==
    {i \in DOMAIN segments : segments[i].to > highlight.from /\ segments[i].from < highlight.to}

\* A window that is too short is widened to the side with the shorter neighbour;
\* <<>> if there is none, or if it is too long.
Widened(segments, w) ==
    LET duration == segments[w[2]].to - segments[w[1]].from
        len(i)   == segments[i].to - segments[i].from
        earlier  == w[1] > 1
        later    == w[2] < Len(segments)
    IN  IF w = <<>> THEN <<>>
        ELSE IF duration > MaxDuration THEN <<>>
        ELSE IF duration >= MinDuration THEN w
        ELSE IF earlier /\ (later => len(w[1] - 1) <= len(w[2] + 1)) THEN <<w[1] - 1, w[2]>>
        ELSE IF later THEN <<w[1], w[2] + 1>>
        ELSE <<>>

alignHighlight(segments, highlight) ==
    LET touched == Touched(segments, highlight)
        window[k \in 0..Len(segments)] ==
            IF k = 0 THEN <<Min(touched), Max(touched)>> ELSE Widened(segments, window[k - 1])
    IN  IF touched = {} THEN <<>> ELSE window[Len(segments)]
-----------------------------------------------------------------------------
\* No two candidates are alike, none is too short or too long, and whatever
\* was good enough and is missing has a likeness that is at least as good.
DistinctAndBest(proposals, result, count) ==
    LET chosen == {result.candidates[c] : c \in DOMAIN result.candidates}
    IN  /\ \A p, q \in chosen : p # q => ~candidatesConflict(p, q)
        /\ \A p \in chosen : Duration(p) \in MinDuration..MaxDuration
        /\ \A p \in proposals : passesQuality(p) => \E q \in chosen :
             /\ q.score >= p.score
             /\ q = p \/ candidatesConflict(q, p) \/ result.found > count
        /\ Cardinality(proposals) = result.found + result.quality + result.overlap + result.semantic

\* Every window is accounted for in the diagnostic.
WindowsAreCounted(segments) ==
    Cardinality(Windows(segments)) =
        RejectedDurations(segments) + Cardinality({w \in Windows(segments) : Allowed(segments, w)})

\* A highlight that is kept is covered, by a window of an allowed length.
HighlightsAreCovered(segments, highlight) ==
    LET window == alignHighlight(segments, highlight)
    IN  window # <<>> =>
          /\ Allowed(segments, window)
          /\ Touched(segments, highlight) \subseteq window[1]..window[2]

CandidatesAreSound(segments, highlight, count) ==
    /\ DistinctAndBest(HeuristicProposals(segments), generateCandidates(segments, count), count)
    /\ WindowsAreCounted(segments)
    /\ HighlightsAreCovered(segments, highlight)
=============================================================================
