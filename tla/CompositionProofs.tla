--------------------------- MODULE CompositionProofs ---------------------------
(***************************************************************************)
(* Proofs about what a Short is composed of, for any data: its timeline,   *)
(* its crops, its captions and text, and the filter graph of its Render.   *)
(* Each part proves what the properties of its module say.                 *)
(*                                                                         *)
(* The recursive functions of the modules are shown to have the solution   *)
(* that their equations describe by FoldExists and Iterates, below, from a *)
(* first length for which there would be none.                             *)
(***************************************************************************)
EXTENDS Timeline, CropTracks, CropGeneration, CaptionLayout, RenderGraph,
        FiniteSetTheorems, WellFoundedInduction, TLAPS

LEMMA SmallestNat ==
  ASSUME NEW S \in SUBSET Nat, S # {}
  PROVE  \E x \in S : \A y \in S : x <= y
<1>1. \E x \in S : \A y \in S : <<y, x>> \notin OpToRel(<, Nat)
  BY NatLessThanWellFounded, WFMin
<1>2. PICK x \in S : \A y \in S : <<y, x>> \notin OpToRel(<, Nat)
  BY <1>1
<1>3. \A y \in S : ~(y < x)
  BY <1>2 DEF OpToRel
<1> QED
  BY <1>3

LEMMA Greatest ==
  ASSUME NEW S \in SUBSET Int, S # {}, NEW b \in Int, \A x \in S : x <= b
  PROVE  \E x \in S : \A y \in S : y <= x
<1> DEFINE T == {b - x : x \in S}
<1>1. T \in SUBSET Nat /\ T # {}
  <2>1. \A x \in S : b - x \in Nat
    OBVIOUS
  <2> QED BY <2>1
<1>2. PICK t \in T : \A y \in T : t <= y
  <2> HIDE DEF T
  <2> QED BY <1>1, SmallestNat
<1>3. PICK x \in S : t = b - x
  BY <1>2
<1>4. \A y \in S : y <= x
  <2> TAKE y \in S
  <2>1. t <= b - y
    BY <1>2
  <2> QED BY <2>1, <1>3
<1> QED
  BY <1>4

LEMMA Least ==
  ASSUME NEW S \in SUBSET Int, S # {}, NEW b \in Int, \A x \in S : b <= x
  PROVE  \E x \in S : \A y \in S : x <= y
<1> DEFINE T == {x - b : x \in S}
<1>1. T \in SUBSET Nat /\ T # {}
  OBVIOUS
<1>2. PICK t \in T : \A y \in T : t <= y
  <2> HIDE DEF T
  <2> QED BY <1>1, SmallestNat
<1>3. PICK x \in S : t = x - b
  BY <1>2
<1>4. \A y \in S : x <= y
  <2> TAKE y \in S
  <2>1. t <= y - b
    BY <1>2
  <2> QED BY <2>1, <1>3
<1> QED
  BY <1>4
-----------------------------------------------------------------------------
(***************************************************************************)
(* CropTracks: on every piece between two knots the three readings are     *)
(* linear with one slope, because Scale makes every slope whole.           *)
(***************************************************************************)

Multiples == {Scale * k : k \in Int}

Increasing(track) == \A i, j \in DOMAIN track : i < j => track[i].at < track[j].at

IsTrack(track) ==
    /\ Len(track) \in Nat /\ DOMAIN track = 1..Len(track)
    /\ \A i \in DOMAIN track : track[i].at \in CropTimes
    /\ Increasing(track)

FrameTrack(frames) == frames \in Seq([at : CropTimes, value : Multiples]) /\ Increasing(frames)

Control == [at : CropTimes, mode : {"crop"}, value : Multiples]
             \cup [at : CropTimes, mode : {"automatic"}]

ControlTrack(controls) == controls \in Seq(Control) /\ Increasing(controls)

\* The part of a track that is in force at p is in force until t.
NoneWithin(track, p, t) == \A i \in DOMAIN track : track[i].at <= p \/ t <= track[i].at

LEMMA Distribute ==
  ASSUME NEW s \in Int, NEW x \in Int, NEW y \in Int, NEW z \in Int
  PROVE  /\ s * (y - x) + s * (z - y) = s * (z - x)
         /\ s * (x - x) = 0
<1>1. s * (y - x) = s * y - s * x /\ s * (z - y) = s * z - s * y /\ s * (z - x) = s * z - s * x
  BY SMT
<1>2. s * y \in Int /\ s * x \in Int /\ s * z \in Int
  BY SMT
<1>3. x - x = 0 /\ s * 0 = 0
  OBVIOUS
<1> QED
  BY <1>1, <1>2, <1>3

LEMMA Slope ==
  ASSUME NEW a \in CropTimes, NEW b \in CropTimes, a < b,
         NEW u \in Multiples, NEW v \in Multiples
  PROVE  \E s \in Int : v - u = s * (b - a)
<1> DEFINE d == b - a
           m == Scale \div d
<1>1. d \in Nat \ {0} /\ Scale \in Nat \ {0} /\ Scale % d = 0
  BY CropAssumption
<1>2. m \in Int /\ Scale = d * m
  <2> HIDE DEF d
  <2> QED BY <1>1, SMT
<1>3. PICK j \in Int, k \in Int : u = Scale * j /\ v = Scale * k
  BY DEF Multiples
<1> HIDE DEF m, d
<1>4. v - u = Scale * (k - j)
  BY <1>1, <1>3, SMT
<1>5. Scale * (k - j) = (m * (k - j)) * d
  BY <1>1, <1>2, SMT
<1>6. m * (k - j) \in Int
  BY <1>2
<1> QED
  BY <1>4, <1>5, <1>6 DEF d

LEMMA BetweenIsLinear ==
  ASSUME NEW l, NEW r, NEW at \in Int, l.at \in Int, r.at \in Int, l.at < r.at,
         l.value \in Int, r.value \in Int,
         NEW s \in Int, r.value - l.value = s * (r.at - l.at)
  PROVE  Between(l, r, at) = l.value + s * (at - l.at)
<1> DEFINE d == r.at - l.at
           e == at - l.at
<1>1. d \in Nat \ {0} /\ e \in Int
  OBVIOUS
<1>2. (r.value - l.value) * e = (s * e) * d
  <2>1. r.value - l.value = s * d
    OBVIOUS
  <2> HIDE DEF d, e
  <2>2. (s * d) * e = (s * e) * d
    BY <1>1, SMT
  <2> QED BY <2>1, <2>2
<1>3. s * e \in Int
  <2> HIDE DEF e
  <2> QED BY <1>1
<1>4. ((s * e) * d) \div d = s * e
  <2> HIDE DEF d, e
  <2> DEFINE q == s * e
  <2>1. q \in Int
    BY <1>3
  <2> HIDE DEF q
  <2>2. (q * d) \div d = q
    BY <1>1, <2>1, SMT
  <2> QED BY <2>2 DEF q
<1> QED
  BY <1>2, <1>4 DEF Between

LEMMA BetweenAtLeft ==
  ASSUME NEW l, NEW r, l.at \in Int, r.at \in Int, l.at < r.at, l.value \in Int, r.value \in Int
  PROVE  Between(l, r, l.at) = l.value
<1> DEFINE d == r.at - l.at
           c == r.value - l.value
<1>1. d \in Nat \ {0} /\ c \in Int
  OBVIOUS
<1>2. c * (l.at - l.at) = 0
  <2> HIDE DEF c
  <2> QED BY <1>1
<1>3. 0 \div d = 0
  <2> HIDE DEF d
  <2> QED BY <1>1, SMT
<1> QED
  BY <1>2, <1>3 DEF Between

LEMMA LastUpToIs ==
  ASSUME NEW track, IsTrack(track), NEW at \in Int, UpTo(track, at) # {}
  PROVE  /\ LastUpTo(track, at) \in DOMAIN track
         /\ \A j \in DOMAIN track : track[j].at <= at <=> j <= LastUpTo(track, at)
<1>1. UpTo(track, at) \in SUBSET Int /\ Len(track) \in Int /\ \A j \in UpTo(track, at) : j <= Len(track)
  BY DEF IsTrack, UpTo
<1>2. \E i \in UpTo(track, at) : \A j \in UpTo(track, at) : j <= i
  BY <1>1, Greatest
<1>3. LastUpTo(track, at) \in UpTo(track, at) /\ \A j \in UpTo(track, at) : j <= LastUpTo(track, at)
  BY <1>2 DEF LastUpTo
<1>4. \A j \in DOMAIN track : track[j].at \in Nat
  BY CropAssumption DEF IsTrack
<1> DEFINE i == LastUpTo(track, at)
<1>5. i \in DOMAIN track /\ track[i].at <= at
  BY <1>3 DEF UpTo
<1>6. \A j \in DOMAIN track : j <= i => track[j].at <= at
  <2> TAKE j \in DOMAIN track
  <2> HAVE j <= i
  <2>1. j = i \/ j < i
    BY <1>5 DEF IsTrack
  <2>2. CASE j < i
    <3>1. track[j].at < track[i].at
      BY <2>2, <1>5 DEF IsTrack, Increasing
    <3> HIDE DEF i
    <3> QED BY <3>1, <1>4, <1>5
  <2> QED BY <2>1, <2>2, <1>5
<1>7. \A j \in DOMAIN track : track[j].at <= at => j <= i
  BY <1>3 DEF UpTo
<1> QED
  BY <1>5, <1>6, <1>7

\* The index in force is told by its neighbours.
LEMMA LastControl ==
  ASSUME NEW track, IsTrack(track), NEW at \in Int,
         NEW i \in DOMAIN track, track[i].at <= at,
         i + 1 \in DOMAIN track => at < track[i + 1].at
  PROVE  UpTo(track, at) # {} /\ LastUpTo(track, at) = i
<1>1. UpTo(track, at) # {}
  BY DEF UpTo
<1> DEFINE k == LastUpTo(track, at)
<1>2. k \in DOMAIN track /\ \A j \in DOMAIN track : track[j].at <= at <=> j <= k
  BY <1>1, LastUpToIs
<1> HIDE DEF k
<1>3. i <= k /\ i \in Nat /\ k \in Nat
  BY <1>2 DEF IsTrack
<1>4. ASSUME i < k PROVE FALSE
  <2>1. i + 1 \in DOMAIN track /\ i + 1 <= k
    BY <1>3, <1>4, <1>2 DEF IsTrack
  <2>2. track[i + 1].at <= at /\ at < track[i + 1].at
    BY <2>1, <1>2
  <2>3. track[i + 1].at \in Nat
    BY <2>1, CropAssumption DEF IsTrack
  <2> QED BY <2>2, <2>3
<1>5. k = i
  BY <1>3, <1>4
<1> QED
  BY <1>1, <1>5 DEF k

LEMMA FrameFacts ==
  ASSUME NEW frames, FrameTrack(frames)
  PROVE  /\ IsTrack(frames)
         /\ \A i \in DOMAIN frames : frames[i].at \in Int
         /\ \A i \in DOMAIN frames : frames[i].value \in Multiples
         /\ Multiples \subseteq Int
<1>1. frames \in Seq([at : CropTimes, value : Multiples]) /\ Increasing(frames)
  BY DEF FrameTrack
<1>2. Len(frames) \in Nat /\ DOMAIN frames = 1..Len(frames)
  BY <1>1
<1>3. \A i \in DOMAIN frames : frames[i] \in [at : CropTimes, value : Multiples]
  <2> DEFINE S == [at : CropTimes, value : Multiples]
  <2>1. frames \in Seq(S)
    BY <1>1
  <2> HIDE DEF S
  <2>2. \A i \in DOMAIN frames : frames[i] \in S
    BY <2>1, <1>2
  <2> QED BY <2>2 DEF S
<1>4. \A i \in DOMAIN frames : frames[i].at \in CropTimes /\ frames[i].value \in Multiples
  BY <1>3
<1>5. CropTimes \subseteq Int
  BY CropAssumption
<1>6. Multiples \subseteq Int
  BY CropAssumption DEF Multiples
<1> QED BY <1>1, <1>2, <1>4, <1>5, <1>6 DEF IsTrack

\* Where the i-th frame is followed by another, its slope; elsewhere 0.
LEMMA FramesAreLinear ==
  ASSUME NEW frames, FrameTrack(frames), NEW p \in Int
  PROVE  \E s \in Int : \A t \in Int : p <= t /\ NoneWithin(frames, p, t) =>
            interpolateCropFrames(frames, t) = interpolateCropFrames(frames, p) + s * (t - p)
<1>1. IsTrack(frames) /\ \A i \in DOMAIN frames : frames[i].at \in Int /\ frames[i].value \in Multiples
  BY FrameFacts
<1>2. Multiples \subseteq Int /\ FullFrame \in Int /\ CropTimes \subseteq Int
  BY CropAssumption DEF Multiples, FullFrame
<1>3. \A x \in Int, t \in Int : x = x + 0 * (t - p)
  OBVIOUS
<1>4. CASE frames = <<>>
  BY <1>4, <1>2, <1>3 DEF interpolateCropFrames
<1>5. CASE frames # <<>> /\ UpTo(frames, p) = {}
  <2>1. 1 \in DOMAIN frames /\ Head(frames) = frames[1] /\ Len(frames) >= 1
    BY <1>5 DEF FrameTrack
  <2>0. interpolateCropFrames(frames, p) = frames[1].value /\ frames[1].value \in Int
    BY <1>5, <2>1, <1>1, <1>2 DEF interpolateCropFrames
  <2> WITNESS 0 \in Int
  <2>2. SUFFICES ASSUME NEW t \in Int, p <= t, NoneWithin(frames, p, t)
                 PROVE  interpolateCropFrames(frames, t) = frames[1].value
    BY <2>0, <1>3
  <2>3. CASE UpTo(frames, t) = {}
    BY <2>3, <1>5, <2>1 DEF interpolateCropFrames
  <2>4. CASE UpTo(frames, t) # {}
    <3>1. \A i \in DOMAIN frames : t <= frames[i].at
      <4>1. \A i \in DOMAIN frames : ~(frames[i].at <= p)
        BY <1>5 DEF UpTo
      <4> QED BY <4>1, <2>2 DEF NoneWithin
    <3>2. PICK j \in DOMAIN frames : frames[j].at <= t
      BY <2>4 DEF UpTo
    <3>3. j = 1
      <4>1. ~(1 < j)
        <5> SUFFICES ASSUME 1 < j PROVE FALSE
          OBVIOUS
        <5>1. frames[1].at < frames[j].at
          BY <2>1 DEF FrameTrack, Increasing
        <5> QED BY <5>1, <3>1, <3>2, <2>1, <1>1
      <4> QED BY <4>1, <1>1 DEF IsTrack
    <3>4. frames[1].at = t
      BY <3>1, <3>2, <3>3, <1>1, <2>1
    <3>5. 2 \in DOMAIN frames => t < frames[2].at
      BY <3>4, <2>1 DEF FrameTrack, Increasing
    <3>6. LastUpTo(frames, t) = 1
      BY <2>1, <3>4, <3>5, <1>1, LastControl
    <3>7. CASE Len(frames) = 1
      BY <3>7, <3>6, <2>4, <1>5 DEF interpolateCropFrames, Last
    <3>8. CASE Len(frames) # 1
      <4>1. 2 \in DOMAIN frames
        BY <3>8, <2>1, <1>1 DEF IsTrack
      <4>2. Between(frames[1], frames[2], frames[1].at) = frames[1].value
        BY <4>1, <2>1, <1>1, <1>2, <3>4, <3>5, BetweenAtLeft
      <4>3. interpolateCropFrames(frames, t) = Between(frames[1], frames[2], t)
        BY <3>6, <3>8, <2>4, <1>5 DEF interpolateCropFrames
      <4> QED BY <4>2, <4>3, <3>4
    <3> QED BY <3>7, <3>8
  <2> QED BY <2>3, <2>4
<1>6. CASE frames # <<>> /\ UpTo(frames, p) # {}
  <2> DEFINE i == LastUpTo(frames, p)
  <2>1. i \in DOMAIN frames /\ \A j \in DOMAIN frames : frames[j].at <= p <=> j <= i
    BY <1>1, <1>6, LastUpToIs
  <2>2. i \in Nat /\ i >= 1 /\ i <= Len(frames) /\ Len(frames) \in Nat
    <3> HIDE DEF i
    <3> QED BY <2>1, <1>1 DEF IsTrack
  <2>3. CASE i = Len(frames)
    <3>1. SUFFICES ASSUME NEW t \in Int, p <= t
                   PROVE  interpolateCropFrames(frames, t) = Last(frames).value
      <4>1. interpolateCropFrames(frames, p) = Last(frames).value
        BY <1>6, <2>3 DEF interpolateCropFrames
      <4>2. Last(frames).value \in Int
        BY <2>1, <2>3, <1>1, <1>2 DEF Last
      <4>3. interpolateCropFrames(frames, p) \in Int
        BY <4>1, <4>2
      <4>4. PICK v \in Int : v = interpolateCropFrames(frames, p)
        BY <4>3
      <4>5. \A t \in Int : p <= t => interpolateCropFrames(frames, t) = v + 0 * (t - p)
        <5> TAKE t \in Int
        <5> HAVE p <= t
        <5>1. interpolateCropFrames(frames, t) = Last(frames).value
          BY <3>1
        <5>2. v + 0 * (t - p) = v
          OBVIOUS
        <5> QED BY <5>1, <5>2, <4>1, <4>4
      <4>6. \A t \in Int : p <= t /\ NoneWithin(frames, p, t) =>
              interpolateCropFrames(frames, t) = interpolateCropFrames(frames, p) + 0 * (t - p)
        BY <4>4, <4>5
      <4> WITNESS 0 \in Int
      <4> QED BY <4>6
    <3>2. frames[i].at <= t
      <4> HIDE DEF i
      <4>1. frames[i].at <= p /\ frames[i].at \in Int
        BY <2>1, <1>1, <2>2
      <4> QED BY <4>1, <3>1
    <3>3. UpTo(frames, t) # {} /\ LastUpTo(frames, t) = i
      <4> HIDE DEF i
      <4>1. i + 1 \notin DOMAIN frames
        BY <2>3, <2>2, <1>1 DEF IsTrack
      <4> QED BY <4>1, <3>2, <2>1, <1>1, LastControl
    <3> QED BY <3>3, <2>3, <1>6 DEF interpolateCropFrames
  <2>4. CASE i # Len(frames)
    <3> DEFINE l == frames[i]
               r == frames[i + 1]
    <3>1. i + 1 \in DOMAIN frames /\ l.at \in CropTimes /\ r.at \in CropTimes
          /\ l.value \in Multiples /\ r.value \in Multiples
      <4>1. i + 1 \in DOMAIN frames
        <5> HIDE DEF i
        <5> QED BY <2>4, <2>2, <1>1 DEF IsTrack
      <4> HIDE DEF i
      <4> QED BY <4>1, <2>1, <1>1 DEF IsTrack
    <3>2. l.at < r.at
      <4> HIDE DEF i
      <4>1. i < i + 1
        BY <2>2
      <4> QED BY <4>1, <3>1, <2>1 DEF FrameTrack, Increasing
    <3>3. PICK s \in Int : r.value - l.value = s * (r.at - l.at)
      <4> HIDE DEF l, r
      <4> QED BY <3>1, <3>2, Slope
    <3>4. l.at \in Int /\ r.at \in Int /\ l.value \in Int /\ r.value \in Int /\ l.at <= p /\ p < r.at
      <4>1. l.at <= p
        <5> HIDE DEF i
        <5> QED BY <2>1, <2>2
      <4>2. ~(r.at <= p)
        <5>1. ~(i + 1 <= i)
          <6> HIDE DEF i
          <6> QED BY <2>2
        <5> HIDE DEF i
        <5> QED BY <5>1, <3>1, <2>1
      <4> HIDE DEF l, r
      <4>3. l.at \in Int /\ r.at \in Int
        BY <3>1, <1>2
      <4>4. l.value \in Int /\ r.value \in Int
        BY <3>1, <1>2
      <4> QED BY <4>1, <4>2, <4>3, <4>4
    <3>5. ASSUME NEW t \in Int, p <= t, t <= r.at
          PROVE  interpolateCropFrames(frames, t) = l.value + s * (t - l.at)
      <4>1. CASE t < r.at
        <5>1. l.at <= t
          <6> HIDE DEF l, r
          <6> QED BY <3>4, <3>5
        <5>2. UpTo(frames, t) # {} /\ LastUpTo(frames, t) = i
          <6> HIDE DEF i
          <6> QED BY <5>1, <4>1, <2>1, <3>1, <1>1, LastControl
        <5>3. interpolateCropFrames(frames, t) = Between(l, r, t)
          BY <5>2, <2>4, <1>6 DEF interpolateCropFrames
        <5> HIDE DEF l, r
        <5>4. Between(l, r, t) = l.value + s * (t - l.at)
          BY <3>2, <3>3, <3>4, BetweenIsLinear
        <5> QED BY <5>3, <5>4
      <4>2. CASE t = r.at
        <5>1. l.value + s * (t - l.at) = r.value
          <6> HIDE DEF l, r
          <6> QED BY <4>2, <3>3, <3>4
        <5> DEFINE k == i + 1
        <5>2. k \in DOMAIN frames /\ k \in Nat /\ k <= Len(frames)
          <6> HIDE DEF i
          <6> QED BY <3>1, <2>2, <1>1 DEF IsTrack
        <5>3. k + 1 \in DOMAIN frames => frames[k].at < frames[k + 1].at
          <6> HIDE DEF k
          <6>1. k < k + 1
            BY <5>2
          <6> QED BY <6>1, <5>2 DEF FrameTrack, Increasing
        <5>4. frames[k].at = t /\ frames[k].value = r.value /\ frames[k].at \in Int /\ frames[k].value \in Int
          BY <4>2, <3>4
        <5> HIDE DEF k, l, r
        <5>5. UpTo(frames, t) # {} /\ LastUpTo(frames, t) = k
          BY <5>2, <5>3, <5>4, <1>1, LastControl
        <5>6. CASE k = Len(frames)
          BY <5>6, <5>5, <5>4, <5>1, <1>6 DEF interpolateCropFrames, Last
        <5>7. CASE k # Len(frames)
          <6>1. k + 1 \in DOMAIN frames
            BY <5>7, <5>2, <1>1 DEF IsTrack
          <6>2. frames[k + 1].at \in Int /\ frames[k + 1].value \in Int
            BY <6>1, <1>1, <1>2
          <6>3. Between(frames[k], frames[k + 1], frames[k].at) = frames[k].value
            BY <6>1, <6>2, <5>3, <5>4, BetweenAtLeft
          <6>4. interpolateCropFrames(frames, t) = Between(frames[k], frames[k + 1], t)
            BY <5>7, <5>5, <1>6 DEF interpolateCropFrames
          <6> QED BY <6>3, <6>4, <5>4, <5>1
        <5> QED BY <5>6, <5>7
      <4> HIDE DEF l, r
      <4> QED BY <4>1, <4>2, <3>4, <3>5
    <3>6. ASSUME NEW t \in Int, p <= t, NoneWithin(frames, p, t)
          PROVE  interpolateCropFrames(frames, t) = interpolateCropFrames(frames, p) + s * (t - p)
      <4>1. t <= r.at
        <5>1. r.at <= p \/ t <= r.at
          BY <3>6, <3>1 DEF NoneWithin
        <5> HIDE DEF l, r
        <5> QED BY <5>1, <3>4
      <4>2. p <= r.at /\ p <= p
        <5> HIDE DEF l, r
        <5> QED BY <3>4
      <4>3. /\ interpolateCropFrames(frames, t) = l.value + s * (t - l.at)
            /\ interpolateCropFrames(frames, p) = l.value + s * (p - l.at)
        <5> HIDE DEF l, r
        <5> QED BY <4>1, <4>2, <3>5, <3>6
      <4>4. s * (p - l.at) + s * (t - p) = s * (t - l.at)
        <5> HIDE DEF l, r
        <5> QED BY <3>4, Distribute
      <4>5. s * (p - l.at) \in Int /\ s * (t - p) \in Int /\ s * (t - l.at) \in Int /\ l.value \in Int
        <5> HIDE DEF l, r
        <5> QED BY <3>4
      <4> HIDE DEF l, r
      <4> QED BY <4>3, <4>4, <4>5
    <3> QED BY <3>6
  <2> QED BY <2>3, <2>4
<1> QED
  BY <1>4, <1>5, <1>6

LEMMA ControlFacts ==
  ASSUME NEW controls, ControlTrack(controls)
  PROVE  /\ IsTrack(controls)
         /\ \A i \in DOMAIN controls : controls[i].at \in Int
         /\ \A i \in DOMAIN controls : controls[i].mode = "crop" => controls[i].value \in Multiples
         /\ Multiples \subseteq Int
<1>1. controls \in Seq(Control) /\ Increasing(controls)
  BY DEF ControlTrack
<1>2. Len(controls) \in Nat /\ DOMAIN controls = 1..Len(controls)
  BY <1>1
<1>3. \A i \in DOMAIN controls : controls[i] \in Control
  BY <1>1, <1>2
<1>4. \A i \in DOMAIN controls : controls[i].at \in CropTimes
  BY <1>3 DEF Control
<1>5. \A i \in DOMAIN controls : controls[i].mode = "crop" => controls[i].value \in Multiples
  BY <1>3 DEF Control
<1>6. CropTimes \subseteq Int
  BY CropAssumption
<1>7. Multiples \subseteq Int
  BY CropAssumption DEF Multiples
<1> QED
  BY <1>1, <1>2, <1>4, <1>5, <1>6, <1>7 DEF IsTrack

LEMMA ManualIsLinear ==
  ASSUME NEW frames, NEW controls, ControlTrack(controls), NEW p \in Int,
         Overridden(controls, p), IsCrop(controls, LastUpTo(controls, p) + 1)
  PROVE  \E s \in Int : \A t \in Int : p <= t /\ NoneWithin(controls, p, t) =>
            /\ resolveEffectiveCrop(frames, controls, t) =
                 resolveEffectiveCrop(frames, controls, p) + s * (t - p)
            /\ resolveEffectiveCrop(frames, controls, p) \in Int
<1>1. IsTrack(controls) /\ \A j \in DOMAIN controls : controls[j].at \in Int
  BY ControlFacts
<1>2. \A j \in DOMAIN controls : controls[j].mode = "crop" => controls[j].value \in Multiples
  BY ControlFacts
<1>3. Multiples \subseteq Int
  BY ControlFacts
<1>4. PICK i : i = LastUpTo(controls, p)
  OBVIOUS
<1>5. i \in DOMAIN controls /\ \A j \in DOMAIN controls : controls[j].at <= p <=> j <= i
  BY <1>1, <1>4, LastUpToIs DEF Overridden
<1>6. i \in Nat /\ i >= 1 /\ i <= Len(controls) /\ Len(controls) \in Nat
  BY <1>5, <1>1 DEF IsTrack
<1>7. PICK k : k = i + 1
  OBVIOUS
<1>8. k \in DOMAIN controls /\ controls[k].mode = "crop" /\ controls[i].mode = "crop" /\ k \in Nat
  BY <1>4, <1>6, <1>7 DEF IsCrop, Overridden
<1>9. PICK l, r : l = controls[i] /\ r = controls[k]
  OBVIOUS
<1>10. l.at < r.at
  <2>1. i < k
    BY <1>6, <1>7
  <2> QED BY <2>1, <1>5, <1>8, <1>9, <1>1 DEF IsTrack, Increasing
<1>11. /\ l.at \in CropTimes /\ r.at \in CropTimes /\ l.value \in Multiples /\ r.value \in Multiples
       /\ l.at \in Int /\ r.at \in Int /\ l.value \in Int /\ r.value \in Int
  BY <1>1, <1>2, <1>3, <1>5, <1>8, <1>9 DEF IsTrack
<1>12. PICK s \in Int : r.value - l.value = s * (r.at - l.at)
  BY <1>10, <1>11, Slope
<1>13. l.at <= p /\ p < r.at
  <2>1. i <= i /\ ~(k <= i)
    BY <1>6, <1>7
  <2> QED BY <2>1, <1>5, <1>8, <1>9, <1>11
<1>14. ASSUME NEW t \in Int, p <= t, t <= r.at
       PROVE  resolveEffectiveCrop(frames, controls, t) = l.value + s * (t - l.at)
  <2>1. CASE t < r.at
    <3>1. controls[i].at <= t
      BY <1>9, <1>11, <1>13, <1>14
    <3>2. UpTo(controls, t) # {} /\ LastUpTo(controls, t) = i
      BY <3>1, <2>1, <1>5, <1>7, <1>9, <1>1, LastControl
    <3>3. resolveEffectiveCrop(frames, controls, t) = Between(l, r, t)
      BY <3>2, <1>7, <1>8, <1>9 DEF resolveEffectiveCrop, Overridden, IsCrop
    <3>4. Between(l, r, t) = l.value + s * (t - l.at)
      BY <1>10, <1>11, <1>12, BetweenIsLinear
    <3> QED BY <3>3, <3>4
  <2>2. CASE t = r.at
    <3>1. l.value + s * (t - l.at) = r.value
      BY <2>2, <1>11, <1>12
    <3>2. k + 1 \in DOMAIN controls => controls[k].at < controls[k + 1].at
      <4>1. k < k + 1
        BY <1>8
      <4> QED BY <4>1, <1>8, <1>1 DEF IsTrack, Increasing
    <3>3. controls[k].at <= t
      BY <2>2, <1>9, <1>11
    <3>4. UpTo(controls, t) # {} /\ LastUpTo(controls, t) = k
      BY <3>2, <3>3, <2>2, <1>8, <1>9, <1>1, LastControl
    <3>5. Overridden(controls, t)
      BY <3>4, <1>8 DEF Overridden
    <3>6. CASE ~IsCrop(controls, k + 1)
      BY <3>6, <3>5, <3>4, <3>1, <1>9 DEF resolveEffectiveCrop
    <3>7. CASE IsCrop(controls, k + 1)
      <4>1. controls[k + 1].at \in Int /\ controls[k + 1].value \in Int /\ controls[k].at < controls[k + 1].at
        BY <3>7, <3>2, <1>1, <1>2, <1>3 DEF IsCrop
      <4>2. Between(controls[k], controls[k + 1], controls[k].at) = controls[k].value
        BY <4>1, <1>9, <1>11, BetweenAtLeft
      <4>3. resolveEffectiveCrop(frames, controls, t) = Between(controls[k], controls[k + 1], t)
        BY <3>7, <3>5, <3>4 DEF resolveEffectiveCrop
      <4> QED BY <4>2, <4>3, <2>2, <3>1, <1>9
    <3> QED BY <3>6, <3>7
  <2>3. t < r.at \/ t = r.at
    BY <1>11, <1>14
  <2> QED BY <2>1, <2>2, <2>3
<1> WITNESS s \in Int
<1>15. SUFFICES ASSUME NEW t \in Int, p <= t, NoneWithin(controls, p, t)
               PROVE  /\ resolveEffectiveCrop(frames, controls, t) =
                           resolveEffectiveCrop(frames, controls, p) + s * (t - p)
                      /\ resolveEffectiveCrop(frames, controls, p) \in Int
  OBVIOUS
<1>16. t <= r.at /\ p <= r.at /\ p <= p
  <2>1. r.at <= p \/ t <= r.at
    BY <1>15, <1>8, <1>9 DEF NoneWithin
  <2> QED BY <2>1, <1>11, <1>13
<1>17. /\ resolveEffectiveCrop(frames, controls, t) = l.value + s * (t - l.at)
       /\ resolveEffectiveCrop(frames, controls, p) = l.value + s * (p - l.at)
  BY <1>14, <1>15, <1>16
<1>18. s * (p - l.at) + s * (t - p) = s * (t - l.at)
  BY <1>11, Distribute
<1>19. s * (p - l.at) \in Int /\ s * (t - p) \in Int /\ s * (t - l.at) \in Int
  BY <1>11
<1> QED
  BY <1>11, <1>17, <1>18, <1>19

\* Without a time of the track between them, two instants see the same part of it.
LEMMA SameInForce ==
  ASSUME NEW track, NEW p \in Int, NEW t \in Int, p <= t,
         \A i \in DOMAIN track : track[i].at \in Int,
         \A i \in DOMAIN track : track[i].at <= p \/ t < track[i].at
  PROVE  UpTo(track, t) = UpTo(track, p) /\ LastUpTo(track, t) = LastUpTo(track, p)
<1>1. UpTo(track, t) = UpTo(track, p)
  BY DEF UpTo
<1> QED
  BY <1>1 DEF LastUpTo

LEMMA ValueAtKnot ==
  ASSUME NEW frames, NEW controls, ControlTrack(controls), NEW p \in Int
  PROVE  valueAt(frames, controls, p) = resolveEffectiveCrop(frames, controls, p)
<1>1. IsTrack(controls) /\ \A j \in DOMAIN controls : controls[j].at \in Int
  BY ControlFacts
<1>2. Len(controls) \in Nat /\ DOMAIN controls = 1..Len(controls)
  BY <1>1 DEF IsTrack
<1>3. PICK n : n = Len(controls)
  OBVIOUS
<1>4. PICK later : later = {i \in DOMAIN controls : controls[i].at > p}
  OBVIOUS
<1>5. PICK active : active = n - Cardinality(later)
  OBVIOUS
<1>6. CASE UpTo(controls, p) = {}
  <2>1. later = 1..n
    BY <1>6, <1>1, <1>2, <1>3, <1>4 DEF UpTo
  <2>2. Cardinality(later) = n
    <3>1. PICK one \in Int : one = 1
      OBVIOUS
    <3>0. n \in Int
      BY <1>2, <1>3
    <3>2. Cardinality(one..n) = IF one > n THEN 0 ELSE n - one + 1
      BY <3>0, FS_Interval
    <3> QED BY <3>1, <3>2, <2>1, <1>2, <1>3
  <2>3. ~IsCrop(controls, active)
    BY <2>2, <1>5, <1>2, <1>3 DEF IsCrop
  <2>4. ~Overridden(controls, p)
    BY <1>6 DEF Overridden
  <2>5. valueAt(frames, controls, p) = interpolateCropFrames(frames, p)
    BY <2>3, <1>3, <1>4, <1>5 DEF valueAt
  <2> QED BY <2>4, <2>5 DEF resolveEffectiveCrop
<1>7. CASE UpTo(controls, p) # {}
  <2>1. PICK i : i = LastUpTo(controls, p)
    OBVIOUS
  <2>2. i \in DOMAIN controls /\ \A j \in DOMAIN controls : controls[j].at <= p <=> j <= i
    BY <2>1, <1>7, <1>1, LastUpToIs
  <2>3. i \in Nat /\ i <= n /\ n \in Nat
    BY <2>2, <1>2, <1>3
  <2>4. later = (i + 1)..n
    <3>1. \A j \in 1..n : controls[j].at > p <=> j > i
      BY <2>2, <2>3, <1>1, <1>2, <1>3
    <3> QED BY <3>1, <2>2, <2>3, <1>2, <1>3, <1>4
  <2>5. Cardinality(later) = n - i
    <3>1. Cardinality((i + 1)..n) = IF i + 1 > n THEN 0 ELSE n - (i + 1) + 1
      <4>1. PICK m \in Int : m = i + 1
        BY <2>3
      <4>2. Cardinality(m..n) = IF m > n THEN 0 ELSE n - m + 1
        BY <2>3, FS_Interval
      <4> QED BY <4>1, <4>2
    <3> QED BY <3>1, <2>3, <2>4
  <2>6. active = i
    BY <2>5, <2>3, <1>5
  <2>7. IsCrop(controls, active) <=> Overridden(controls, p)
    BY <2>6, <2>1, <2>2, <1>7 DEF IsCrop, Overridden
  <2>8. CASE ~Overridden(controls, p)
    BY <2>7, <2>8, <1>3, <1>4, <1>5 DEF valueAt, resolveEffectiveCrop
  <2>9. CASE Overridden(controls, p) /\ IsCrop(controls, i + 1)
    BY <2>1, <2>6, <2>7, <2>9, <1>3, <1>4, <1>5 DEF valueAt, resolveEffectiveCrop
  <2>10. CASE Overridden(controls, p) /\ ~IsCrop(controls, i + 1)
    BY <2>1, <2>6, <2>7, <2>10, <1>3, <1>4, <1>5 DEF valueAt, resolveEffectiveCrop
  <2> QED BY <2>8, <2>9, <2>10
<1> QED
  BY <1>6, <1>7

\* Past the last frame, or without one between, the automatic crop does not move.
LEMMA FramesHold ==
  ASSUME NEW frames, FrameTrack(frames), NEW p \in Int, NEW t \in Int, p <= t,
         \A i \in DOMAIN frames : frames[i].at <= p
  PROVE  interpolateCropFrames(frames, t) = interpolateCropFrames(frames, p)
<1>1. frames \in Seq([at : CropTimes, value : Multiples])
  BY DEF FrameTrack
<1>2. Len(frames) \in Nat /\ DOMAIN frames = 1..Len(frames)
  BY <1>1
<1>3. CropTimes \subseteq Int
  BY CropAssumption
<1>4. IsTrack(frames)
  BY FrameFacts
<1>5. CASE frames = <<>>
  BY <1>5 DEF interpolateCropFrames
<1>6. CASE frames # <<>>
  <2>1. PICK n : n = Len(frames)
    OBVIOUS
  <2>2. n \in DOMAIN frames /\ n + 1 \notin DOMAIN frames
    BY <1>6, <1>1, <1>2, <2>1
  <2>3. frames[n].at \in Int
    BY <2>2, <1>3, <1>4 DEF IsTrack
  <2>4. frames[n].at <= p /\ frames[n].at <= t
    BY <2>2, <2>3
  <2>5. /\ UpTo(frames, t) # {} /\ LastUpTo(frames, t) = n
        /\ UpTo(frames, p) # {} /\ LastUpTo(frames, p) = n
    BY <2>2, <2>4, <1>4, LastControl
  <2> QED BY <2>1, <2>5, <1>6 DEF interpolateCropFrames
<1> QED
  BY <1>5, <1>6

LEMMA ResolveIsWhole ==
  ASSUME NEW frames, FrameTrack(frames), NEW controls, ControlTrack(controls), NEW p \in Int
  PROVE  resolveEffectiveCrop(frames, controls, p) \in Int
<1>1. /\ IsTrack(frames) /\ Multiples \subseteq Int
      /\ \A i \in DOMAIN frames : frames[i].at \in Int /\ frames[i].value \in Int
  BY FrameFacts
<1>2. /\ IsTrack(controls) /\ \A i \in DOMAIN controls : controls[i].at \in Int
      /\ \A i \in DOMAIN controls : controls[i].mode = "crop" => controls[i].value \in Int
  BY ControlFacts
<1>3. ASSUME NEW track, IsTrack(track), NEW i \in DOMAIN track, i + 1 \in DOMAIN track,
             track[i].at \in Int, track[i + 1].at \in Int,
             track[i].value \in Int, track[i + 1].value \in Int
      PROVE  Between(track[i], track[i + 1], p) \in Int
  <2>1. PICK d : d = track[i + 1].at - track[i].at
    OBVIOUS
  <2>2. d \in Nat \ {0}
    <3>1. i \in Nat /\ i < i + 1
      BY <1>3 DEF IsTrack
    <3>2. track[i].at < track[i + 1].at
      BY <3>1, <1>3 DEF IsTrack, Increasing
    <3> QED BY <3>2, <2>1, <1>3
  <2>3. PICK c \in Int, e \in Int : c = track[i + 1].value - track[i].value /\ e = p - track[i].at
    BY <1>3
  <2>4. c * e \in Int
    BY <2>3
  <2>5. (c * e) \div d \in Int
    BY <2>2, <2>4, SMT
  <2> QED BY <2>1, <2>3, <2>5, <1>3 DEF Between
<1>4. CASE Overridden(controls, p)
  <2>1. PICK i : i = LastUpTo(controls, p)
    OBVIOUS
  <2>2. i \in DOMAIN controls /\ controls[i].mode = "crop"
    BY <2>1, <1>2, <1>4, LastUpToIs DEF Overridden
  <2>3. CASE IsCrop(controls, i + 1)
    <3>1. Between(controls[i], controls[i + 1], p) \in Int
      BY <2>2, <2>3, <1>2, <1>3 DEF IsCrop
    <3> QED BY <3>1, <2>1, <2>3, <1>4 DEF resolveEffectiveCrop
  <2>4. CASE ~IsCrop(controls, i + 1)
    BY <2>1, <2>2, <2>4, <1>2, <1>4 DEF resolveEffectiveCrop
  <2> QED BY <2>3, <2>4
<1>5. CASE ~Overridden(controls, p)
  <2>1. CASE frames = <<>>
    BY <2>1, <1>5 DEF resolveEffectiveCrop, interpolateCropFrames, FullFrame
  <2>2. CASE frames # <<>> /\ UpTo(frames, p) = {}
    <3>1. 1 \in DOMAIN frames /\ Head(frames) = frames[1]
      BY <2>2 DEF FrameTrack
    <3> QED BY <3>1, <2>2, <1>1, <1>5 DEF resolveEffectiveCrop, interpolateCropFrames
  <2>3. CASE frames # <<>> /\ UpTo(frames, p) # {}
    <3>1. PICK i : i = LastUpTo(frames, p)
      OBVIOUS
    <3>2. i \in DOMAIN frames
      BY <3>1, <2>3, <1>1, LastUpToIs
    <3>3. CASE i = Len(frames)
      BY <3>1, <3>2, <3>3, <2>3, <1>1, <1>5 DEF resolveEffectiveCrop, interpolateCropFrames, Last
    <3>4. CASE i # Len(frames)
      <4>1. i + 1 \in DOMAIN frames
        BY <3>2, <3>4, <1>1 DEF IsTrack
      <4>2. Between(frames[i], frames[i + 1], p) \in Int
        BY <4>1, <3>2, <1>1, <1>3
      <4> QED BY <4>2, <3>1, <3>4, <2>3, <1>5 DEF resolveEffectiveCrop, interpolateCropFrames
    <3> QED BY <3>3, <3>4
  <2> QED BY <2>1, <2>2, <2>3
<1> QED
  BY <1>4, <1>5

(***************************************************************************)
(* A crop is rendered as its controls say, and as it is previewed, for any *)
(* tracks of frames and controls, except where CropsAgree says: in the     *)
(* glide into a first manual crop, and in the preview of two in a row.     *)
(***************************************************************************)
THEOREM CropsAgreeAlways ==
  ASSUME NEW frames, FrameTrack(frames), NEW controls, ControlTrack(controls)
  PROVE  CropsAgree(frames, controls)
<1>1. SUFFICES ASSUME NEW at \in CropTimes, ~GlidesIntoControl(frames, controls, at)
               PROVE  Rendered(frames, controls, at) = resolveEffectiveCrop(frames, controls, at)
  BY DEF CropsAgree, HeldInPreview, resolveEffectiveCrop, effectiveCrop
<1>2. CropTimes \subseteq Int /\ 0 \in CropTimes /\ CropTimes \subseteq Nat
  BY CropAssumption
<1>3. PICK knots : knots = Knots(frames, controls)
  OBVIOUS
<1>4. /\ IsTrack(frames) /\ IsTrack(controls)
      /\ \A i \in DOMAIN frames : frames[i].at \in Int
      /\ \A i \in DOMAIN controls : controls[i].at \in Int
  BY FrameFacts, ControlFacts
<1>5. /\ 0 \in knots /\ knots \subseteq Int
      /\ \A i \in DOMAIN frames : frames[i].at \in knots
      /\ \A i \in DOMAIN controls : controls[i].at \in knots
  BY <1>2, <1>3, <1>4 DEF Knots, IsTrack
<1>6. PICK p : p = PieceAt(knots, at)
  OBVIOUS
<1>7. p \in knots /\ p <= at /\ \A k \in knots : k <= at => k <= p
  <2> DEFINE S == {k \in knots : k <= at}
  <2>1. S \in SUBSET Int /\ S # {} /\ at \in Int /\ \A k \in S : k <= at
    <3>1. at \in Nat
      BY <1>2
    <3>2. 0 \in S
      BY <3>1, <1>5
    <3>3. knots \subseteq Int
      BY <1>5
    <3>4. S \in SUBSET Int
      BY <3>3
    <3>5. at \in Int /\ S # {} /\ \A k \in S : k <= at
      BY <3>1, <3>2
    <3> QED BY <3>4, <3>5
  <2>2. \E k \in S : \A l \in S : l <= k
    <3> HIDE DEF S
    <3> QED BY <2>1, Greatest
  <2>3. \E k \in knots : k <= at /\ \A l \in knots : l <= at => l <= k
    BY <2>2
  <2> QED BY <2>3, <1>6 DEF PieceAt
<1>8. p \in Int /\ at \in Int
  BY <1>2, <1>5, <1>7
<1>9. PICK v : v = resolveEffectiveCrop(frames, controls, p)
  OBVIOUS
<1>10. v = valueAt(frames, controls, p)
  BY <1>8, <1>9, ValueAtKnot
\* No control takes effect between p and at, and no frame is between them.
<1>11. /\ \A i \in DOMAIN controls : controls[i].at <= p \/ at < controls[i].at
       /\ \A i \in DOMAIN frames : frames[i].at <= p \/ at < frames[i].at
  BY <1>4, <1>5, <1>7, <1>8
<1>12. /\ UpTo(controls, at) = UpTo(controls, p)
       /\ LastUpTo(controls, at) = LastUpTo(controls, p)
  BY <1>4, <1>7, <1>8, <1>11, SameInForce
<1>13. Overridden(controls, at) <=> Overridden(controls, p)
  BY <1>12 DEF Overridden
<1>14. ASSUME \/ Overridden(controls, p) /\ ~IsCrop(controls, LastUpTo(controls, p) + 1)
              \/ \A k \in knots : k <= p
       PROVE  resolveEffectiveCrop(frames, controls, at) = v
  <2>1. CASE Overridden(controls, p)
    <3>1. ~IsCrop(controls, LastUpTo(controls, p) + 1)
      <4>1. PICK i : i = LastUpTo(controls, p)
        OBVIOUS
      <4>2. SUFFICES ASSUME IsCrop(controls, i + 1), \A k \in knots : k <= p PROVE FALSE
        BY <4>1, <1>14
      <4>3. i \in DOMAIN controls /\ \A j \in DOMAIN controls : controls[j].at <= p <=> j <= i
        BY <4>1, <2>1, <1>4, <1>8, LastUpToIs DEF Overridden
      <4>4. i \in Nat
        BY <4>3, <1>4 DEF IsTrack
      <4>5. i + 1 \in DOMAIN controls /\ ~(i + 1 <= i)
        BY <4>2, <4>4 DEF IsCrop
      <4>6. controls[i + 1].at \in knots
        BY <4>5, <1>5
      <4> QED BY <4>2, <4>3, <4>5, <4>6
    <3> QED BY <3>1, <2>1, <1>9, <1>12, <1>13 DEF resolveEffectiveCrop
  <2>2. CASE ~Overridden(controls, p)
    <3>1. \A i \in DOMAIN frames : frames[i].at <= p
      BY <2>2, <1>14, <1>5
    <3>2. interpolateCropFrames(frames, at) = interpolateCropFrames(frames, p)
      BY <3>1, <1>7, <1>8, FramesHold
    <3> QED BY <3>2, <2>2, <1>9, <1>13 DEF resolveEffectiveCrop
  <2> QED BY <2>1, <2>2
<1>15. CASE (\A k \in knots : k <= p) \/ ~Linear(controls, p)
  <2>1. Rendered(frames, controls, at) = v
    BY <1>15, <1>3, <1>6, <1>10 DEF Rendered
  <2>2. resolveEffectiveCrop(frames, controls, at) = v
    BY <1>14, <1>15 DEF Linear
  <2> QED BY <2>1, <2>2
<1>16. CASE ~(\A k \in knots : k <= p) /\ Linear(controls, p)
  <2>1. PICK q : q = NextKnot(knots, p)
    OBVIOUS
  <2>2. q \in knots /\ p < q /\ \A k \in knots : p < k => q <= k
    <3> DEFINE S == {k \in knots : p < k}
    <3>1. S \in SUBSET Int /\ S # {} /\ \A k \in S : p <= k
      <4>1. PICK k \in knots : ~(k <= p)
        BY <1>16
      <4>2. k \in S /\ p \in Int
        BY <4>1, <1>5, <1>8
      <4>3. S \in SUBSET Int /\ S # {}
        BY <4>2, <1>5
      <4> QED BY <4>2, <4>3
    <3>2. \E k \in S : \A l \in S : k <= l
      <4> HIDE DEF S
      <4> QED BY <3>1, <1>8, Least
    <3>3. \E k \in knots : p < k /\ \A l \in knots : p < l => k <= l
      BY <3>2
    <3> QED BY <3>3, <2>1 DEF NextKnot
  <2>3. q \in Int /\ at < q /\ p <= q
    BY <2>2, <1>5, <1>7, <1>8
  <2>4. PICK w : w = resolveEffectiveCrop(frames, controls, q)
    OBVIOUS
  <2>5. w = valueAt(frames, controls, q)
    BY <2>3, <2>4, ValueAtKnot
  <2>6. PICK left, right : /\ left = [at |-> p, value |-> v]
                           /\ right = [at |-> q, value |-> w]
    OBVIOUS
  <2>7. Rendered(frames, controls, at) = Between(left, right, at)
    BY <2>1, <2>5, <2>6, <1>3, <1>6, <1>10, <1>16 DEF Rendered
  <2>8. ASSUME NEW s \in Int, v \in Int, w = v + s * (q - p),
               resolveEffectiveCrop(frames, controls, at) = v + s * (at - p)
        PROVE  Between(left, right, at) = resolveEffectiveCrop(frames, controls, at)
    <3>1. s * (q - p) \in Int
      BY <2>3, <1>8
    <3>2. w \in Int /\ w - v = s * (q - p)
      BY <3>1, <2>8
    <3>3. /\ left.at = p /\ right.at = q /\ left.value = v /\ right.value = w
      BY <2>6
    <3>4. /\ left.at \in Int /\ right.at \in Int /\ left.at < right.at
          /\ left.value \in Int /\ right.value \in Int
          /\ right.value - left.value = s * (right.at - left.at)
      BY <3>2, <3>3, <2>2, <2>3, <2>8, <1>8
    <3>5. Between(left, right, at) = left.value + s * (at - left.at)
      BY <3>4, <1>8, BetweenIsLinear
    <3> QED BY <3>5, <3>3, <2>8
  <2>9. /\ NoneWithin(controls, p, at) /\ NoneWithin(controls, p, q)
        /\ NoneWithin(frames, p, at) /\ NoneWithin(frames, p, q)
    <3>1. \A k \in knots : k <= p \/ (at <= k /\ q <= k)
      <4> TAKE k \in knots
      <4>1. k \in Int /\ at \in Int /\ q \in Int /\ p \in Int
        BY <2>3, <1>5, <1>8
      <4>2. p < k => q <= k
        BY <2>2
      <4> QED BY <4>1, <4>2, <2>3
    <3> QED BY <3>1, <1>5 DEF NoneWithin
  <2>10. CASE Overridden(controls, p)
    <3>1. IsCrop(controls, LastUpTo(controls, p) + 1)
      BY <2>10, <1>16 DEF Linear
    <3>2. PICK s \in Int : \A t \in Int : p <= t /\ NoneWithin(controls, p, t) =>
            /\ resolveEffectiveCrop(frames, controls, t) =
                 resolveEffectiveCrop(frames, controls, p) + s * (t - p)
            /\ resolveEffectiveCrop(frames, controls, p) \in Int
      BY <3>1, <2>10, <1>8, ManualIsLinear
    <3>3. /\ resolveEffectiveCrop(frames, controls, at) = v + s * (at - p)
          /\ w = v + s * (q - p) /\ v \in Int
      BY <3>2, <2>3, <2>4, <2>9, <1>7, <1>8, <1>9
    <3> QED BY <3>3, <2>7, <2>8
  <2>11. CASE ~Overridden(controls, p) /\ at = p
    <3>1. v \in Int /\ w \in Int
      BY <2>3, <2>4, <1>8, <1>9, ResolveIsWhole
    <3>2. left.at \in Int /\ right.at \in Int /\ left.at < right.at /\ left.value \in Int /\ right.value \in Int
      BY <3>1, <2>2, <2>3, <2>6, <1>8
    <3>3. Between(left, right, left.at) = left.value
      BY <3>2, BetweenAtLeft
    <3> QED BY <3>3, <2>6, <2>7, <2>11, <1>9
  <2>12. CASE ~Overridden(controls, p) /\ at # p
    <3>1. \E k \in knots : k > p
      BY <1>5, <1>8, <1>16
    <3>2. ~Overridden(controls, q)
      BY <3>1, <2>1, <2>12, <1>1, <1>3, <1>6 DEF GlidesIntoControl
    <3>3. PICK s \in Int : \A t \in Int : p <= t /\ NoneWithin(frames, p, t) =>
            interpolateCropFrames(frames, t) = interpolateCropFrames(frames, p) + s * (t - p)
      BY <1>8, FramesAreLinear
    <3>4. /\ v = interpolateCropFrames(frames, p)
          /\ w = interpolateCropFrames(frames, q)
          /\ resolveEffectiveCrop(frames, controls, at) = interpolateCropFrames(frames, at)
      BY <3>2, <2>4, <2>12, <1>9, <1>13 DEF resolveEffectiveCrop
    <3>5. v \in Int
      BY <1>8, <1>9, ResolveIsWhole
    <3>6. /\ resolveEffectiveCrop(frames, controls, at) = v + s * (at - p)
          /\ w = v + s * (q - p)
      BY <3>3, <3>4, <2>3, <2>9, <1>7, <1>8
    <3> QED BY <3>5, <3>6, <2>7, <2>8
  <2> QED BY <2>10, <2>11, <2>12
<1> QED
  BY <1>15, <1>16
-----------------------------------------------------------------------------
(***************************************************************************)
(* What a recursive function over 1..n says has a solution: Iterates, by   *)
(* the first length for which there would be none.                         *)
(***************************************************************************)

IsIteration(f, V, n, start, step) ==
    f \in [1..(n + 1) -> V] /\ f[1] = start /\ \A j \in 1..n : f[j + 1] = step[j][f[j]]

LEMMA Iterates ==
  ASSUME NEW V, NEW n \in Nat, NEW start \in V, NEW step \in [1..n -> [V -> V]]
  PROVE  \E f : IsIteration(f, V, n, start, step)
<1> DEFINE Solves(m, f) == \A j \in 1..m : f[j] = IF j = 1 THEN start ELSE step[j - 1][f[j - 1]]
           Without == {m \in Nat : m <= n /\ ~(\E f \in [1..(m + 1) -> V] : Solves(m + 1, f))}
<1>1. ASSUME Without # {} PROVE FALSE
  <2>1. PICK m \in Without : \A k \in Without : m <= k
    <3>1. Without \in SUBSET Nat
      OBVIOUS
    <3> HIDE DEF Without
    <3> QED BY <1>1, <3>1, SmallestNat
  <2>2. m \in Nat /\ m <= n
    OBVIOUS
  <2>3. CASE m = 0
    <3> DEFINE f == [j \in 1..1 |-> start]
    <3>1. f \in [1..(m + 1) -> V]
      BY <2>3
    <3>2. Solves(m + 1, f)
      BY <2>3
    <3> QED BY <3>1, <3>2
  <2>4. CASE m # 0
    <3>1. PICK k \in Nat : m = k + 1
      <4>1. m - 1 \in Nat /\ m = (m - 1) + 1
        BY <2>2, <2>4
      <4> QED BY <4>1
    <3>2. k \notin Without
      BY <2>1, <3>1
    <3>3. PICK f \in [1..m -> V] : Solves(m, f)
      BY <2>2, <3>1, <3>2
    <3> DEFINE g == [j \in 1..(m + 1) |-> IF j = m + 1 THEN step[m][f[m]] ELSE f[j]]
    <3>4. m \in 1..n /\ m \in 1..m /\ step[m][f[m]] \in V
      BY <2>2, <2>4, <3>3
    <3>5. g \in [1..(m + 1) -> V]
      <4>1. \A j \in 1..(m + 1) : j = m + 1 \/ j \in 1..m
        BY <2>2
      <4> QED BY <3>3, <3>4, <4>1
    <3>6. Solves(m + 1, g)
      <4> SUFFICES ASSUME NEW j \in 1..(m + 1)
                   PROVE  g[j] = IF j = 1 THEN start ELSE step[j - 1][g[j - 1]]
        OBVIOUS
      <4>1. CASE j = m + 1
        <5>1. j # 1 /\ j - 1 = m /\ j - 1 \in 1..(m + 1) /\ j - 1 # m + 1
          BY <4>1, <2>2, <2>4
        <5>2. g[j - 1] = f[m] /\ g[j] = step[m][f[m]]
          BY <5>1, <4>1
        <5> QED BY <5>1, <5>2
      <4>2. CASE j # m + 1
        <5>1. j \in 1..m /\ g[j] = f[j]
          BY <4>2, <2>2
        <5>2. f[j] = IF j = 1 THEN start ELSE step[j - 1][f[j - 1]]
          BY <5>1, <3>3
        <5>3. j # 1 => j - 1 \in 1..(m + 1) /\ j - 1 # m + 1
          BY <5>1, <2>2
        <5>4. j # 1 => g[j - 1] = f[j - 1]
          BY <5>3
        <5> QED BY <5>1, <5>2, <5>4
      <4> QED BY <4>1, <4>2
    <3> HIDE DEF g, Solves
    <3>7. \E h \in [1..(m + 1) -> V] : Solves(m + 1, h)
      BY <3>5, <3>6
    <3> QED BY <3>7, <2>1
  <2> QED BY <2>3, <2>4
<1>2. n \notin Without
  BY <1>1
<1>3. PICK f \in [1..(n + 1) -> V] : Solves(n + 1, f)
  BY <1>2
<1>4. f[1] = start
  BY <1>3
<1>5. \A j \in 1..n : f[j + 1] = step[j][f[j]]
  <2> TAKE j \in 1..n
  <2>1. j + 1 \in 1..(n + 1) /\ j + 1 # 1 /\ (j + 1) - 1 = j
    OBVIOUS
  <2> QED BY <1>3, <2>1
<1> QED
  BY <1>4, <1>5 DEF IsIteration

\* Induction over 1..n.
LEMMA Everywhere ==
  ASSUME NEW n \in Nat, NEW S, n >= 1 => 1 \in S,
         \A i \in 1..n : i \in S /\ i + 1 <= n => i + 1 \in S
  PROVE  \A i \in 1..n : i \in S
<1> DEFINE Outside == (1..n) \ S
<1>1. SUFFICES ASSUME Outside # {} PROVE FALSE
  OBVIOUS
<1>2. PICK i \in Outside : \A k \in Outside : i <= k
  <2>1. Outside \in SUBSET Nat
    OBVIOUS
  <2> HIDE DEF Outside
  <2> QED BY <1>1, <2>1, SmallestNat
<1>3. i \in Nat /\ i >= 1 /\ i <= n /\ i \notin S
  OBVIOUS
<1>4. PICK k \in Nat : i = k + 1
  <2>1. i - 1 \in Nat /\ i = (i - 1) + 1
    BY <1>3
  <2> QED BY <2>1
<1>5. CASE k = 0
  BY <1>3, <1>4, <1>5
<1>6. CASE k # 0
  <2>1. k \in 1..n /\ k < i
    BY <1>3, <1>4, <1>6
  <2>2. k \in S
    BY <2>1, <1>2, <1>3, <1>4
  <2> QED BY <2>1, <2>2, <1>3, <1>4
<1> QED
  BY <1>5, <1>6

LEMMA Invariantly ==
  ASSUME NEW V, NEW n \in Nat, NEW g, g[1] \in V,
         \A i \in 1..n : g[i] \in V => g[i + 1] \in V
  PROVE  \A i \in 1..(n + 1) : g[i] \in V
<1> DEFINE m == n + 1
           S == {i \in 1..m : g[i] \in V}
<1>1. m \in Nat /\ 1 \in S
  OBVIOUS
<1>2. \A i \in 1..m : i \in S /\ i + 1 <= m => i + 1 \in S
  OBVIOUS
<1>3. \A i \in 1..m : i \in S
  <2> HIDE DEF m, S
  <2> QED BY <1>1, <1>2, Everywhere
<1> QED
  BY <1>3

LEMMA Concatenated ==
  ASSUME NEW T, NEW u \in Seq(T), NEW v \in Seq(T)
  PROVE  /\ u \o v \in Seq(T) /\ Len(u \o v) = Len(u) + Len(v)
         /\ Len(u) \in Nat /\ Len(v) \in Nat
         /\ \A x \in 1..Len(u) : (u \o v)[x] = u[x]
         /\ \A k \in 1..Len(v) : (u \o v)[Len(u) + k] = v[k]
<1>1. Len(u) \in Nat /\ Len(v) \in Nat
  OBVIOUS
<1>2. u \o v \in Seq(T)
  OBVIOUS
<1>3. Len(u \o v) = Len(u) + Len(v)
  OBVIOUS
<1>4. \A x \in 1..(Len(u) + Len(v)) : (u \o v)[x] = IF x <= Len(u) THEN u[x] ELSE v[x - Len(u)]
  OBVIOUS
<1>5. \A x \in 1..Len(u) : (u \o v)[x] = u[x]
  BY <1>1, <1>4
<1>6. \A k \in 1..Len(v) : (u \o v)[Len(u) + k] = v[k]
  <2> TAKE k \in 1..Len(v)
  <2>1. Len(u) + k \in 1..(Len(u) + Len(v)) /\ ~(Len(u) + k <= Len(u)) /\ (Len(u) + k) - Len(u) = k
    BY <1>1
  <2> QED BY <2>1, <1>4
<1> QED
  BY <1>1, <1>2, <1>3, <1>5, <1>6

\* Where each of n sequences begins when they are put one after the other.
AreOffsets(off, seqs, n) ==
    /\ off[1] = 0 /\ \A i \in 1..(n + 1) : off[i] \in Nat
    /\ \A i \in 1..n : off[i + 1] = off[i] + Len(seqs[i])

IsJoined(whole, off, seqs, n) ==
    /\ Len(whole) = off[n + 1]
    /\ \A i \in 1..n : \A k \in 1..Len(seqs[i]) : whole[off[i] + k] = seqs[i][k]

LEMMA Flattened ==
  ASSUME NEW T, NEW n \in Nat \ {0}, NEW seqs \in [1..n -> Seq(T)],
         NEW off, AreOffsets(off, seqs, n)
  PROVE  FlattenSeq(seqs) \in Seq(T) /\ IsJoined(FlattenSeq(seqs), off, seqs, n)
<1> DEFINE Solution(f) == f = [i \in 1..n |-> IF i = 1 THEN seqs[i] ELSE f[i - 1] \o seqs[i]]
<1>0. /\ off[1] = 0 /\ \A i \in 1..(n + 1) : off[i] \in Nat
      /\ \A i \in 1..n : off[i + 1] = off[i] + Len(seqs[i])
  BY DEF AreOffsets
<1>1. PICK V : V = Seq(T)
  OBVIOUS
<1>2. PICK m \in Nat : n = m + 1
  <2>1. n - 1 \in Nat /\ n = (n - 1) + 1
    OBVIOUS
  <2> QED BY <2>1
<1>3. \A i \in 1..n : seqs[i] \in V
  BY <1>1
<1>4. PICK start \in V : start = seqs[1]
  BY <1>3
<1>5. PICK step : step = [i \in 1..m |-> [v \in V |-> v \o seqs[i + 1]]]
  OBVIOUS
<1>6. step \in [1..m -> [V -> V]]
  <2>1. \A i \in 1..m : i + 1 \in 1..n
    BY <1>2
  <2>2. \A i \in 1..m, v \in V : v \o seqs[i + 1] \in V
    <3> TAKE i \in 1..m, v \in V
    <3>1. PICK w : w = seqs[i + 1]
      OBVIOUS
    <3>2. w \in Seq(T) /\ v \in Seq(T)
      BY <3>1, <2>1, <1>1, <1>3
    <3>3. v \o w \in Seq(T)
      BY <3>2
    <3> QED BY <3>1, <3>3, <1>1
  <2>3. \A i \in 1..m : [v \in V |-> v \o seqs[i + 1]] \in [V -> V]
    BY <2>2
  <2> QED BY <2>3, <1>5
<1>7. PICK f : IsIteration(f, V, m, start, step)
  BY <1>6, Iterates
<1>8. f \in [1..n -> V] /\ f[1] = seqs[1] /\ \A i \in 1..m : f[i + 1] = f[i] \o seqs[i + 1]
  <2>1. \A i \in 1..m : i \in 1..n
    BY <1>2
  <2>2. f \in [1..n -> V] /\ f[1] = seqs[1] /\ \A i \in 1..m : f[i + 1] = step[i][f[i]]
    BY <1>2, <1>4, <1>7 DEF IsIteration
  <2>3. \A i \in 1..m : f[i] \in V
    BY <2>1, <2>2
  <2> QED BY <2>2, <2>3, <1>5
<1>9. Solution(f)
  <2>1. \A i \in 1..n : f[i] = IF i = 1 THEN seqs[i] ELSE f[i - 1] \o seqs[i]
    <3> TAKE i \in 1..n
    <3>1. CASE i = 1
      BY <3>1, <1>8
    <3>2. CASE i # 1
      <4>1. PICK j \in 1..m : i = j + 1 /\ j = i - 1
        <5>1. i - 1 \in 1..m /\ i = (i - 1) + 1
          BY <3>2, <1>2
        <5> QED BY <5>1
      <4> QED BY <4>1, <3>2, <1>8
    <3> QED BY <3>1, <3>2
  <2> QED BY <2>1, <1>8
<1>10. PICK flatten : flatten = CHOOSE g : Solution(g)
  OBVIOUS
<1>11. Solution(flatten)
  BY <1>9, <1>10
<1>12. Len(seqs) = n
  OBVIOUS
<1>13. FlattenSeq(seqs) = flatten[n]
  BY <1>10, <1>12 DEF FlattenSeq
<1>14. flatten[1] = seqs[1] /\ \A i \in 1..n : i + 1 <= n => flatten[i + 1] = flatten[i] \o seqs[i + 1]
  <2>1. flatten[1] = seqs[1]
    BY <1>11
  <2>2. \A i \in 1..n : i + 1 <= n => i + 1 \in 1..n /\ i + 1 # 1 /\ (i + 1) - 1 = i
    OBVIOUS
  <2>3. \A i \in 1..n : i + 1 <= n => flatten[i + 1] = flatten[i] \o seqs[i + 1]
    <3> TAKE i \in 1..n
    <3> HAVE i + 1 <= n
    <3>1. PICK h \in 1..n : h = i + 1 /\ h # 1 /\ h - 1 = i
      BY <2>2
    <3>2. flatten[h] = flatten[h - 1] \o seqs[h]
      BY <3>1, <1>11
    <3> QED BY <3>1, <3>2
  <2> QED BY <2>1, <2>3
<1> HIDE DEF Solution
<1> DEFINE Good(i) == /\ flatten[i] \in Seq(T) /\ Len(flatten[i]) = off[i + 1]
                      /\ \A j \in 1..i : \A k \in 1..Len(seqs[j]) :
                            flatten[i][off[j] + k] = seqs[j][k]
           S == {i \in 1..n : Good(i)}
<1>15. \A j \in 1..n : Len(seqs[j]) \in Nat /\ seqs[j] \in Seq(T)
  BY <1>1, <1>3
<1>16. Good(1)
  <2>1. 1 \in 1..n /\ \A j \in 1..1 : j = 1
    OBVIOUS
  <2>2. off[1 + 1] = Len(seqs[1]) /\ \A k \in 1..Len(seqs[1]) : off[1] + k = k
    BY <2>1, <1>15, <1>0
  <2> QED BY <2>1, <2>2, <1>14, <1>15, <1>0
<1>17. ASSUME NEW i \in 1..n, Good(i), i + 1 <= n PROVE Good(i + 1)
  <2>1. PICK h : h = i + 1
    OBVIOUS
  <2>2. h \in 1..n /\ i \in 1..n /\ h + 1 \in 1..(n + 1)
    BY <2>1, <1>17
  <2>3. flatten[h] = flatten[i] \o seqs[h]
    BY <2>1, <1>14, <1>17
  <2>4. flatten[i] \in Seq(T) /\ seqs[h] \in Seq(T) /\ Len(flatten[i]) = off[h]
    BY <2>1, <2>2, <1>15, <1>17
  <2>5. /\ flatten[h] \in Seq(T) /\ Len(flatten[h]) = off[h] + Len(seqs[h])
        /\ \A x \in 1..off[h] : flatten[h][x] = flatten[i][x]
        /\ \A k \in 1..Len(seqs[h]) : flatten[h][off[h] + k] = seqs[h][k]
    <3>1. PICK u, v : u = flatten[i] /\ v = seqs[h]
      OBVIOUS
    <3>2. u \in Seq(T) /\ v \in Seq(T) /\ Len(u) = off[h] /\ flatten[h] = u \o v
      BY <3>1, <2>3, <2>4
    <3>3. /\ u \o v \in Seq(T) /\ Len(u \o v) = Len(u) + Len(v)
          /\ \A x \in 1..Len(u) : (u \o v)[x] = u[x]
          /\ \A k \in 1..Len(v) : (u \o v)[Len(u) + k] = v[k]
      <4>1. u \in Seq(T) /\ v \in Seq(T)
        BY <3>2
      <4> QED BY <4>1, Concatenated
    <3> QED BY <3>1, <3>2, <3>3
  <2>6. Len(flatten[h]) = off[h + 1]
    BY <2>2, <2>5, <1>0
  <2>7. \A j \in 1..h : \A k \in 1..Len(seqs[j]) : flatten[h][off[j] + k] = seqs[j][k]
    <3> TAKE j \in 1..h
    <3> TAKE k \in 1..Len(seqs[j])
    <3>1. CASE j = h
      BY <3>1, <2>5
    <3>2. CASE j # h
      <4>1. j \in 1..i /\ j \in 1..n
        BY <3>2, <2>1, <2>2
      <4>2. off[j] + k \in 1..off[h]
        <5>1. off[j + 1] <= off[h]
          <6> DEFINE R == {x \in 1..h : \A y \in 1..x : off[y] <= off[x]}
          <6>1. h \in Nat /\ 1 \in R
            <7>1. h \in Nat /\ 1 \in 1..h /\ \A y \in 1..1 : y = 1
              BY <2>2
            <7> QED BY <7>1, <1>0
          <6>2. \A x \in 1..h : x \in R /\ x + 1 <= h => x + 1 \in R
            <7> TAKE x \in 1..h
            <7> HAVE x \in R /\ x + 1 <= h
            <7>1. PICK z : z = x + 1
              OBVIOUS
            <7>2. /\ x \in 1..n /\ z \in 1..h /\ z \in 1..(n + 1) /\ x \in 1..(n + 1)
                  /\ \A y \in 1..z : y = z \/ y \in 1..x
              BY <7>1, <2>2
            <7>3. off[z] = off[x] + Len(seqs[x]) /\ Len(seqs[x]) \in Nat /\ off[x] \in Nat /\ off[z] \in Nat
              BY <7>1, <7>2, <1>15, <1>0
            <7>4. \A y \in 1..x : off[y] <= off[x] /\ y \in 1..(n + 1)
              BY <7>2
            <7>5. \A y \in 1..z : off[y] <= off[z]
              <8> TAKE y \in 1..z
              <8>1. CASE y = z
                BY <8>1, <7>3
              <8>2. CASE y \in 1..x
                <9>1. off[y] \in Nat /\ off[y] <= off[x]
                  BY <8>2, <7>4, <1>0
                <9> QED BY <9>1, <7>3
              <8> QED BY <8>1, <8>2, <7>2
            <7> QED BY <7>1, <7>2, <7>5
          <6>3. \A x \in 1..h : x \in R
            <7> HIDE DEF R
            <7> QED BY <6>1, <6>2, Everywhere
          <6>4. j + 1 \in 1..h /\ h \in 1..h
            BY <4>1, <2>1, <2>2
          <6> QED BY <6>3, <6>4
        <5>2. off[j + 1] = off[j] + Len(seqs[j]) /\ off[j] \in Nat /\ Len(seqs[j]) \in Nat /\ off[h] \in Nat
          BY <4>1, <2>2, <1>15, <1>0
        <5>3. PICK a, b, c, d : a = off[j] /\ b = off[j + 1] /\ c = off[h] /\ d = Len(seqs[j])
          OBVIOUS
        <5>4. b <= c /\ b = a + d /\ a \in Nat /\ d \in Nat /\ c \in Nat /\ k \in 1..d
          BY <5>1, <5>2, <5>3
        <5>5. a + k \in 1..c
          BY <5>4
        <5> QED BY <5>3, <5>5
      <4>3. flatten[i][off[j] + k] = seqs[j][k]
        BY <4>1, <1>17
      <4> QED BY <4>2, <4>3, <2>5
    <3> QED BY <3>1, <3>2
  <2> QED BY <2>1, <2>5, <2>6, <2>7
<1>18. \A i \in 1..n : i \in S
  <2>1. 1 \in S
    BY <1>16
  <2>2. \A i \in 1..n : i \in S /\ i + 1 <= n => i + 1 \in S
    <3> TAKE i \in 1..n
    <3> HAVE i \in S /\ i + 1 <= n
    <3>1. Good(i + 1)
      BY <1>17
    <3>2. i + 1 \in 1..n
      OBVIOUS
    <3> HIDE DEF Good
    <3> QED BY <3>1, <3>2
  <2> HIDE DEF S
  <2> QED BY <2>1, <2>2, Everywhere
<1>19. Good(n)
  BY <1>18
<1> QED
  BY <1>13, <1>19 DEF IsJoined
\* A strict order of the members of S.
IsStrictOrder(R, S) ==
    /\ \A x \in S : <<x, x>> \notin R
    /\ \A x, y \in S : x # y => <<x, y>> \in R \/ <<y, x>> \in R
    /\ \A x, y, z \in S : <<x, y>> \in R /\ <<y, z>> \in R => <<x, z>> \in R

IsRanked(f, S, R) ==
    /\ f \in [1..Cardinality(S) -> S]
    /\ \A i, j \in 1..Cardinality(S) : i < j => <<f[i], f[j]>> \in R
    /\ \A x \in S : \E i \in 1..Cardinality(S) : f[i] = x

RankIn(x, S, R) == Cardinality({y \in S : <<y, x>> \in R})

\* The place of a member is told by the number of those before it.
LEMMA Ranked ==
  ASSUME NEW S, IsFiniteSet(S), NEW R, IsStrictOrder(R, S)
  PROVE  /\ \A i \in 1..Cardinality(S) : \E x \in S : RankIn(x, S, R) = i - 1
         /\ \A f \in [1..Cardinality(S) -> S] :
              (\A i \in 1..Cardinality(S) : RankIn(f[i], S, R) = i - 1) => IsRanked(f, S, R)
<1> DEFINE Above(x) == {y \in S : <<y, x>> \in R}
<1>1. PICK n \in Nat : n = Cardinality(S)
  BY FS_CardinalityType
<1>2. \A x \in S : Above(x) \in SUBSET S /\ x \notin Above(x)
  BY DEF IsStrictOrder
<1>3. \A x \in S : IsFiniteSet(Above(x)) /\ Cardinality(Above(x)) \in Nat /\ Cardinality(Above(x)) < n
  <2> HIDE DEF Above
  <2> TAKE x \in S
  <2>1. /\ IsFiniteSet(Above(x)) /\ Cardinality(Above(x)) <= Cardinality(S)
        /\ (Cardinality(Above(x)) = Cardinality(S) => Above(x) = S)
    BY <1>2, FS_Subset
  <2>2. Cardinality(Above(x)) \in Nat
    BY <2>1, FS_CardinalityType
  <2> QED BY <2>1, <2>2, <1>1, <1>2
<1>4. \A x, y \in S : <<x, y>> \in R => Cardinality(Above(x)) < Cardinality(Above(y))
  <2> SUFFICES ASSUME NEW x \in S, NEW y \in S, <<x, y>> \in R
               PROVE  Cardinality(Above(x)) < Cardinality(Above(y))
    OBVIOUS
  <2>1. Above(x) \in SUBSET Above(y) /\ x \in Above(y) /\ x \notin Above(x)
    BY DEF IsStrictOrder
  <2> HIDE DEF Above
  <2>2. /\ Cardinality(Above(x)) <= Cardinality(Above(y))
        /\ Cardinality(Above(x)) # Cardinality(Above(y))
    BY <1>3, <2>1, FS_Subset
  <2> QED BY <1>3, <2>2
<1> DEFINE rank == [x \in S |-> Cardinality(Above(x)) + 1]
<1>5. rank \in [S -> 1..n]
  <2> HIDE DEF Above
  <2>1. \A x \in S : Cardinality(Above(x)) + 1 \in 1..n
    BY <1>1, <1>3
  <2> QED BY <2>1
<1>6. \A x, y \in S : <<x, y>> \in R => rank[x] < rank[y]
  <2> HIDE DEF Above
  <2> QED BY <1>3, <1>4
<1>7. \A x \in S : rank[x] = Cardinality(Above(x)) + 1
  OBVIOUS
<1> HIDE DEF rank
<1>8. \A x, y \in S : rank[x] = rank[y] => x = y
  <2> TAKE x, y \in S
  <2>1. rank[x] \in 1..n /\ rank[y] \in 1..n
    BY <1>5
  <2>2. x # y => rank[x] < rank[y] \/ rank[y] < rank[x]
    BY <1>6 DEF IsStrictOrder
  <2> QED BY <2>1, <2>2
<1>9. rank \in Injection(S, 1..n)
  BY <1>5, <1>8 DEF Injection, IsInjective
<1>10. IsFiniteSet(1..n) /\ Cardinality(1..n) = n
  BY <1>1, FS_Interval
<1>11. rank \in Surjection(S, 1..n)
  BY <1>1, <1>9, <1>10, FS_Injection
<1>12. \A i \in 1..n : \E x \in S : rank[x] = i
  BY <1>11 DEF Surjection
<1>13. \A i \in 1..n : \E x \in S : RankIn(x, S, R) = i - 1
  <2> TAKE i \in 1..n
  <2>1. PICK x \in S : rank[x] = i
    BY <1>12
  <2>2. RankIn(x, S, R) = i - 1
    <3>1. RankIn(x, S, R) = Cardinality(Above(x))
      BY DEF RankIn
    <3> HIDE DEF Above
    <3> QED BY <2>1, <3>1, <1>3, <1>7
  <2> QED BY <2>2
<1>14. SUFFICES ASSUME NEW f \in [1..n -> S], \A i \in 1..n : RankIn(f[i], S, R) = i - 1
                PROVE  IsRanked(f, S, R)
  BY <1>1, <1>13
<1>18. \A i \in 1..n : f[i] \in S /\ rank[f[i]] = i
  <2> TAKE i \in 1..n
  <2>1. f[i] \in S /\ RankIn(f[i], S, R) = i - 1
    BY <1>14
  <2>2. RankIn(f[i], S, R) = Cardinality(Above(f[i]))
    BY DEF RankIn
  <2> HIDE DEF Above
  <2> QED BY <2>1, <2>2, <1>3, <1>7
<1>15. ASSUME NEW i \in 1..n, NEW j \in 1..n, i < j PROVE <<f[i], f[j]>> \in R
  <2>1. f[i] \in S /\ f[j] \in S /\ rank[f[i]] = i /\ rank[f[j]] = j
    BY <1>18
  <2>2. f[i] # f[j] /\ ~(<<f[j], f[i]>> \in R)
    BY <2>1, <1>6, <1>15
  <2> QED BY <2>1, <2>2 DEF IsStrictOrder
<1>16. \A x \in S : \E i \in 1..n : f[i] = x
  <2> TAKE x \in S
  <2>1. rank[x] \in 1..n
    BY <1>5
  <2>2. f[rank[x]] \in S /\ rank[f[rank[x]]] = rank[x]
    BY <2>1, <1>18
  <2>3. f[rank[x]] = x
    BY <2>2, <1>8
  <2> QED BY <2>1, <2>3
<1> QED
  BY <1>1, <1>14, <1>15, <1>16 DEF IsRanked

-----------------------------------------------------------------------------
(***************************************************************************)
(* Timeline.                                                               *)
(***************************************************************************)

SourceRanges(ranges) ==
    /\ ranges \in Seq([from : Int, to : Int]) /\ ranges # <<>>
    /\ \A i \in DOMAIN ranges : ranges[i].from < ranges[i].to

LEMMA RangeFacts ==
  ASSUME NEW ranges, SourceRanges(ranges)
  PROVE  /\ Len(ranges) \in Nat /\ Len(ranges) >= 1 /\ DOMAIN ranges = 1..Len(ranges)
         /\ \A i \in 1..Len(ranges) : /\ ranges[i].from \in Int /\ ranges[i].to \in Int
                                      /\ Length(ranges[i]) \in Nat \ {0}
<1>1. ranges \in Seq([from : Int, to : Int]) /\ ranges # <<>>
  BY DEF SourceRanges
<1>2. Len(ranges) \in Nat /\ Len(ranges) >= 1 /\ DOMAIN ranges = 1..Len(ranges)
  BY <1>1
<1>3. \A i \in 1..Len(ranges) : ranges[i] \in [from : Int, to : Int]
  <2> DEFINE S == [from : Int, to : Int]
  <2>1. ranges \in Seq(S)
    BY <1>1
  <2> HIDE DEF S
  <2>2. \A i \in DOMAIN ranges : ranges[i] \in S
    BY <2>1, <1>2
  <2> QED BY <2>2, <1>2 DEF S
<1>4. \A i \in 1..Len(ranges) : ranges[i].from \in Int /\ ranges[i].to \in Int
  BY <1>3
<1>5. \A i \in 1..Len(ranges) : ranges[i].from < ranges[i].to
  BY <1>2 DEF SourceRanges
<1>6. \A i \in 1..Len(ranges) : Length(ranges[i]) \in Nat \ {0}
  BY <1>4, <1>5 DEF Length
<1> QED
  BY <1>2, <1>4, <1>6

\* An offset is the sum of the lengths before it.
LEMMA OffsetFacts ==
  ASSUME NEW ranges, SourceRanges(ranges)
  PROVE  /\ \A i \in 1..(Len(ranges) + 1) : OffsetOf(ranges, i) \in Nat
         /\ OffsetOf(ranges, 1) = 0
         /\ \A i \in 1..Len(ranges) : OffsetOf(ranges, i + 1) = OffsetOf(ranges, i) + Length(ranges[i])
<1>1. PICK n : n = Len(ranges)
  OBVIOUS
<1>2. n \in Nat /\ \A i \in 1..n : Length(ranges[i]) \in Nat
  BY <1>1, RangeFacts
<1> DEFINE step == [i \in 1..n |-> [v \in Int |-> v + Length(ranges[i])]]
           Solution(f) == f = [j \in 1..(n + 1) |-> IF j = 1 THEN 0 ELSE f[j - 1] + Length(ranges[j - 1])]
<1>3. step \in [1..n -> [Int -> Int]]
  <2>1. \A i \in 1..n : [v \in Int |-> v + Length(ranges[i])] \in [Int -> Int]
    BY <1>2
  <2> QED BY <2>1
<1>4. PICK f \in [1..(n + 1) -> Int] : f[1] = 0 /\ \A j \in 1..n : f[j + 1] = step[j][f[j]]
  <2> HIDE DEF step
  <2>1. PICK V, zero : V = Int /\ zero = 0
    OBVIOUS
  <2>2. n \in Nat /\ zero \in V /\ step \in [1..n -> [V -> V]]
    BY <1>2, <1>3, <2>1
  <2>3. \E f : IsIteration(f, V, n, zero, step)
    BY <2>2, Iterates
  <2> QED BY <2>1, <2>3 DEF IsIteration
<1>5. Solution(f)
  <2>1. \A j \in 1..(n + 1) : j # 1 => f[j] = f[j - 1] + Length(ranges[j - 1])
    <3> TAKE j \in 1..(n + 1)
    <3> HAVE j # 1
    <3>1. PICK i \in 1..n : j = i + 1 /\ i = j - 1
      <4>1. j - 1 \in 1..n /\ j = (j - 1) + 1
        BY <1>2
      <4> QED BY <4>1
    <3>2. f[i] \in Int
      BY <3>1, <1>2, <1>4
    <3> QED BY <3>1, <3>2, <1>4
  <2> HIDE DEF step
  <2> QED BY <1>4, <2>1
<1> DEFINE offset == CHOOSE f_1 : Solution(f_1)
<1>6. Solution(offset)
  BY <1>5
<1>7. \A i : OffsetOf(ranges, i) = offset[i]
  BY <1>1 DEF OffsetOf
<1> HIDE DEF offset
<1>8. offset[1] = 0
  BY <1>2, <1>6
<1>9. \A i \in 1..n : offset[i + 1] = offset[i] + Length(ranges[i])
  <2> TAKE i \in 1..n
  <2>1. i + 1 \in 1..(n + 1) /\ i + 1 # 1 /\ (i + 1) - 1 = i
    BY <1>2
  <2> QED BY <2>1, <1>6
<1> HIDE DEF Solution
<1>10. \A i \in 1..(n + 1) : offset[i] \in Nat
  <2>1. offset[1] \in Nat
    BY <1>8
  <2>2. \A i \in 1..n : offset[i] \in Nat => offset[i + 1] \in Nat
    BY <1>2, <1>9
  <2> QED BY <2>1, <2>2, <1>2, Invariantly
<1> QED
  BY <1>1, <1>7, <1>8, <1>9, <1>10

LEMMA FirstIs ==
  ASSUME NEW S \in SUBSET Nat, S # {}
  PROVE  First(S) \in S /\ \A j \in S : First(S) <= j
<1>1. \E i \in S : \A j \in S : i <= j
  BY SmallestNat
<1> QED
  BY <1>1 DEF First

LEMMA OffsetsGrow ==
  ASSUME NEW ranges, SourceRanges(ranges), NEW i \in 1..(Len(ranges) + 1)
  PROVE  \A j \in 1..i : OffsetOf(ranges, j) <= OffsetOf(ranges, i)
<1>1. PICK n \in Nat : n = Len(ranges)
  BY RangeFacts
<1>2. PICK off : off = [j \in 1..(n + 1) |-> OffsetOf(ranges, j)]
  OBVIOUS
<1>3. /\ \A j \in 1..(n + 1) : off[j] \in Nat
      /\ \A j \in 1..n : off[j + 1] = off[j] + Length(ranges[j]) /\ Length(ranges[j]) \in Nat
  <2>1. \A j \in 1..n : j \in 1..(n + 1) /\ j + 1 \in 1..(n + 1)
    OBVIOUS
  <2>2. \A j \in 1..(n + 1) : off[j] = OffsetOf(ranges, j)
    BY <1>2
  <2> QED BY <2>1, <2>2, <1>1, OffsetFacts, RangeFacts
<1> DEFINE Below(x) == \A y \in 1..x : off[y] <= off[x]
           m == n + 1
           S == {x \in 1..m : Below(x)}
<1>4. m \in Nat /\ 1 \in S
  <2>1. \A y \in 1..1 : y = 1
    OBVIOUS
  <2> QED BY <2>1, <1>3
<1>5. ASSUME NEW x \in 1..m, Below(x), x + 1 <= m PROVE Below(x + 1)
  <2>1. PICK z : z = x + 1
    OBVIOUS
  <2>2. /\ x \in 1..n /\ z \in 1..(n + 1) /\ x \in 1..(n + 1)
        /\ \A y \in 1..z : y = z \/ y \in 1..x
    BY <2>1, <1>5
  <2>3. off[z] = off[x] + Length(ranges[x]) /\ Length(ranges[x]) \in Nat /\ off[x] \in Nat /\ off[z] \in Nat
    BY <2>1, <2>2, <1>3
  <2>4. \A y \in 1..x : off[y] <= off[x] /\ y \in 1..(n + 1)
    BY <2>2, <1>5
  <2>5. \A y \in 1..z : off[y] <= off[z]
    <3> TAKE y \in 1..z
    <3>1. CASE y = z
      BY <3>1, <2>3
    <3>2. CASE y \in 1..x
      <4>1. off[y] \in Nat /\ off[y] <= off[x]
        BY <3>2, <2>4, <1>3
      <4> QED BY <4>1, <2>3
    <3> QED BY <3>1, <3>2, <2>2
  <2> QED BY <2>1, <2>5
<1>6. \A x \in 1..m : x \in S
  <2>1. \A x \in 1..m : x \in S /\ x + 1 <= m => x + 1 \in S
    <3> TAKE x \in 1..m
    <3> HAVE x \in S /\ x + 1 <= m
    <3>1. Below(x + 1)
      BY <1>5
    <3>2. x + 1 \in 1..m
      OBVIOUS
    <3> HIDE DEF Below, m
    <3> QED BY <3>1, <3>2
  <2> HIDE DEF S, m
  <2> QED BY <1>4, <2>1, Everywhere
<1>7. i \in 1..m /\ \A j \in 1..i : j \in 1..m
  BY <1>1
<1>8. \A j \in 1..m : off[j] = OffsetOf(ranges, j)
  BY <1>2
<1>9. Below(i)
  BY <1>6, <1>7
<1> QED
  BY <1>7, <1>8, <1>9

\* An instant of the output is in a range.
LEMMA Located ==
  ASSUME NEW ranges, SourceRanges(ranges), NEW k \in 1..outputDuration(ranges)
  PROVE  \E i \in 1..Len(ranges) : OffsetOf(ranges, i) < k /\ k <= OffsetOf(ranges, i + 1)
<1>1. PICK n \in Nat : n = Len(ranges) /\ n >= 1
  BY RangeFacts
<1>2. /\ \A i \in 1..(n + 1) : OffsetOf(ranges, i) \in Nat
      /\ OffsetOf(ranges, 1) = 0
  BY <1>1, OffsetFacts
<1>3. k \in Int /\ k >= 1 /\ k <= OffsetOf(ranges, n + 1)
  <2>1. OffsetOf(ranges, n + 1) \in Nat
    BY <1>1, <1>2
  <2> QED BY <2>1, <1>1 DEF outputDuration
<1> DEFINE S == {j \in 1..n : k <= OffsetOf(ranges, j + 1)}
<1>4. S \in SUBSET Nat /\ n \in S
  BY <1>1, <1>3
<1>5. PICK i \in S : \A j \in S : i <= j
  <2> HIDE DEF S
  <2> QED BY <1>4, SmallestNat
<1>6. i \in 1..n /\ k <= OffsetOf(ranges, i + 1)
  OBVIOUS
<1>7. OffsetOf(ranges, i) < k
  <2>1. CASE i = 1
    BY <2>1, <1>2, <1>3
  <2>2. CASE i # 1
    <3>1. PICK j \in 1..n : i = j + 1 /\ j < i
      <4>1. i - 1 \in 1..n /\ i = (i - 1) + 1 /\ i - 1 < i
        BY <2>2, <1>6
      <4> QED BY <4>1
    <3>2. j \notin S
      BY <3>1, <1>5, <1>6
    <3>3. ~(k <= OffsetOf(ranges, i))
      BY <3>1, <3>2
    <3>4. OffsetOf(ranges, i) \in Nat
      BY <1>2, <1>6
    <3> QED BY <3>3, <3>4, <1>3
  <2> QED BY <2>1, <2>2
<1> QED
  BY <1>1, <1>6, <1>7

\* What the Render shows, range by range.
LEMMA ReelFacts ==
  ASSUME NEW ranges, SourceRanges(ranges)
  PROVE  /\ outputDuration(ranges) \in Nat
         /\ DOMAIN Reel(ranges) = 1..outputDuration(ranges)
         /\ \A i \in 1..Len(ranges) : \A k \in 1..Length(ranges[i]) :
              Reel(ranges)[OffsetOf(ranges, i) + k] = ranges[i].from + k - 1
<1>1. PICK n \in Nat \ {0} : n = Len(ranges)
  BY RangeFacts
<1>2. DOMAIN ranges = 1..n /\ \A i \in 1..n : ranges[i].from \in Int /\ Length(ranges[i]) \in Nat
  BY <1>1, RangeFacts
<1>3. PICK off : off = [j \in 1..(n + 1) |-> OffsetOf(ranges, j)]
  OBVIOUS
<1>4. PICK seqs : seqs = [i \in 1..n |-> [k \in 1..Length(ranges[i]) |-> ranges[i].from + k - 1]]
  OBVIOUS
<1>5. Reel(ranges) = FlattenSeq(seqs)
  BY <1>2, <1>4 DEF Reel
<1>6. \A i \in 1..n : seqs[i] \in Seq(Int) /\ Len(seqs[i]) = Length(ranges[i])
  <2> TAKE i \in 1..n
  <2>1. PICK m \in Nat : m = Length(ranges[i])
    BY <1>2
  <2>2. PICK x \in Int : x = ranges[i].from
    BY <1>2
  <2>3. seqs[i] = [k \in 1..m |-> x + k - 1]
    BY <2>1, <2>2, <1>4
  <2> QED BY <2>1, <2>3
<1>7. seqs \in [1..n -> Seq(Int)]
  BY <1>4, <1>6
<1>8. \A j \in 1..(n + 1) : off[j] = OffsetOf(ranges, j)
  BY <1>3
<1>9. /\ off[1] = 0 /\ \A j \in 1..(n + 1) : off[j] \in Nat
      /\ \A i \in 1..n : off[i + 1] = off[i] + Len(seqs[i])
  <2>1. 1 \in 1..(n + 1) /\ \A j \in 1..n : j \in 1..(n + 1) /\ j + 1 \in 1..(n + 1)
    OBVIOUS
  <2> QED BY <2>1, <1>1, <1>6, <1>8, OffsetFacts
<1>10. /\ FlattenSeq(seqs) \in Seq(Int) /\ Len(FlattenSeq(seqs)) = off[n + 1]
       /\ \A i \in 1..n : \A k \in 1..Len(seqs[i]) : FlattenSeq(seqs)[off[i] + k] = seqs[i][k]
  <2>1. PICK T : T = Int
    OBVIOUS
  <2>2. seqs \in [1..n -> Seq(T)]
    BY <2>1, <1>7
  <2>3. AreOffsets(off, seqs, n)
    BY <1>9 DEF AreOffsets
  <2>4. FlattenSeq(seqs) \in Seq(T)
    BY <2>2, <2>3, Flattened
  <2>5. IsJoined(FlattenSeq(seqs), off, seqs, n)
    BY <2>2, <2>3, Flattened
  <2> QED BY <2>1, <2>4, <2>5 DEF IsJoined
<1>11. outputDuration(ranges) = off[n + 1] /\ off[n + 1] \in Nat
  BY <1>1, <1>8, <1>9 DEF outputDuration
<1>12. DOMAIN Reel(ranges) = 1..outputDuration(ranges)
  BY <1>5, <1>10, <1>11
<1>13. ASSUME NEW i \in 1..n, NEW k \in 1..Length(ranges[i])
       PROVE  Reel(ranges)[OffsetOf(ranges, i) + k] = ranges[i].from + k - 1
  <2>1. seqs[i][k] = ranges[i].from + k - 1
    BY <1>4
  <2>2. off[i] = OffsetOf(ranges, i)
    BY <1>8
  <2> QED BY <2>1, <2>2, <1>5, <1>6, <1>10
<1> QED
  BY <1>1, <1>11, <1>12, <1>13
-----------------------------------------------------------------------------
\* Cues are put in order.
LEMMA InOrderOfTimeSorts ==
  ASSUME NEW S, IsFiniteSet(S), \A c \in S : c.id \in Int /\ c.from \in Int /\ c.to \in Int,
         \A c, d \in S : c.id = d.id => c = d
  PROVE  /\ Cardinality(S) \in Nat
         /\ InOrderOfTime(S) \in [1..Cardinality(S) -> S]
         /\ \A i, j \in 1..Cardinality(S) : i < j => Before(InOrderOfTime(S)[i], InOrderOfTime(S)[j])
         /\ \A x \in S : \E i \in 1..Cardinality(S) : InOrderOfTime(S)[i] = x
<1> DEFINE R == {p \in S \X S : Before(p[1], p[2])}
<1>1. \A x, y \in S : <<x, y>> \in R <=> Before(x, y)
  OBVIOUS
<1>2. IsStrictOrder(R, S)
  <2>1. \A x \in S : ~Before(x, x)
    BY DEF Before
  <2>2. \A x, y \in S : x # y => Before(x, y) \/ Before(y, x)
    <3> TAKE x, y \in S
    <3> HAVE x # y
    <3>1. x.id # y.id
      OBVIOUS
    <3> QED BY <3>1 DEF Before
  <2>3. \A x, y, z \in S : Before(x, y) /\ Before(y, z) => Before(x, z)
    BY DEF Before
  <2> HIDE DEF R
  <2> QED BY <1>1, <2>1, <2>2, <2>3 DEF IsStrictOrder
<1> HIDE DEF R
<1>3. \A x \in S : RankIn(x, S, R) = Cardinality({y \in S : Before(y, x)})
  <2> TAKE x \in S
  <2>1. {y \in S : <<y, x>> \in R} = {y \in S : Before(y, x)}
    BY <1>1
  <2> QED BY <2>1 DEF RankIn
<1>4. IsRanked(InOrderOfTime(S), S, R)
  <2>1. \A i \in 1..Cardinality(S) : \E x \in S : RankIn(x, S, R) = i - 1
    BY <1>2, Ranked
  <2>2. \A i \in 1..Cardinality(S) : \E x \in S : Cardinality({y \in S : Before(y, x)}) = i - 1
    BY <2>1, <1>3
  <2>3. \A i \in 1..Cardinality(S) :
          /\ InOrderOfTime(S)[i] \in S
          /\ Cardinality({y \in S : Before(y, InOrderOfTime(S)[i])}) = i - 1
    BY <2>2 DEF InOrderOfTime
  <2>4. \A i \in 1..Cardinality(S) : RankIn(InOrderOfTime(S)[i], S, R) = i - 1
    BY <2>3, <1>3
  <2>5. InOrderOfTime(S) \in [1..Cardinality(S) -> S]
    BY <2>3 DEF InOrderOfTime
  <2> QED BY <2>4, <2>5, <1>2, Ranked
<1>5. Cardinality(S) \in Nat
  BY FS_CardinalityType
<1>6. \A i, j \in 1..Cardinality(S) : i < j => Before(InOrderOfTime(S)[i], InOrderOfTime(S)[j])
  BY <1>1, <1>4 DEF IsRanked
<1> QED
  BY <1>4, <1>5, <1>6 DEF IsRanked
-----------------------------------------------------------------------------
LEMMA Playhead ==
  ASSUME NEW ranges, SourceRanges(ranges)
  PROVE  PlayheadShowsTheRender(ranges)
<1>1. SUFFICES ASSUME NEW k \in 1..outputDuration(ranges)
               PROVE  mapOutputToSource(ranges, k - 1).source = Reel(ranges)[k]
  BY ReelFacts DEF PlayheadShowsTheRender
<1>2. PICK n \in Nat : n = Len(ranges) /\ n >= 1 /\ DOMAIN ranges = 1..n
  BY RangeFacts
<1>3. PICK i \in 1..n : OffsetOf(ranges, i) < k /\ k <= OffsetOf(ranges, i + 1)
  BY <1>2, Located
<1>4. /\ OffsetOf(ranges, i) \in Nat /\ OffsetOf(ranges, i + 1) \in Nat /\ k \in Int
      /\ OffsetOf(ranges, i + 1) = OffsetOf(ranges, i) + Length(ranges[i])
      /\ Length(ranges[i]) \in Nat /\ ranges[i].from \in Int
  <2>1. i \in 1..(n + 1) /\ i + 1 \in 1..(n + 1)
    BY <1>2
  <2> QED BY <2>1, <1>2, OffsetFacts, RangeFacts
<1> DEFINE S == {j \in DOMAIN ranges : k - 1 < OffsetOf(ranges, j + 1)} \cup {Len(ranges)}
<1>5. First(S) = i
  <2>1. S \in SUBSET Nat /\ i \in S
    BY <1>2, <1>3, <1>4
  <2>2. ASSUME NEW j \in S, j < i PROVE FALSE
    <3>1. j \in 1..n /\ j + 1 \in 1..i /\ i \in 1..(n + 1)
      BY <2>1, <2>2, <1>2
    <3>2. OffsetOf(ranges, j + 1) <= OffsetOf(ranges, i)
      BY <3>1, <1>2, OffsetsGrow
    <3>3. OffsetOf(ranges, j + 1) \in Nat
      BY <3>1, <1>2, OffsetFacts
    <3>4. j # n
      BY <3>1
    <3>5. k - 1 < OffsetOf(ranges, j + 1)
      BY <3>4, <1>2
    <3> QED BY <3>2, <3>3, <3>5, <1>3, <1>4
  <2> HIDE DEF S
  <2>3. First(S) \in S /\ First(S) <= i
    BY <2>1, FirstIs
  <2>4. First(S) \in Nat /\ ~(First(S) < i)
    BY <2>1, <2>2, <2>3
  <2> QED BY <2>3, <2>4
<1>6. mapOutputToSource(ranges, k - 1).source =
        ranges[i].from + (IF (k - 1) - OffsetOf(ranges, i) > Length(ranges[i])
                          THEN Length(ranges[i]) ELSE (k - 1) - OffsetOf(ranges, i))
  BY <1>5 DEF mapOutputToSource
<1>7. mapOutputToSource(ranges, k - 1).source = ranges[i].from + ((k - 1) - OffsetOf(ranges, i))
  BY <1>3, <1>4, <1>6
<1>8. PICK o, p \in Int : o = OffsetOf(ranges, i) /\ p = k - o /\ p \in 1..Length(ranges[i]) /\ o + p = k
  <2>1. k - OffsetOf(ranges, i) \in 1..Length(ranges[i])
        /\ OffsetOf(ranges, i) + (k - OffsetOf(ranges, i)) = k
    BY <1>3, <1>4
  <2> QED BY <2>1, <1>4
<1>9. Reel(ranges)[k] = ranges[i].from + p - 1
  <2>1. Reel(ranges)[OffsetOf(ranges, i) + p] = ranges[i].from + p - 1
    BY <1>2, <1>8, ReelFacts
  <2> QED BY <2>1, <1>8
<1> QED
  BY <1>4, <1>7, <1>8, <1>9
-----------------------------------------------------------------------------
\* Contract: a cue has an extent.
Cues(cues) ==
    /\ cues \in Seq([from : Nat, to : Nat])
    /\ \A c \in DOMAIN cues : cues[c].from < cues[c].to

LEMMA CueFacts ==
  ASSUME NEW cues, Cues(cues)
  PROVE  /\ Len(cues) \in Nat /\ DOMAIN cues = 1..Len(cues)
         /\ \A c \in 1..Len(cues) : cues[c].from \in Nat /\ cues[c].to \in Nat /\ cues[c].from < cues[c].to
<1> DEFINE T == [from : Nat, to : Nat]
<1>1. cues \in Seq(T)
  BY DEF Cues
<1>2. Len(cues) \in Nat /\ DOMAIN cues = 1..Len(cues) /\ \A c \in 1..Len(cues) : cues[c] \in T
  <2> HIDE DEF T
  <2> QED BY <1>1
<1>3. \A c \in 1..Len(cues) : cues[c].from \in Nat /\ cues[c].to \in Nat
  BY <1>2
<1> QED
  BY <1>2, <1>3 DEF Cues

LEMMA FiniteRange ==
  ASSUME NEW D, IsFiniteSet(D), NEW g, g = [x \in D |-> g[x]]
  PROVE  IsFiniteSet({g[x] : x \in D})
<1>1. g \in Surjection(D, {g[x] : x \in D})
  BY DEF Surjection
<1> QED
  BY <1>1, FS_Surjection

\* An instant of the i-th range, as the Render shows it.
LEMMA Shown ==
  ASSUME NEW ranges, SourceRanges(ranges), NEW i \in 1..Len(ranges), NEW k \in Int,
         OffsetOf(ranges, i) <= k, k < OffsetOf(ranges, i + 1)
  PROVE  /\ k + 1 \in DOMAIN Reel(ranges)
         /\ Reel(ranges)[k + 1] = ranges[i].from + k - OffsetOf(ranges, i)
<1>1. PICK n \in Nat : n = Len(ranges) /\ n >= 1
  BY RangeFacts
<1>2. /\ i \in 1..(n + 1) /\ i + 1 \in 1..(n + 1) /\ n + 1 \in 1..(n + 1) /\ i \in 1..n
  BY <1>1
<1>3. PICK o, e \in Nat, x, l \in Int : /\ o = OffsetOf(ranges, i) /\ e = OffsetOf(ranges, i + 1)
                                       /\ x = ranges[i].from /\ l = Length(ranges[i]) /\ e = o + l
  <2>1. OffsetOf(ranges, i) \in Nat /\ OffsetOf(ranges, i + 1) \in Nat
    BY <1>1, <1>2, OffsetFacts
  <2>2. ranges[i].from \in Int /\ Length(ranges[i]) \in Int
    BY <1>1, <1>2, RangeFacts
  <2>3. OffsetOf(ranges, i + 1) = OffsetOf(ranges, i) + Length(ranges[i])
    BY <1>1, <1>2, OffsetFacts
  <2> QED BY <2>1, <2>2, <2>3
<1>4. e <= outputDuration(ranges) /\ outputDuration(ranges) \in Nat
  BY <1>1, <1>2, <1>3, OffsetsGrow, ReelFacts DEF outputDuration
<1>5. PICK p \in 1..l : o + p = k + 1 /\ p - 1 = k - o
  <2>1. (k + 1) - o \in 1..l /\ o + ((k + 1) - o) = k + 1 /\ ((k + 1) - o) - 1 = k - o
    BY <1>3
  <2> QED BY <2>1
<1>6. Reel(ranges)[OffsetOf(ranges, i) + p] = ranges[i].from + p - 1
  BY <1>1, <1>2, <1>3, <1>5, ReelFacts
<1>7. Reel(ranges)[k + 1] = x + p - 1
  BY <1>3, <1>5, <1>6
<1>8. k + 1 \in 1..outputDuration(ranges)
  BY <1>3, <1>4
<1>9. x + p - 1 = x + k - o
  BY <1>3, <1>5
<1> QED
  BY <1>3, <1>7, <1>8, <1>9, ReelFacts

LEMMA CaptionsShow ==
  ASSUME NEW ranges, SourceRanges(ranges), NEW cues, Cues(cues), NEW m \in Mapped(cues, ranges)
  PROVE  /\ m.id \in 1..Len(cues) /\ m.from \in Int /\ m.to \in Int
         /\ \A k \in m.from..(m.to - 1) :
              k + 1 \in DOMAIN Reel(ranges) /\ Reel(ranges)[k + 1] = cues[m.id].from + k - m.from
<1>1. PICK c \in DOMAIN cues :
        /\ Containing(cues[c], ranges) # {}
        /\ m = [id   |-> c,
                from |-> OffsetOf(ranges, First(Containing(cues[c], ranges))) + cues[c].from
                           - ranges[First(Containing(cues[c], ranges))].from,
                to   |-> OffsetOf(ranges, First(Containing(cues[c], ranges))) + cues[c].to
                           - ranges[First(Containing(cues[c], ranges))].from]
  BY DEF Mapped
<1>2. PICK i : i = First(Containing(cues[c], ranges))
  OBVIOUS
<1>3. PICK n \in Nat : n = Len(ranges) /\ DOMAIN ranges = 1..n
  BY RangeFacts
<1>4. i \in 1..n /\ ranges[i].from <= cues[c].from /\ cues[c].to <= ranges[i].to
  <2>1. Containing(cues[c], ranges) \in SUBSET Nat
    BY <1>3 DEF Containing
  <2>2. i \in Containing(cues[c], ranges)
    BY <2>1, <1>1, <1>2, FirstIs
  <2> QED BY <2>2, <1>3 DEF Containing
<1>5. PICK o, e \in Nat, x, y, f, t \in Int :
        /\ o = OffsetOf(ranges, i) /\ e = OffsetOf(ranges, i + 1) /\ x = ranges[i].from
        /\ y = ranges[i].to /\ f = cues[c].from /\ t = cues[c].to /\ e = o + (y - x)
  <2>1. i \in 1..(n + 1) /\ i + 1 \in 1..(n + 1)
    BY <1>4
  <2>2. OffsetOf(ranges, i) \in Nat /\ OffsetOf(ranges, i + 1) \in Nat
    BY <2>1, <1>3, OffsetFacts
  <2>3. ranges[i].from \in Int /\ ranges[i].to \in Int
    BY <1>3, <1>4, RangeFacts
  <2>4. cues[c].from \in Int /\ cues[c].to \in Int
    BY <1>1, CueFacts
  <2>5. OffsetOf(ranges, i + 1) = OffsetOf(ranges, i) + (ranges[i].to - ranges[i].from)
    BY <1>3, <1>4, OffsetFacts DEF Length
  <2> QED BY <2>2, <2>3, <2>4, <2>5
<1>6. m.id = c /\ m.from = o + f - x /\ m.to = o + t - x
  BY <1>1, <1>2, <1>5
<1>7. c \in 1..Len(cues)
  BY CueFacts
<1>8. ASSUME NEW k \in m.from..(m.to - 1)
      PROVE  k + 1 \in DOMAIN Reel(ranges) /\ Reel(ranges)[k + 1] = cues[m.id].from + k - m.from
  <2>1. k \in Int /\ o + f - x <= k /\ k < o + t - x
    BY <1>5, <1>6
  <2>2. o <= k /\ k < e
    BY <2>1, <1>4, <1>5
  <2>3. k + 1 \in DOMAIN Reel(ranges) /\ Reel(ranges)[k + 1] = ranges[i].from + k - OffsetOf(ranges, i)
    BY <2>1, <2>2, <1>3, <1>4, <1>5, Shown
  <2>4. x + k - o = f + k - (o + f - x)
    BY <2>1, <1>5
  <2>5. ranges[i].from + k - OffsetOf(ranges, i) = x + k - o
    BY <1>5
  <2>6. cues[m.id].from + k - m.from = f + k - (o + f - x)
    BY <1>5, <1>6
  <2> QED BY <2>3, <2>4, <2>5, <2>6
<1>9. m.id \in 1..Len(cues) /\ m.from \in Int /\ m.to \in Int
  <2>1. o + f - x \in Int /\ o + t - x \in Int
    BY <1>5
  <2> QED BY <2>1, <1>6, <1>7
<1> QED
  BY <1>8, <1>9

LEMMA SidecarsHaveAll ==
  ASSUME NEW ranges, SourceRanges(ranges), NEW cues, Cues(cues)
  PROVE  ToSet(generateCaptionSidecars(cues, ranges, TRUE)) = captionFilters(cues, ranges)
<1> DEFINE S == Mapped(cues, ranges)
           C == {d \in DOMAIN cues : Containing(cues[d], ranges) # {}}
           g == [c \in C |->
                  [id   |-> c,
                   from |-> OffsetOf(ranges, First(Containing(cues[c], ranges))) + cues[c].from
                              - ranges[First(Containing(cues[c], ranges))].from,
                   to   |-> OffsetOf(ranges, First(Containing(cues[c], ranges))) + cues[c].to
                              - ranges[First(Containing(cues[c], ranges))].from]]
<1>1. IsFiniteSet(C)
  <2>1. PICK n \in Nat : n = Len(cues) /\ DOMAIN cues = 1..n
    BY CueFacts
  <2>2. IsFiniteSet(1..n) /\ C \in SUBSET (1..n)
    <3>1. 1 \in Int /\ n \in Int
      OBVIOUS
    <3> QED BY <2>1, <3>1, FS_Interval
  <2> HIDE DEF C
  <2> QED BY <2>2, FS_Subset
<1>2. S = {g[c] : c \in C} /\ g = [c \in C |-> g[c]]
  BY DEF Mapped
<1>3. \A c, d \in S : c.id = d.id => c = d
  <2>1. \A c \in C : g[c].id = c
    OBVIOUS
  <2> HIDE DEF S, C, g
  <2> QED BY <2>1, <1>2
<1> HIDE DEF C, g
<1>4. IsFiniteSet(S)
  <2>1. IsFiniteSet({g[c] : c \in C})
    BY <1>1, <1>2, FiniteRange
  <2> QED BY <2>1, <1>2
<1>5. \A c \in S : c.id \in Int /\ c.from \in Int /\ c.to \in Int
  <2>1. Len(cues) \in Nat
    BY CueFacts
  <2> QED BY <2>1, CaptionsShow
<1> HIDE DEF S
<1>6. PICK n \in Nat : n = Cardinality(S)
  BY <1>4, FS_CardinalityType
<1>7. PICK f \in [1..n -> S] : f = InOrderOfTime(S) /\ \A x \in S : \E i \in 1..n : f[i] = x
  BY <1>3, <1>4, <1>5, <1>6, InOrderOfTimeSorts
<1>8. ToSet(f) = S
  BY <1>7 DEF ToSet
<1> QED
  BY <1>7, <1>8 DEF S, generateCaptionSidecars, captionFilters
-----------------------------------------------------------------------------
\* The latest ending so far: 0, or one of those that came before.
IsLatest(latest, to, n) ==
    latest = CHOOSE g : g = [k \in 1..(n + 1) |-> IF k = 1 THEN 0
                               ELSE IF to[k - 1] > g[k - 1] THEN to[k - 1] ELSE g[k - 1]]

LEMMA LatestEnding ==
  ASSUME NEW n \in Nat, NEW to \in [1..n -> Nat], NEW latest, IsLatest(latest, to, n)
  PROVE  \A k \in 1..n : /\ latest[k] \in Nat
                         /\ \A j \in 1..(k - 1) : to[j] <= latest[k]
                         /\ latest[k] = 0 \/ \E j \in 1..(k - 1) : latest[k] = to[j]
<1> DEFINE Solution(g) == g = [k \in 1..(n + 1) |-> IF k = 1 THEN 0
                                 ELSE IF to[k - 1] > g[k - 1] THEN to[k - 1] ELSE g[k - 1]]
           step == [k \in 1..n |-> [v \in Nat |-> IF to[k] > v THEN to[k] ELSE v]]
<1>1. step \in [1..n -> [Nat -> Nat]]
  <2>1. \A k \in 1..n : [v \in Nat |-> IF to[k] > v THEN to[k] ELSE v] \in [Nat -> Nat]
    OBVIOUS
  <2> QED BY <2>1
<1>2. PICK f \in [1..(n + 1) -> Nat] : f[1] = 0 /\ \A k \in 1..n : f[k + 1] = step[k][f[k]]
  <2> HIDE DEF step
  <2>1. PICK V, zero : V = Nat /\ zero = 0
    OBVIOUS
  <2>2. zero \in V /\ step \in [1..n -> [V -> V]]
    BY <1>1, <2>1
  <2>3. \E f : IsIteration(f, V, n, zero, step)
    BY <2>2, Iterates
  <2> QED BY <2>1, <2>3 DEF IsIteration
<1>3. Solution(f)
  <2>1. \A k \in 1..(n + 1) : k # 1 => f[k] = IF to[k - 1] > f[k - 1] THEN to[k - 1] ELSE f[k - 1]
    <3> TAKE k \in 1..(n + 1)
    <3> HAVE k # 1
    <3>1. PICK i \in 1..n : k = i + 1 /\ i = k - 1
      <4>1. k - 1 \in 1..n /\ k = (k - 1) + 1
        OBVIOUS
      <4> QED BY <4>1
    <3>2. f[i] \in Nat
      BY <3>1, <1>2
    <3> QED BY <3>1, <3>2, <1>2
  <2> HIDE DEF step
  <2> QED BY <1>2, <2>1
<1>4. Solution(latest)
  BY <1>3 DEF IsLatest
<1>5. latest[1] = 0
  BY <1>4
<1>6. \A k \in 1..n : latest[k + 1] = IF to[k] > latest[k] THEN to[k] ELSE latest[k]
  <2> TAKE k \in 1..n
  <2>1. k + 1 \in 1..(n + 1) /\ k + 1 # 1 /\ (k + 1) - 1 = k
    OBVIOUS
  <2> QED BY <2>1, <1>4
<1> HIDE DEF Solution
<1> DEFINE Good(k) == /\ latest[k] \in Nat
                      /\ \A j \in 1..(k - 1) : to[j] <= latest[k]
                      /\ latest[k] = 0 \/ \E j \in 1..(k - 1) : latest[k] = to[j]
           S == {k \in 1..n : Good(k)}
<1>7. n >= 1 => 1 \in S
  <2>1. 1..(1 - 1) = {}
    OBVIOUS
  <2> QED BY <2>1, <1>5
<1>8. \A k \in 1..n : k \in S /\ k + 1 <= n => k + 1 \in S
  <2> SUFFICES ASSUME NEW k \in 1..n, Good(k), k + 1 <= n PROVE k + 1 \in S
    OBVIOUS
  <2>1. \A j \in 1..((k + 1) - 1) : j = k \/ j \in 1..(k - 1)
    OBVIOUS
  <2>2. /\ k \in 1..((k + 1) - 1) /\ \A j \in 1..(k - 1) : j \in 1..((k + 1) - 1)
        /\ k + 1 \in 1..n /\ \A j \in 1..k : to[j] \in Nat
    OBVIOUS
  <2>3. to[k] \in Nat /\ latest[k] \in Nat
    OBVIOUS
  <2>4. CASE to[k] > latest[k]
    <3>1. latest[k + 1] = to[k]
      BY <2>4, <1>6
    <3>2. \A j \in 1..((k + 1) - 1) : to[j] <= latest[k + 1]
      <4> TAKE j \in 1..((k + 1) - 1)
      <4>1. CASE j = k
        BY <4>1, <3>1, <2>3
      <4>2. CASE j \in 1..(k - 1)
        <5>1. to[j] <= latest[k] /\ to[j] \in Nat
          BY <4>2
        <5>2. PICK x, y, z \in Nat : x = to[j] /\ y = latest[k] /\ z = to[k]
          BY <5>1, <2>3
        <5>3. x <= y /\ y < z
          BY <5>1, <5>2, <2>4
        <5>4. x <= z
          BY <5>3
        <5> QED BY <5>2, <5>4, <3>1
      <4> QED BY <4>1, <4>2, <2>1
    <3> QED BY <3>1, <3>2, <2>2, <2>3
  <2>5. CASE ~(to[k] > latest[k])
    <3>1. latest[k + 1] = latest[k]
      BY <2>5, <1>6
    <3>2. \A j \in 1..((k + 1) - 1) : to[j] <= latest[k + 1]
      <4> TAKE j \in 1..((k + 1) - 1)
      <4>1. CASE j = k
        BY <4>1, <3>1, <2>3, <2>5
      <4>2. CASE j \in 1..(k - 1)
        BY <4>2, <3>1
      <4> QED BY <4>1, <4>2, <2>1
    <3> QED BY <3>1, <3>2, <2>2, <2>3
  <2> QED BY <2>4, <2>5
<1>9. \A k \in 1..n : k \in S
  <2> HIDE DEF S
  <2> QED BY <1>7, <1>8, Everywhere
<1> QED
  BY <1>9

LEMMA OverlapsFound ==
  ASSUME NEW cues, Cues(cues)
  PROVE  OverlapsAreFound(cues)
<1> DEFINE D == DOMAIN cues
           g == [c \in D |-> [id |-> c, from |-> cues[c].from, to |-> cues[c].to]]
           S == Timed(cues)
<1>1. /\ D = 1..Len(cues) /\ Len(cues) \in Nat
      /\ \A c \in D : cues[c].from \in Nat /\ cues[c].to \in Nat
  BY CueFacts
<1>2. S = {g[c] : c \in D} /\ g = [c \in D |-> g[c]]
  BY DEF Timed
<1>3. \A c \in D : g[c] \in S /\ g[c].id = c /\ g[c].from = cues[c].from /\ g[c].to = cues[c].to
  BY DEF Timed
<1>4. \A x \in S : x.id \in D /\ x = g[x.id]
  <2> HIDE DEF S, D, g
  <2> QED BY <1>2, <1>3
<1>5. \A c \in D : g[c] = [id |-> c, from |-> cues[c].from, to |-> cues[c].to]
  OBVIOUS
<1> HIDE DEF S, g
<1>6. IsFiniteSet(S)
  <2>1. PICK n \in Nat : n = Len(cues)
    BY <1>1
  <2>2. IsFiniteSet(D)
    <3>1. 1 \in Int /\ n \in Int /\ D = 1..n
      BY <2>1, <1>1
    <3> QED BY <3>1, FS_Interval
  <2> HIDE DEF D
  <2>3. IsFiniteSet({g[c] : c \in D})
    BY <2>2, <1>2, FiniteRange
  <2> QED BY <2>3, <1>2
<1>7. \A x \in S : x.id \in Int /\ x.from \in Int /\ x.to \in Int /\ x.from \in Nat /\ x.to \in Nat
  BY <1>1, <1>3, <1>4
<1>8. \A x, y \in S : x.id = y.id => x = y
  BY <1>4
<1>9. PICK n \in Nat : n = Cardinality(S)
  BY <1>6, FS_CardinalityType
<1>10. PICK ordered \in [1..n -> S] :
         /\ ordered = InOrderOfTime(S)
         /\ \A i, j \in 1..n : i < j => Before(ordered[i], ordered[j])
         /\ \A x \in S : \E i \in 1..n : ordered[i] = x
  BY <1>6, <1>7, <1>8, <1>9, InOrderOfTimeSorts
<1>11. Len(ordered) = n /\ DOMAIN ordered = 1..n
  OBVIOUS
<1>12. \A i, j \in 1..n : Before(ordered[i], ordered[j]) => i < j
  <2> SUFFICES ASSUME NEW i \in 1..n, NEW j \in 1..n, Before(ordered[i], ordered[j]), ~(i < j)
               PROVE  FALSE
    OBVIOUS
  <2>1. i = j \/ Before(ordered[j], ordered[i])
    BY <1>10
  <2>2. PICK x, y \in S : x = ordered[i] /\ y = ordered[j]
    BY <1>10
  <2>3. Before(x, y) /\ (x = y \/ Before(y, x))
    BY <2>1, <2>2
  <2> QED BY <2>3, <1>7 DEF Before
<1>13. PICK to : to = [k \in 1..n |-> ordered[k].to]
  OBVIOUS
<1>14. to \in [1..n -> Nat]
  <2>1. \A k \in 1..n : ordered[k].to \in Nat
    BY <1>7, <1>10
  <2> QED BY <2>1, <1>13
<1>15. PICK latest :
         /\ latest = CHOOSE h : h = [k \in 1..(n + 1) |-> IF k = 1 THEN 0
                       ELSE IF ordered[k - 1].to > h[k - 1] THEN ordered[k - 1].to ELSE h[k - 1]]
  OBVIOUS
<1>16. OverlapWarnings(cues) = {ordered[k].id : k \in {j \in 1..n : ordered[j].from < latest[j]}}
  BY <1>10, <1>11, <1>15 DEF OverlapWarnings, S
<1>17. IsLatest(latest, to, n)
  <2>1. \A h : [k \in 1..(n + 1) |-> IF k = 1 THEN 0
                  ELSE IF ordered[k - 1].to > h[k - 1] THEN ordered[k - 1].to ELSE h[k - 1]]
             = [k \in 1..(n + 1) |-> IF k = 1 THEN 0
                  ELSE IF to[k - 1] > h[k - 1] THEN to[k - 1] ELSE h[k - 1]]
    <3> TAKE h
    <3>1. \A k \in 1..(n + 1) : k # 1 => to[k - 1] = ordered[k - 1].to
      <4>1. \A k \in 1..(n + 1) : k # 1 => k - 1 \in 1..n
        OBVIOUS
      <4> QED BY <4>1, <1>13
    <3> QED BY <3>1
  <2> QED BY <2>1, <1>15 DEF IsLatest
<1>18. \A k \in 1..n : /\ latest[k] \in Nat
                       /\ \A j \in 1..(k - 1) : to[j] <= latest[k]
                       /\ latest[k] = 0 \/ \E j \in 1..(k - 1) : latest[k] = to[j]
  <2>1. \A k \in 1..n : latest[k] \in Nat
    BY <1>14, <1>17, LatestEnding
  <2>2. \A k \in 1..n : \A j \in 1..(k - 1) : to[j] <= latest[k]
    BY <1>14, <1>17, LatestEnding
  <2>3. \A k \in 1..n : latest[k] = 0 \/ \E j \in 1..(k - 1) : latest[k] = to[j]
    BY <1>14, <1>17, LatestEnding, SMTT(30)
  <2> QED BY <2>1, <2>2, <2>3
<1>19. \A k \in 1..n : (ordered[k].from < latest[k])
          <=> \E x \in S : Before(x, ordered[k]) /\ ordered[k].from < x.to
  <2> TAKE k \in 1..n
  <2>1. ordered[k] \in S /\ ordered[k].from \in Nat /\ latest[k] \in Nat
    BY <1>7, <1>10, <1>18
  <2>2. ASSUME ordered[k].from < latest[k]
        PROVE  \E x \in S : Before(x, ordered[k]) /\ ordered[k].from < x.to
    <3>1. PICK j \in 1..(k - 1) : latest[k] = to[j]
      BY <2>1, <2>2, <1>18
    <3>2. j \in 1..n /\ j < k
      BY <3>1
    <3> QED BY <3>1, <3>2, <2>2, <1>10, <1>13
  <2>3. ASSUME NEW x \in S, Before(x, ordered[k]), ordered[k].from < x.to
        PROVE  ordered[k].from < latest[k]
    <3>1. PICK j \in 1..n : ordered[j] = x
      BY <1>10
    <3>2. j \in 1..(k - 1)
      <4>1. j < k
        BY <3>1, <2>3, <1>12
      <4> QED BY <4>1
    <3>3. to[j] = x.to /\ to[j] <= latest[k] /\ to[j] \in Nat
      BY <3>1, <3>2, <1>13, <1>14, <1>18
    <3> QED BY <3>3, <2>1, <2>3
  <2> QED BY <2>2, <2>3
<1>20. OverlapWarnings(cues) =
         {c \in D : \E x \in S : Before(x, g[c]) /\ g[c].from < x.to}
  <2>1. ASSUME NEW w \in OverlapWarnings(cues)
        PROVE  w \in D /\ \E x \in S : Before(x, g[w]) /\ g[w].from < x.to
    <3>1. PICK k \in 1..n : ordered[k].from < latest[k] /\ w = ordered[k].id
      BY <1>16
    <3>2. ordered[k] \in S /\ ordered[k] = g[w] /\ w \in D
      BY <3>1, <1>4, <1>10
    <3> QED BY <3>1, <3>2, <1>19
  <2>2. ASSUME NEW c \in D, \E x \in S : Before(x, g[c]) /\ g[c].from < x.to
        PROVE  c \in OverlapWarnings(cues)
    <3>1. PICK k \in 1..n : ordered[k] = g[c]
      BY <1>3, <1>10
    <3>2. ordered[k].from < latest[k]
      BY <3>1, <2>2, <1>19
    <3>3. ordered[k].id = c
      BY <3>1, <1>3
    <3> QED BY <3>2, <3>3, <1>16
  <2> QED BY <2>1, <2>2
<1>21. \A c \in D : (\E x \in S : Before(x, g[c]) /\ g[c].from < x.to)
          <=> \E d \in D : Before(g[d], g[c]) /\ cues[c].from < cues[d].to
  <2> HIDE DEF D
  <2> QED BY <1>3, <1>4
<1>22. \A c \in D : (\E x \in S : Before(x, g[c]) /\ g[c].from < x.to)
          <=> \E d \in D : /\ Before([id |-> d, from |-> cues[d].from, to |-> cues[d].to],
                                   [id |-> c, from |-> cues[c].from, to |-> cues[c].to])
                         /\ cues[c].from < cues[d].to
  <2> HIDE DEF D
  <2> QED BY <1>5, <1>21
<1>23. OverlapWarnings(cues) =
         {c \in D : \E d \in D : /\ Before([id |-> d, from |-> cues[d].from, to |-> cues[d].to],
                                         [id |-> c, from |-> cues[c].from, to |-> cues[c].to])
                               /\ cues[c].from < cues[d].to}
  BY <1>20, <1>22
<1> QED
  BY <1>23 DEF OverlapsAreFound
-----------------------------------------------------------------------------
LEMMA Products ==
  ASSUME NEW b \in Nat, NEW x \in Int, NEW y \in Int, x <= y
  PROVE  x * b <= y * b
<1>1. PICK d \in Nat : y = x + d
  <2>1. y - x \in Nat /\ y = x + (y - x)
    OBVIOUS
  <2> QED BY <2>1
<1>2. (x + d) * b = x * b + d * b
  <2>1. b \in Int /\ x \in Int /\ d \in Int
    OBVIOUS
  <2> QED BY <2>1, SMT
<1>3. d * b \in Nat /\ x * b \in Int
  OBVIOUS
<1> QED
  BY <1>1, <1>2, <1>3

\* Quotient and remainder.
LEMMA Quotient ==
  ASSUME NEW k \in Nat, NEW b \in Nat \ {0}
  PROVE  /\ k \div b \in Nat
         /\ (k \div b) * b <= k
         /\ k < (k \div b) * b + b
<1>1. k \div b \in Int /\ k % b \in 0..(b - 1) /\ k = b * (k \div b) + (k % b)
  <2>1. b \in Int /\ b > 0 /\ k \in Int
    OBVIOUS
  <2>2. k \div b \in Int
    BY <2>1, SMT
  <2>3. k % b \in 0..(b - 1)
    BY <2>1, SMT
  <2>4. k = b * (k \div b) + (k % b)
    BY <2>1, SMT
  <2> QED BY <2>2, <2>3, <2>4
<1>2. PICK q, r \in Int : q = k \div b /\ r = k % b
  BY <1>1
<1>3. b * q = q * b
  BY <1>2, SMT
<1>4. q >= 0
  <2>1. q + 1 > 0
    <3>1. CASE q + 1 <= 0
      <4>1. (q + 1) * b <= 0 * b /\ 0 * b = 0 /\ (q + 1) * b = q * b + b
        BY <3>1, <1>2, Products
      <4> QED BY <4>1, <1>1, <1>2, <1>3
    <3> QED BY <3>1, <1>2
  <2> QED BY <2>1, <1>2
<1> QED
  BY <1>1, <1>2, <1>3, <1>4

LEMMA AudioFits ==
  ASSUME NEW ranges, SourceRanges(ranges), NEW cutFade \in Nat, NEW bed \in Nat \ {0}
  PROVE  AudioFollows(ranges, cutFade, bed)
<1> DEFINE segments == buildAudioDecision(ranges, cutFade)
           D == outputDuration(ranges)
           playback == buildBedPlayback(D, bed)
<1>1. DOMAIN segments = 1..Len(ranges)
  BY RangeFacts DEF buildAudioDecision
<1>2. ASSUME NEW i \in DOMAIN segments
      PROVE  /\ \A k \in segments[i].start..(segments[i].end - 1) :
                  Reel(ranges)[k + 1] = segments[i].from + k - segments[i].start
             /\ 2 * segments[i].fade <= Length(ranges[i])
  <2>1. /\ segments[i].from = ranges[i].from
        /\ segments[i].start = OffsetOf(ranges, i) /\ segments[i].end = OffsetOf(ranges, i + 1)
        /\ segments[i].fade = IF cutFade < Length(ranges[i]) \div 2 THEN cutFade ELSE Length(ranges[i]) \div 2
    BY DEF buildAudioDecision
  <2>2. OffsetOf(ranges, i) \in Nat /\ OffsetOf(ranges, i + 1) \in Nat /\ Length(ranges[i]) \in Nat
    <3>1. PICK n \in Nat : n = Len(ranges)
      BY RangeFacts
    <3>2. i \in 1..n /\ i \in 1..(n + 1) /\ i + 1 \in 1..(n + 1)
      BY <3>1, <1>1
    <3> QED BY <3>1, <3>2, OffsetFacts, RangeFacts
  <2>3. \A k \in segments[i].start..(segments[i].end - 1) :
          Reel(ranges)[k + 1] = segments[i].from + k - segments[i].start
    <3> TAKE k \in segments[i].start..(segments[i].end - 1)
    <3>1. k \in Int /\ OffsetOf(ranges, i) <= k /\ k < OffsetOf(ranges, i + 1)
      BY <2>1, <2>2
    <3>2. Reel(ranges)[k + 1] = ranges[i].from + k - OffsetOf(ranges, i)
      BY <3>1, <1>1, Shown
    <3> QED BY <3>2, <2>1
  <2>4. 2 * segments[i].fade <= Length(ranges[i])
    BY <2>1, <2>2
  <2> QED BY <2>3, <2>4
<1>3. D \in Nat
  BY ReelFacts
<1> HIDE DEF segments, D
<1>4. PICK n \in Nat : n = (D + bed - 1) \div bed /\ D <= n * bed
  <2>1. PICK m \in Nat : m = D + bed - 1
    BY <1>3
  <2>2. m \div bed \in Nat /\ m < (m \div bed) * bed + bed
    BY Quotient
  <2>3. PICK q \in Nat : q = m \div bed
    BY <2>2
  <2>4. q * bed \in Int /\ m < q * bed + bed
    BY <2>2, <2>3
  <2>5. D <= q * bed
    BY <2>1, <2>4, <1>3
  <2> QED BY <2>1, <2>3, <2>5
<1>5. /\ DOMAIN playback = 1..n
      /\ \A p \in 1..n : /\ playback[p].start = (p - 1) * bed
                         /\ playback[p].end = IF p * bed < D THEN p * bed ELSE D
  BY <1>4 DEF buildBedPlayback
<1>6. \A p \in 1..n : p * bed \in Int /\ (p - 1) * bed = p * bed - bed
  OBVIOUS
<1> HIDE DEF playback
<1>7. ASSUME NEW k \in 0..(D - 1)
      PROVE  Cardinality({p \in DOMAIN playback : playback[p].start <= k /\ k < playback[p].end}) = 1
  <2>1. k \in Nat /\ k < D
    BY <1>3
  <2>2. PICK q \in Nat : q * bed \in Int /\ q * bed <= k /\ k < q * bed + bed
    <3>1. k \div bed \in Nat /\ (k \div bed) * bed <= k /\ k < (k \div bed) * bed + bed
      BY <2>1, Quotient
    <3>2. (k \div bed) * bed \in Int
      BY <3>1
    <3> QED BY <3>1, <3>2
  <2>3. PICK w \in Nat : w = q + 1
    OBVIOUS
  <2>4. w * bed = q * bed + bed /\ w * bed \in Int /\ (w - 1) * bed = q * bed
    <3>1. (q + 1) * bed = q * bed + bed
      OBVIOUS
    <3>2. w - 1 = q
      BY <2>3
    <3> QED BY <3>1, <3>2, <2>2, <2>3
  <2>5. w \in 1..n
    <3>1. CASE n <= q
      <4>1. n * bed <= q * bed /\ n * bed \in Int
        BY <3>1, Products
      <4> QED BY <4>1, <2>1, <2>2, <1>3, <1>4
    <3> QED BY <3>1, <2>3
  <2>6. playback[w].start <= k /\ k < playback[w].end
    BY <2>1, <2>2, <2>4, <2>5, <1>5
  <2>7. ASSUME NEW p \in 1..n, playback[p].start <= k, k < playback[p].end PROVE p = w
    <3>1. p * bed \in Int /\ p * bed - bed <= k /\ k < p * bed
      <4>1. p * bed \in Int /\ p * bed - bed <= k
        BY <2>7, <1>5, <1>6
      <4>2. k < p * bed
        BY <4>1, <2>1, <2>7, <1>3, <1>5
      <4> QED BY <4>1, <4>2
    <3>2. CASE p <= q
      <4>1. p * bed <= q * bed
        BY <3>2, Products
      <4> QED BY <4>1, <3>1, <2>2
    <3>3. CASE w + 1 <= p
      <4>1. (w + 1) * bed <= p * bed
        <5>1. w + 1 \in Int
          OBVIOUS
        <5> QED BY <5>1, <3>3, Products
      <4>2. (w + 1) * bed = w * bed + bed
        OBVIOUS
      <4> QED BY <4>1, <4>2, <3>1, <2>2, <2>4
    <3> QED BY <3>2, <3>3, <2>3
  <2>8. {p \in DOMAIN playback : playback[p].start <= k /\ k < playback[p].end} = {w}
    BY <2>5, <2>6, <2>7, <1>5
  <2> QED BY <2>8, FS_Singleton
<1>8. ASSUME NEW p \in DOMAIN playback
      PROVE  playback[p].end - playback[p].start <= bed
  <2>1. p \in 1..n
    BY <1>5
  <2>2. PICK x \in Int : x = p * bed
    BY <2>1, <1>6
  <2>3. playback[p].start = x - bed /\ playback[p].end = IF x < D THEN x ELSE D
    BY <2>1, <2>2, <1>5, <1>6
  <2> QED BY <2>3, <1>3
<1> QED
  BY <1>2, <1>7, <1>8 DEF AudioFollows, segments, D, playback
-----------------------------------------------------------------------------
LEMMA CropsShow ==
  ASSUME NEW ranges, SourceRanges(ranges), NEW samples \in SUBSET Int
  PROVE  CropsFollow(ranges, samples)
<1> DEFINE inside   == {p \in (DOMAIN ranges) \X samples :
                          ranges[p[1]].from <= p[2] /\ p[2] <= ranges[p[1]].to}
           remapped == {[at |-> OffsetOf(ranges, p[1]) + p[2] - ranges[p[1]].from,
                         sample |-> p[2], range |-> p[1]] : p \in inside}
           kept     == {r \in remapped : \A q \in remapped : q.at = r.at => r.range <= q.range}
<1>1. PICK n \in Nat : n = Len(ranges) /\ DOMAIN ranges = 1..n
  BY RangeFacts
<1>2. \A i \in 1..n : /\ ranges[i].from \in Int /\ ranges[i].to \in Int
                      /\ OffsetOf(ranges, i) \in Nat /\ OffsetOf(ranges, i + 1) \in Nat
                      /\ OffsetOf(ranges, i + 1) = OffsetOf(ranges, i) + (ranges[i].to - ranges[i].from)
  <2> TAKE i \in 1..n
  <2>1. i \in 1..(n + 1) /\ i + 1 \in 1..(n + 1)
    OBVIOUS
  <2>2. OffsetOf(ranges, i) \in Nat /\ OffsetOf(ranges, i + 1) \in Nat
    BY <2>1, <1>1, OffsetFacts
  <2>3. OffsetOf(ranges, i + 1) = OffsetOf(ranges, i) + (ranges[i].to - ranges[i].from)
    BY <1>1, OffsetFacts DEF Length
  <2> QED BY <2>2, <2>3, <1>1, RangeFacts
<1>3. \A r \in remapped :
        /\ r.range \in 1..n /\ r.sample \in samples /\ r.sample \in Int
        /\ ranges[r.range].from <= r.sample /\ r.sample <= ranges[r.range].to
        /\ r.at = OffsetOf(ranges, r.range) + r.sample - ranges[r.range].from
        /\ r = [at |-> r.at, sample |-> r.sample, range |-> r.range]
  BY <1>1
<1>4. \A i \in 1..n, s \in samples :
        ranges[i].from <= s /\ s <= ranges[i].to =>
          [at |-> OffsetOf(ranges, i) + s - ranges[i].from, sample |-> s, range |-> i] \in remapped
  <2> TAKE i \in 1..n, s \in samples
  <2> HAVE ranges[i].from <= s /\ s <= ranges[i].to
  <2>1. <<i, s>> \in inside
    BY <1>1
  <2> QED BY <2>1
<1> HIDE DEF remapped
<1>5. kept = remapSamplesToShort(samples, ranges)
  BY DEF remapSamplesToShort, remapped
<1>6. \A r \in kept : r \in remapped /\ \A q \in remapped : q.at = r.at => r.range <= q.range
  OBVIOUS
<1>7. \A r \in remapped : (\A q \in remapped : q.at = r.at => r.range <= q.range) => r \in kept
  OBVIOUS
<1> HIDE DEF kept
<1>8. ASSUME NEW r \in kept, NEW q \in kept, r.at = q.at PROVE r = q
  <2>1. r \in remapped /\ q \in remapped /\ r.range <= q.range /\ q.range <= r.range
    BY <1>6, <1>8
  <2>2. r.range = q.range
    BY <2>1, <1>3
  <2>3. r.sample = q.sample
    <3>1. PICK o, x, s, t \in Int : /\ o = OffsetOf(ranges, r.range) /\ x = ranges[r.range].from
                                   /\ s = r.sample /\ t = q.sample
      BY <2>1, <1>2, <1>3
    <3>2. o + s - x = o + t - x
      BY <3>1, <2>1, <2>2, <1>3, <1>8
    <3> QED BY <3>1, <3>2
  <2> QED BY <2>1, <2>2, <2>3, <1>3, <1>8
<1>9. ASSUME NEW r \in kept
      PROVE  \/ Reel(ranges)[r.at + 1] = r.sample
             \/ r.at = OffsetOf(ranges, r.range + 1) /\ r.sample = ranges[r.range].to
  <2>1. PICK i \in 1..n : i = r.range
    BY <1>3, <1>6
  <2>2. PICK o, e \in Nat, x, y, s, a \in Int :
          /\ o = OffsetOf(ranges, i) /\ e = OffsetOf(ranges, i + 1)
          /\ x = ranges[i].from /\ y = ranges[i].to /\ s = r.sample /\ a = r.at
          /\ x <= s /\ s <= y /\ a = o + s - x /\ e = o + (y - x)
    <3>1. /\ r.sample \in Int /\ ranges[i].from <= r.sample /\ r.sample <= ranges[i].to
          /\ r.at = OffsetOf(ranges, i) + r.sample - ranges[i].from
      BY <2>1, <1>3, <1>6
    <3>2. r.at \in Int
      BY <3>1, <1>2
    <3> QED BY <3>1, <3>2, <1>2
  <2>3. CASE s = y
    BY <2>1, <2>2, <2>3
  <2>4. CASE s # y
    <3>1. o <= a /\ a < e
      BY <2>2, <2>4
    <3>2. Reel(ranges)[a + 1] = ranges[i].from + a - OffsetOf(ranges, i)
      BY <3>1, <2>2, <1>1, Shown
    <3>3. x + a - o = s
      BY <2>2
    <3> QED BY <3>2, <3>3, <2>2
  <2> QED BY <2>3, <2>4
<1>10. ASSUME NEW k \in DOMAIN Reel(ranges), Reel(ranges)[k] \in samples
       PROVE  \E r \in kept : r.at = k - 1
  <2>1. k \in 1..outputDuration(ranges)
    BY ReelFacts
  <2>2. PICK i \in 1..n : OffsetOf(ranges, i) < k /\ k <= OffsetOf(ranges, i + 1)
    BY <2>1, <1>1, Located
  <2>3. PICK o, e \in Nat, x, y \in Int, j \in Int :
          /\ o = OffsetOf(ranges, i) /\ e = OffsetOf(ranges, i + 1)
          /\ x = ranges[i].from /\ y = ranges[i].to /\ e = o + (y - x) /\ j = k - 1 /\ j + 1 = k
    <3>1. k - 1 \in Int /\ (k - 1) + 1 = k
      BY <2>1
    <3> QED BY <3>1, <1>2
  <2>4. o <= j /\ j < e
    BY <2>1, <2>2, <2>3
  <2>5. Reel(ranges)[k] = x + j - o
    <3>1. Reel(ranges)[j + 1] = ranges[i].from + j - OffsetOf(ranges, i)
      BY <2>3, <2>4, <1>1, Shown
    <3> QED BY <3>1, <2>3
  <2>6. PICK s \in samples : s = x + j - o /\ s \in Int
    BY <2>3, <2>5, <1>10
  <2>7. x <= s /\ s <= y /\ o + s - x = j
    BY <2>3, <2>4, <2>6
  <2>8. PICK r \in remapped : r.at = j
    <3>1. [at |-> OffsetOf(ranges, i) + s - ranges[i].from, sample |-> s, range |-> i] \in remapped
      BY <2>3, <2>7, <1>4
    <3> QED BY <3>1, <2>3, <2>7
  <2> DEFINE I == {q.range : q \in {p \in remapped : p.at = j}}
  <2>9. I \in SUBSET Nat /\ I # {}
    BY <2>8, <1>3
  <2>10. PICK m \in I : \A l \in I : m <= l
    <3> HIDE DEF I
    <3> QED BY <2>9, SmallestNat
  <2>11. PICK q \in remapped : q.at = j /\ q.range = m
    BY <2>10
  <2>12. q \in kept
    BY <2>10, <2>11, <1>7
  <2> QED BY <2>3, <2>11, <2>12
<1> QED
  BY <1>5, <1>8, <1>9, <1>10 DEF CropsFollow

(***************************************************************************)
(* One timeline: whatever the ranges, the cues, the samples, the fade and  *)
(* the bed, the playhead, the captions, the audio and the crops of a Short *)
(* mean the same source instant by every instant of its output             *)
(* (editor-state.ts, captions.ts, render-composition.ts, audio.ts and      *)
(* crops.ts, which compute it apart).                                      *)
(***************************************************************************)
THEOREM TimelinesAlwaysAgree ==
  ASSUME NEW ranges, SourceRanges(ranges), NEW cues, Cues(cues),
         NEW samples \in SUBSET Int, NEW cutFade \in Nat, NEW bed \in Nat \ {0}
  PROVE  TimelinesAgree(ranges, cues, samples, cutFade, bed)
<1>1. PlayheadShowsTheRender(ranges)
  BY Playhead
<1>2. CaptionsFollow(ranges, cues)
  <2>1. \A m \in captionFilters(cues, ranges) : \A k \in m.from..(m.to - 1) :
          k + 1 \in DOMAIN Reel(ranges) /\ Reel(ranges)[k + 1] = cues[m.id].from + k - m.from
    BY CaptionsShow DEF captionFilters
  <2> QED BY <2>1, SidecarsHaveAll, OverlapsFound DEF CaptionsFollow
<1>3. AudioFollows(ranges, cutFade, bed)
  BY AudioFits
<1>4. CropsFollow(ranges, samples)
  BY CropsShow
<1> QED
  BY <1>1, <1>2, <1>3, <1>4 DEF TimelinesAgree
-----------------------------------------------------------------------------
(***************************************************************************)
(* CropGeneration.                                                         *)
(***************************************************************************)

Sized == [x : Int, y : Int, w : Nat \ {0}, h : Nat \ {0}]

Box(r) == r \in Sized /\ InSource(r)

Shape(shape) == shape \in [over : 1..Unit, under : 1..Unit]

\* One side of clamp.
LEMMA ClampSide ==
  ASSUME NEW x \in Int, NEW w \in Nat \ {0}
  PROVE  /\ AtMost(Unit, w) \in Nat \ {0} /\ AtMost(Unit, w) <= w /\ AtMost(Unit, w) <= Unit
         /\ AtMost(Unit - AtMost(Unit, w), AtLeast(0, x)) \in Nat
         /\ AtMost(Unit - AtMost(Unit, w), AtLeast(0, x)) + AtMost(Unit, w) <= Unit
         /\ x >= 0 /\ x + w <= Unit =>
              AtMost(Unit, w) = w /\ AtMost(Unit - AtMost(Unit, w), AtLeast(0, x)) = x
         /\ w <= Unit => AtMost(Unit, w) = w
         /\ w >= Unit => AtMost(Unit, w) = Unit
         /\ \A s \in Nat, t \in Nat : x <= s /\ t <= x + w /\ t <= Unit =>
              /\ AtMost(Unit - AtMost(Unit, w), AtLeast(0, x)) <= s
              /\ t <= AtMost(Unit - AtMost(Unit, w), AtLeast(0, x)) + AtMost(Unit, w)
BY UnitAssumption DEF AtMost, AtLeast

LEMMA ClampBox ==
  ASSUME NEW r \in Sized
  PROVE  /\ Box(clamp(r))
         /\ clamp(r).w = AtMost(Unit, r.w) /\ clamp(r).h = AtMost(Unit, r.h)
         /\ Box(r) => clamp(r) = r
         /\ \A s \in Sized : Box(s) /\ Covers(r, s) => Covers(clamp(r), s)
<1>1. PICK x, y \in Int, w, h \in Nat \ {0} : r = [x |-> x, y |-> y, w |-> w, h |-> h]
  BY DEF Sized
<1>2. PICK a, b, c, d \in Int :
        /\ c = AtMost(Unit, w) /\ a = AtMost(Unit - AtMost(Unit, w), AtLeast(0, x))
        /\ d = AtMost(Unit, h) /\ b = AtMost(Unit - AtMost(Unit, h), AtLeast(0, y))
  <2>1. /\ AtMost(Unit, w) \in Int /\ AtMost(Unit - AtMost(Unit, w), AtLeast(0, x)) \in Int
        /\ AtMost(Unit, h) \in Int /\ AtMost(Unit - AtMost(Unit, h), AtLeast(0, y)) \in Int
    BY <1>1, ClampSide
  <2> QED BY <2>1
<1>3. clamp(r) = [x |-> a, y |-> b, w |-> c, h |-> d]
  BY <1>1, <1>2 DEF clamp, Rectangle
<1>4. /\ c \in Nat \ {0} /\ a \in Nat /\ a + c <= Unit
      /\ d \in Nat \ {0} /\ b \in Nat /\ b + d <= Unit
  BY <1>1, <1>2, ClampSide
<1>5. Box(clamp(r))
  BY <1>3, <1>4 DEF Box, Sized, InSource
<1>6. clamp(r).w = AtMost(Unit, r.w) /\ clamp(r).h = AtMost(Unit, r.h)
  BY <1>1, <1>2, <1>3
<1>7. ASSUME Box(r) PROVE clamp(r) = r
  <2>1. x >= 0 /\ x + w <= Unit /\ y >= 0 /\ y + h <= Unit
    BY <1>1, <1>7 DEF Box, InSource
  <2>2. a = x /\ b = y /\ c = w /\ d = h
    BY <2>1, <1>1, <1>2, ClampSide
  <2> QED BY <2>2, <1>1, <1>3
<1>8. ASSUME NEW s \in Sized, Box(s), Covers(r, s) PROVE Covers(clamp(r), s)
  <2>1. PICK e, f, g, i \in Nat : e = s.x /\ f = s.y /\ g = s.x + s.w /\ i = s.y + s.h
    BY <1>8 DEF Box, Sized, InSource
  <2>2. x <= e /\ g <= x + w /\ g <= Unit /\ y <= f /\ i <= y + h /\ i <= Unit
    BY <2>1, <1>1, <1>8 DEF Box, InSource, Covers
  <2>3. a <= e /\ g <= a + c
    <3>1. \A m \in Nat, n \in Nat : x <= m /\ n <= x + w /\ n <= Unit => a <= m /\ n <= a + c
      BY <1>1, <1>2, ClampSide
    <3> QED BY <3>1, <2>1, <2>2
  <2>4. b <= f /\ i <= b + d
    <3>1. \A m \in Nat, n \in Nat : y <= m /\ n <= y + h /\ n <= Unit => b <= m /\ n <= b + d
      BY <1>1, <1>2, ClampSide
    <3> QED BY <3>1, <2>1, <2>2
  <2> QED BY <2>1, <2>3, <2>4, <1>3, <1>4 DEF Covers
<1> QED
  BY <1>5, <1>6, <1>7, <1>8

LEMMA PadBox ==
  ASSUME NEW r, Box(r)
  PROVE  Box(pad(r)) /\ Covers(pad(r), r)
<1>1. PICK x, y \in Int, w, h \in Nat \ {0} : r = [x |-> x, y |-> y, w |-> w, h |-> h]
  BY DEF Box, Sized
<1>2. PICK dx, dy \in Nat : dx = (w * 3) \div 20 /\ dy = (h * 3) \div 20
  <2>1. (w * 3) \div 20 \in Nat /\ (h * 3) \div 20 \in Nat
    BY <1>1
  <2> QED BY <2>1
<1>3. PICK p : p = Rectangle(x - dx, y - dy, w + 2 * dx, h + 2 * dy)
  OBVIOUS
<1>4. p \in Sized /\ Covers(p, r)
  BY <1>1, <1>2, <1>3 DEF Sized, Covers, Rectangle
<1>5. pad(r) = clamp(p)
  BY <1>1, <1>2, <1>3 DEF pad
<1> QED
  BY <1>4, <1>5, ClampBox DEF Box

LEMMA UnionBox ==
  ASSUME NEW S, IsFiniteSet(S), S # {}, \A r \in S : Box(r)
  PROVE  Box(unionRectangles(S))
<1>1. \A r \in S : /\ r.x \in Nat /\ r.y \in Nat /\ r.w \in Nat \ {0} /\ r.h \in Nat \ {0}
                   /\ r.x + r.w <= Unit /\ r.y + r.h <= Unit
                   /\ r.x + r.w \in Nat /\ r.y + r.h \in Nat
  BY DEF Box, Sized, InSource
<1> DEFINE X == {r.x : r \in S}
           Y == {r.y : r \in S}
           R == {r.x + r.w : r \in S}
           B == {r.y + r.h : r \in S}
<1>2. /\ X \in SUBSET Nat /\ X # {} /\ Y \in SUBSET Nat /\ Y # {}
      /\ R \in SUBSET Int /\ R # {} /\ B \in SUBSET Int /\ B # {}
      /\ \A b \in R : b <= Unit
      /\ \A b \in B : b <= Unit
  BY <1>1
<1>3. Min(X) \in X /\ \A b \in X : Min(X) <= b
  <2>1. \E a \in X : \A b \in X : a <= b
    <3> HIDE DEF X
    <3> QED BY <1>2, SmallestNat
  <2> HIDE DEF X
  <2> QED BY <2>1 DEF Min
<1>4. Min(Y) \in Y /\ \A b \in Y : Min(Y) <= b
  <2>1. \E a \in Y : \A b \in Y : a <= b
    <3> HIDE DEF Y
    <3> QED BY <1>2, SmallestNat
  <2> HIDE DEF Y
  <2> QED BY <2>1 DEF Min
<1>5. Max(R) \in R /\ \A b \in R : Max(R) >= b
  <2>1. \E a \in R : \A b \in R : b <= a
    <3> HIDE DEF R
    <3>1. PICK u \in Int : u = Unit
      BY UnitAssumption
    <3> QED BY <1>2, <3>1, Greatest
  <2>2. \E a \in R : \A b \in R : a >= b
    BY <2>1, <1>2
  <2> HIDE DEF R
  <2> QED BY <2>2 DEF Max
<1>6. Max(B) \in B /\ \A b \in B : Max(B) >= b
  <2>1. \E a \in B : \A b \in B : b <= a
    <3> HIDE DEF B
    <3>1. PICK u \in Int : u = Unit
      BY UnitAssumption
    <3> QED BY <1>2, <3>1, Greatest
  <2>2. \E a \in B : \A b \in B : a >= b
    BY <2>1, <1>2
  <2> HIDE DEF B
  <2> QED BY <2>2 DEF Max
<1>7. PICK q \in S : TRUE
  OBVIOUS
<1>8. PICK a, b, c, d \in Int : a = Min(X) /\ b = Min(Y) /\ c = Max(R) /\ d = Max(B)
  <2>1. Min(X) \in Int /\ Min(Y) \in Int /\ Max(R) \in Int /\ Max(B) \in Int
    BY <1>2, <1>3, <1>4, <1>5, <1>6
  <2> QED BY <2>1
<1>9. /\ a >= 0 /\ a <= q.x /\ b >= 0 /\ b <= q.y
      /\ q.x + q.w <= c /\ c <= Unit /\ q.y + q.h <= d /\ d <= Unit
  BY <1>2, <1>3, <1>4, <1>5, <1>6, <1>7, <1>8
<1>10. c - a \in Nat \ {0} /\ d - b \in Nat \ {0} /\ a + (c - a) <= Unit /\ b + (d - b) <= Unit
  <2>1. q.x \in Nat /\ q.y \in Nat /\ q.w \in Nat \ {0} /\ q.h \in Nat \ {0}
    BY <1>1, <1>7
  <2>2. a < c /\ b < d
    BY <2>1, <1>8, <1>9
  <2>3. c - a \in Nat \ {0} /\ d - b \in Nat \ {0} /\ a + (c - a) = c /\ b + (d - b) = d
    BY <2>2, <1>8
  <2> QED BY <2>3, <1>9
<1>11. unionRectangles(S) = [x |-> a, y |-> b, w |-> c - a, h |-> d - b]
  BY <1>8 DEF unionRectangles, Rectangle
<1> QED
  BY <1>8, <1>9, <1>10, <1>11 DEF Box, Sized, InSource

\* The quotient of a product, and what it bounds.
LEMMA Scaled ==
  ASSUME NEW h \in Nat, NEW o \in Nat \ {0}, NEW u \in Nat \ {0}
  PROVE  /\ (h * o) \div u \in Nat
         /\ ((h * o) \div u) * u \in Nat /\ h * o \in Nat
         /\ ((h * o) \div u) * u <= h * o
         /\ h * o < ((h * o) \div u) * u + u
         /\ \A w \in Nat : w * u <= h * o => w <= (h * o) \div u
         /\ \A w \in Nat : h * o < w * u => (h * o) \div u < w
<1>1. PICK k \in Nat : k = h * o
  OBVIOUS
<1>2. PICK q \in Nat : q = k \div u /\ q * u <= k /\ k < q * u + u
  BY <1>1, Quotient
<1>3. q * u \in Nat
  OBVIOUS
<1>4. ASSUME NEW w \in Nat, w * u <= k PROVE w <= q
  <2>1. CASE q + 1 <= w
    <3>1. PICK m \in Int : m = q + 1
      OBVIOUS
    <3>2. m * u <= w * u /\ w * u \in Int
      BY <2>1, <3>1, Products
    <3>3. m * u = q * u + u
      BY <3>1
    <3> QED BY <3>2, <3>3, <1>2, <1>3, <1>4
  <2> QED BY <2>1
<1>5. ASSUME NEW w \in Nat, k < w * u PROVE q < w
  <2>1. CASE w <= q
    <3>1. w * u <= q * u /\ w * u \in Int
      BY <2>1, Products
    <3> QED BY <3>1, <1>2, <1>3, <1>5
  <2> QED BY <2>1
<1> QED
  BY <1>1, <1>2, <1>3, <1>4, <1>5

LEMMA Sizes ==
  ASSUME NEW r, Box(r), NEW shape, Shape(shape)
  PROVE  \E w, h \in 1..Unit :
           /\ Held(Grown(r, shape), shape) = [w |-> w, h |-> h]
           /\ w * shape.under < h * shape.over + shape.over
           /\ h * shape.over < w * shape.under + shape.under
           /\ (w >= r.w /\ h >= r.h) \/ w = Unit \/ h = Unit
<1>1. PICK U \in Nat \ {0} : U = Unit
  BY UnitAssumption
<1>2. PICK o, u \in 1..U : o = shape.over /\ u = shape.under
  BY <1>1 DEF Shape
<1>3. PICK w, h \in 1..U : w = r.w /\ h = r.h
  <2>1. r.w \in Nat \ {0} /\ r.h \in Nat \ {0} /\ r.x \in Int /\ r.y \in Int
    BY DEF Box, Sized
  <2>2. r.w <= Unit /\ r.h <= Unit
    BY <2>1, <1>1 DEF Box, InSource
  <2> QED BY <2>1, <2>2, <1>1
<1>4. /\ o \in Nat \ {0} /\ u \in Nat \ {0} /\ w \in Nat /\ h \in Nat
      /\ w * u \in Nat /\ h * o \in Nat /\ U * u \in Nat /\ U * o \in Nat
      /\ w * u <= U * u /\ h * o <= U * o /\ o <= U * u /\ u <= U * o
  <2>1. o \in Nat \ {0} /\ u \in Nat \ {0} /\ w \in Nat /\ h \in Nat
    OBVIOUS
  <2>2. w * u \in Nat /\ h * o \in Nat /\ U * u \in Nat /\ U * o \in Nat
    BY <2>1
  <2>3. w * u <= U * u /\ h * o <= U * o
    BY <2>1, Products
  <2>4. o <= U * u /\ u <= U * o
    <3>1. PICK one \in Int : one = 1
      OBVIOUS
    <3>2. one * U <= u * U /\ one * U <= o * U
      BY <2>1, <3>1, Products
    <3>3. one * U = U /\ u * U = U * u /\ o * U = U * o
      BY <2>1, <3>1
    <3> QED BY <3>2, <3>3, <2>2
  <2> QED BY <2>1, <2>2, <2>3, <2>4
<1> DEFINE held == Held(Grown(r, shape), shape)
           Good(a, b) == /\ held = [w |-> a, h |-> b] /\ a \in 1..U /\ b \in 1..U
                         /\ a * u < b * o + o /\ b * o < a * u + u
                         /\ (a >= w /\ b >= h) \/ a = U \/ b = U
<1>5. CASE w * u < h * o
  <2>1. PICK W \in Nat : /\ W = (h * o) \div u /\ W * u \in Nat /\ W * u <= h * o
                         /\ h * o < W * u + u /\ w <= W
    BY <1>4, <1>5, Scaled
  <2>2. Grown(r, shape) = [w |-> W, h |-> h]
    BY <2>1, <1>2, <1>3, <1>5 DEF Grown, WidthFor
  <2>3. CASE W <= U
    <3>1. held = [w |-> W, h |-> h]
      BY <2>2, <2>3, <1>1, <1>3 DEF Held
    <3>2. W \in 1..U /\ h \in 1..U
      <4>1. W >= 1
        BY <2>1, <1>4
      <4> QED BY <4>1, <2>1, <2>3
    <3>3. W * u < h * o + o /\ h * o < W * u + u
      BY <2>1, <1>4
    <3>4. Good(W, h)
      <4> HIDE DEF held
      <4> QED BY <3>1, <3>2, <3>3, <2>1, <1>4
    <3> QED BY <3>4, <1>1, <1>2, <1>3
  <2>4. CASE ~(W <= U)
    <3>1. PICK H \in Nat : /\ H = (U * u) \div o /\ H * o \in Nat /\ H * o <= U * u
                           /\ U * u < H * o + o
                           /\ \A x \in Nat : U * u < x * o => H < x
      BY <1>4, Scaled
    <3>2. U * u <= W * u
      <4>1. U \in Int /\ W \in Int /\ U <= W /\ u \in Nat
        BY <2>1, <2>4, <1>4
      <4> QED BY <4>1, Products
    <3>3. H < U
      <4>1. CASE U * u < U * o
        BY <4>1, <3>1
      <4>2. CASE ~(U * u < U * o)
        <5>1. U * u = W * u
          BY <4>2, <3>2, <2>1, <1>4
        <5>2. U + 1 <= W /\ U + 1 \in Int
          BY <2>1, <2>4
        <5>3. (U + 1) * u <= W * u
          BY <5>2, <2>1, <1>4, Products
        <5>4. (U + 1) * u = U * u + u
          BY <1>4
        <5> QED BY <5>1, <5>3, <5>4, <1>4
      <4> QED BY <4>1, <4>2
    <3>4. H # 0
      <4>1. H = 0 => H * o = 0
        BY <1>4
      <4> QED BY <4>1, <3>1, <1>4
    <3>5. held = [w |-> U, h |-> H]
      BY <3>1, <3>3, <2>2, <2>4, <1>1, <1>2 DEF Held, HeightFor
    <3>6. Good(U, H)
      <4>1. U \in 1..U /\ H \in 1..U
        BY <3>1, <3>3, <3>4
      <4>2. U * u < H * o + o /\ H * o < U * u + u
        BY <3>1, <1>4
      <4> HIDE DEF held
      <4> QED BY <4>1, <4>2, <3>5
    <3> QED BY <3>6, <1>1, <1>2, <1>3
  <2> QED BY <2>3, <2>4
<1>6. CASE ~(w * u < h * o)
  <2>1. PICK H \in Nat : /\ H = (w * u) \div o /\ H * o \in Nat /\ H * o <= w * u
                         /\ w * u < H * o + o /\ h <= H
    <3>1. h * o <= w * u
      BY <1>4, <1>6
    <3> QED BY <3>1, <1>4, Scaled
  <2>2. Grown(r, shape) = [w |-> w, h |-> H]
    BY <2>1, <1>2, <1>3, <1>6 DEF Grown, HeightFor
  <2>3. CASE H <= U
    <3>1. held = [w |-> w, h |-> H]
      BY <2>2, <2>3, <1>1, <1>3 DEF Held
    <3>2. w \in 1..U /\ H \in 1..U
      <4>1. H >= 1
        BY <2>1, <1>4
      <4> QED BY <4>1, <2>1, <2>3
    <3>3. w * u < H * o + o /\ H * o < w * u + u
      BY <2>1, <1>4
    <3>4. Good(w, H)
      <4> HIDE DEF held
      <4> QED BY <3>1, <3>2, <3>3, <2>1, <1>4
    <3> QED BY <3>4, <1>1, <1>2, <1>3
  <2>4. CASE ~(H <= U)
    <3>1. PICK W \in Nat : /\ W = (U * o) \div u /\ W * u \in Nat /\ W * u <= U * o
                           /\ U * o < W * u + u
                           /\ \A x \in Nat : U * o < x * u => W < x
      BY <1>4, Scaled
    <3>2. U * o < U * u
      <4>1. U + 1 <= H /\ U + 1 \in Int
        BY <2>1, <2>4
      <4>2. (U + 1) * o <= H * o
        BY <4>1, <2>1, <1>4, Products
      <4>3. (U + 1) * o = U * o + o
        BY <1>4
      <4> QED BY <4>2, <4>3, <2>1, <1>4
    <3>3. W < U
      BY <3>1, <3>2
    <3>4. W # 0
      <4>1. W = 0 => W * u = 0
        BY <1>4
      <4> QED BY <4>1, <3>1, <1>4
    <3>5. held = [w |-> W, h |-> U]
      <4>1. w <= U
        OBVIOUS
      <4> QED BY <4>1, <3>1, <2>2, <2>4, <1>1, <1>2 DEF Held, WidthFor
    <3>6. Good(W, U)
      <4>1. U \in 1..U /\ W \in 1..U
        BY <3>1, <3>3, <3>4
      <4>2. W * u < U * o + o /\ U * o < W * u + u
        BY <3>1, <1>4
      <4> HIDE DEF held
      <4> QED BY <4>1, <4>2, <3>5
    <3> QED BY <3>6, <1>1, <1>2, <1>3
  <2> QED BY <2>3, <2>4
<1> QED
  BY <1>5, <1>6

LEMMA AspectBox ==
  ASSUME NEW r, Box(r), NEW shape, Shape(shape)
  PROVE  LET a == aspectCorrect(r, shape)
         IN  /\ Box(a)
             /\ a.w * shape.under < a.h * shape.over + shape.over
             /\ a.h * shape.over < a.w * shape.under + shape.under
             /\ Covers(a, r) \/ a.w = Unit \/ a.h = Unit
<1>1. PICK w, h \in 1..Unit :
        /\ Held(Grown(r, shape), shape) = [w |-> w, h |-> h]
        /\ w * shape.under < h * shape.over + shape.over
        /\ h * shape.over < w * shape.under + shape.under
        /\ (w >= r.w /\ h >= r.h) \/ w = Unit \/ h = Unit
  BY Sizes
<1>2. w \in Nat \ {0} /\ h \in Nat \ {0} /\ w <= Unit /\ h <= Unit /\ r \in Sized
  BY UnitAssumption DEF Box
<1>3. PICK x, y, rx, ry, rw, rh \in Int :
        /\ rx = r.x /\ ry = r.y /\ rw = r.w /\ rh = r.h
        /\ x = rx + (rw - w) \div 2 /\ y = ry + (rh - h) \div 2
  <2>1. PICK rx, ry, rw, rh \in Int : rx = r.x /\ ry = r.y /\ rw = r.w /\ rh = r.h
    BY <1>2 DEF Sized
  <2>2. rx + (rw - w) \div 2 \in Int /\ ry + (rh - h) \div 2 \in Int
    BY <1>2
  <2> QED BY <2>1, <2>2
<1>4. PICK q : q = [x |-> x, y |-> y, w |-> w, h |-> h]
  OBVIOUS
<1>5. q \in Sized /\ q.w = w /\ q.h = h
  BY <1>2, <1>4 DEF Sized
<1>6. aspectCorrect(r, shape) = clamp(q)
  BY <1>1, <1>3, <1>4 DEF aspectCorrect, Rectangle
<1>7. Box(clamp(q)) /\ clamp(q).w = w /\ clamp(q).h = h
  <2>1. AtMost(Unit, w) = w /\ AtMost(Unit, h) = h
    BY <1>2, UnitAssumption DEF AtMost
  <2> QED BY <2>1, <1>5, ClampBox
<1>8. ASSUME w >= r.w, h >= r.h PROVE Covers(clamp(q), r)
  <2>1. w >= rw /\ h >= rh
    BY <1>3, <1>8
  <2>2. /\ x <= rx /\ x + w >= rx + rw
        /\ y <= ry /\ y + h >= ry + rh
    BY <2>1, <1>2, <1>3
  <2>3. Covers(q, r)
    BY <2>2, <1>3, <1>4 DEF Covers
  <2> QED BY <2>3, <1>2, <1>5, ClampBox
<1> QED
  BY <1>1, <1>6, <1>7, <1>8

LEMMA MixSide ==
  ASSUME NEW p \in Int, NEW r \in Int
  PROVE  \E lost \in 0..19 : mix(p, r) \in Int /\ 20 * mix(p, r) = 13 * p + 7 * r - lost
<1>1. PICK q \in Int : q = ((r - p) * 7) \div 20 /\ 20 * q <= (r - p) * 7 /\ (r - p) * 7 < 20 * q + 20
  OBVIOUS
<1>2. mix(p, r) = p + q
  BY <1>1 DEF mix
<1>3. (r - p) * 7 - 20 * q \in 0..19
  BY <1>1
<1> QED
  BY <1>2, <1>3

LEMMA MixedSide ==
  ASSUME NEW u \in Int, NEW v \in Int, NEW x \in Int, NEW y \in Int, NEW z \in Int,
         20 * v = 13 * x + 7 * y - z
  PROVE  20 * (v * u) = 13 * (x * u) + 7 * (y * u) - z * u
<1>1. (20 * v) * u = (13 * x + 7 * y - z) * u
  OBVIOUS
<1>2. (20 * v) * u = 20 * (v * u)
  BY SMT
<1>3. (13 * x + 7 * y - z) * u = 13 * (x * u) + 7 * (y * u) - z * u
  BY SMT
<1> QED
  BY <1>1, <1>2, <1>3

\* What has the shape of the layer, but for twice the rounding of one crop.
LEMMA MixedBox ==
  ASSUME NEW p, Box(p), NEW r, Box(r), NEW shape, Shape(shape), HasShape(p, shape),
         r.w * shape.under < r.h * shape.over + shape.over,
         r.h * shape.over < r.w * shape.under + shape.under
  PROVE  Box(clamp(Mixed(p, r))) /\ HasShape(clamp(Mixed(p, r)), shape)
<1>1. PICK px, py, rx, ry \in Nat, pw, ph, rw, rh \in Nat \ {0} :
        /\ p = [x |-> px, y |-> py, w |-> pw, h |-> ph]
        /\ r = [x |-> rx, y |-> ry, w |-> rw, h |-> rh]
  <2>1. /\ p.x \in Nat /\ p.y \in Nat /\ p.w \in Nat \ {0} /\ p.h \in Nat \ {0}
        /\ r.x \in Nat /\ r.y \in Nat /\ r.w \in Nat \ {0} /\ r.h \in Nat \ {0}
        /\ p = [x |-> p.x, y |-> p.y, w |-> p.w, h |-> p.h]
        /\ r = [x |-> r.x, y |-> r.y, w |-> r.w, h |-> r.h]
    BY DEF Box, Sized, InSource
  <2> QED BY <2>1
<1>2. /\ px + pw <= Unit /\ py + ph <= Unit /\ rx + rw <= Unit /\ ry + rh <= Unit
      /\ Unit \in Nat
  BY <1>1, UnitAssumption DEF Box, InSource
<1>3. PICK x, y, w, h \in Int : x = mix(px, rx) /\ y = mix(py, ry) /\ w = mix(pw, rw) /\ h = mix(ph, rh)
  <2>1. mix(px, rx) \in Int /\ mix(py, ry) \in Int /\ mix(pw, rw) \in Int /\ mix(ph, rh) \in Int
    BY <1>1, MixSide
  <2> QED BY <2>1
<1>4. Mixed(p, r) = [x |-> x, y |-> y, w |-> w, h |-> h]
  BY <1>1, <1>3 DEF Mixed, Rectangle
<1>5. PICK lx, ly, lw, lh \in 0..19 :
        /\ 20 * x = 13 * px + 7 * rx - lx /\ 20 * y = 13 * py + 7 * ry - ly
        /\ 20 * w = 13 * pw + 7 * rw - lw /\ 20 * h = 13 * ph + 7 * rh - lh
  <2>1. \E l \in 0..19 : 20 * x = 13 * px + 7 * rx - l
    BY <1>3, MixSide
  <2>2. \E l \in 0..19 : 20 * y = 13 * py + 7 * ry - l
    BY <1>3, MixSide
  <2>3. \E l \in 0..19 : 20 * w = 13 * pw + 7 * rw - l
    BY <1>3, MixSide
  <2>4. \E l \in 0..19 : 20 * h = 13 * ph + 7 * rh - l
    BY <1>3, MixSide
  <2>5. PICK lx \in 0..19 : 20 * x = 13 * px + 7 * rx - lx
    BY ONLY <2>1
  <2>6. PICK ly \in 0..19 : 20 * y = 13 * py + 7 * ry - ly
    BY ONLY <2>2
  <2>7. PICK lw \in 0..19 : 20 * w = 13 * pw + 7 * rw - lw
    BY ONLY <2>3
  <2>8. PICK lh \in 0..19 : 20 * h = 13 * ph + 7 * rh - lh
    BY ONLY <2>4
  <2> QED BY ONLY <2>5, <2>6, <2>7, <2>8, Zenon
<1>6. x >= 0 /\ y >= 0 /\ w > 0 /\ h > 0 /\ x + w <= Unit /\ y + h <= Unit
  BY <1>2, <1>5
<1>7. Box(Mixed(p, r)) /\ Mixed(p, r) \in Sized
  BY <1>4, <1>6 DEF Box, Sized, InSource
<1>8. clamp(Mixed(p, r)) = Mixed(p, r)
  BY <1>7, ClampBox
<1>9. PICK o, u \in Nat \ {0} : o = shape.over /\ u = shape.under
  <2>1. shape.over \in Nat \ {0} /\ shape.under \in Nat \ {0}
    BY UnitAssumption DEF Shape
  <2> QED BY <2>1
<1>10. PICK m \in Nat : m = AtLeast(o, u) /\ o <= m /\ u <= m
  BY <1>9 DEF AtLeast
<1>11. PICK a, b, c, d, e, f, s, t \in Int :
         /\ a = pw * u /\ b = ph * o /\ c = rw * u /\ d = rh * o /\ e = w * u /\ f = h * o
         /\ s = lw * u /\ t = lh * o
  <2>1. /\ pw * u \in Int /\ ph * o \in Int /\ rw * u \in Int /\ rh * o \in Int
        /\ w * u \in Int /\ h * o \in Int /\ lw * u \in Int /\ lh * o \in Int
    BY <1>1, <1>3, <1>5, <1>9
  <2> QED BY <2>1
<1>12. 20 * e = 13 * a + 7 * c - s /\ 20 * f = 13 * b + 7 * d - t
  <2>1. u \in Int /\ o \in Int /\ pw \in Int /\ rw \in Int /\ lw \in Int /\ ph \in Int /\ rh \in Int /\ lh \in Int
    OBVIOUS
  <2>2. 20 * (w * u) = 13 * (pw * u) + 7 * (rw * u) - lw * u
    BY <2>1, <1>5, MixedSide
  <2>3. 20 * (h * o) = 13 * (ph * o) + 7 * (rh * o) - lh * o
    BY <2>1, <1>5, MixedSide
  <2> QED BY <2>2, <2>3, <1>11
<1>13. 0 <= s /\ s <= 19 * m /\ 0 <= t /\ t <= 19 * m
  <2>1. PICK zero, top \in Int : zero = 0 /\ top = 19 /\ zero <= lw /\ lw <= top /\ zero <= lh /\ lh <= top
    OBVIOUS
  <2>2. lw \in Int /\ lh \in Int /\ u \in Nat /\ o \in Nat
    OBVIOUS
  <2>3. zero * u <= lw * u /\ lw * u <= top * u /\ zero * o <= lh * o /\ lh * o <= top * o
    BY <2>1, <2>2, Products
  <2>4. zero * u = 0 /\ zero * o = 0 /\ top * u = 19 * u /\ top * o = 19 * o
    BY <2>1, <2>2
  <2> QED BY <2>3, <2>4, <1>10, <1>11
<1>14. -(4 * m) <= a - b /\ a - b <= 4 * m
  BY <1>1, <1>9, <1>10, <1>11 DEF HasShape
<1>15. c < d + o /\ d < c + u
  BY <1>1, <1>9, <1>11
<1>16. -(4 * m) <= e - f /\ e - f <= 4 * m
  BY <1>10, <1>12, <1>13, <1>14, <1>15
<1>17. HasShape(Mixed(p, r), shape)
  BY <1>4, <1>9, <1>10, <1>11, <1>16 DEF HasShape
<1> QED
  BY <1>7, <1>8, <1>17

\* A crop as it comes from aspectCorrect.
Shaped(r, shape) ==
    /\ Box(r)
    /\ r.w * shape.under < r.h * shape.over + shape.over
    /\ r.h * shape.over < r.w * shape.under + shape.under

LEMMA ShapedHasShape ==
  ASSUME NEW shape, Shape(shape), NEW r, Shaped(r, shape)
  PROVE  HasShape(r, shape)
<1>1. PICK o, u \in Nat \ {0} : o = shape.over /\ u = shape.under
  <2>1. shape.over \in Nat \ {0} /\ shape.under \in Nat \ {0}
    BY UnitAssumption DEF Shape
  <2> QED BY <2>1
<1>2. PICK a, b \in Int : a = r.w * u /\ b = r.h * o
  <2>1. r.w \in Int /\ r.h \in Int
    BY DEF Shaped, Box, Sized
  <2>2. r.w * u \in Int /\ r.h * o \in Int
    BY <2>1
  <2> QED BY <2>2
<1>3. a < b + o /\ b < a + u
  BY <1>1, <1>2 DEF Shaped
<1>4. PICK m \in Nat : m = AtLeast(o, u) /\ o <= m /\ u <= m
  BY <1>1 DEF AtLeast
<1>5. -(4 * m) <= a - b /\ a - b <= 4 * m
  BY <1>3, <1>4
<1> QED
  BY <1>1, <1>2, <1>4, <1>5 DEF HasShape

LEMMA Smoothed ==
  ASSUME NEW shape, Shape(shape), NEW n \in Nat \ {0}, NEW rectangles, DOMAIN rectangles = 1..n,
         \A i \in 1..n : Shaped(rectangles[i], shape)
  PROVE  /\ DOMAIN smoothFrames(rectangles) = 1..n
         /\ smoothFrames(rectangles)[1] = rectangles[1]
         /\ \A i \in 1..n : /\ Box(smoothFrames(rectangles)[i])
                            /\ HasShape(smoothFrames(rectangles)[i], shape)
<1> DEFINE V == {r \in Sized : Box(r) /\ HasShape(r, shape)}
           Solution(f) == f = [i \in 1..n |-> IF i = 1 THEN rectangles[1]
                                              ELSE clamp(Mixed(f[i - 1], rectangles[i]))]
<1>1. PICK m \in Nat : n = m + 1
  <2>1. n - 1 \in Nat /\ n = (n - 1) + 1
    OBVIOUS
  <2> QED BY <2>1
<1>2. \A i \in 1..n : Box(rectangles[i]) /\ rectangles[i] \in V
  <2> TAKE i \in 1..n
  <2>1. Shaped(rectangles[i], shape)
    OBVIOUS
  <2> QED BY <2>1, ShapedHasShape DEF Shaped, Box
<1>3. \A i \in 1..m : i + 1 \in 1..n /\ i \in 1..n
  BY <1>1
<1>4. \A i \in 1..n : \A v \in V : clamp(Mixed(v, rectangles[i])) \in V
  <2> TAKE i \in 1..n
  <2> TAKE v \in V
  <2>1. PICK r : r = rectangles[i] /\ Shaped(r, shape)
    OBVIOUS
  <2>2. Box(clamp(Mixed(v, r))) /\ HasShape(clamp(Mixed(v, r)), shape)
    BY <2>1, MixedBox DEF Shaped
  <2> QED BY <2>1, <2>2 DEF Box
<1> HIDE DEF V
<1>5. PICK start \in V : start = rectangles[1]
  BY <1>2
<1>6. PICK step : step = [i \in 1..m |-> [v \in V |-> clamp(Mixed(v, rectangles[i + 1]))]]
  OBVIOUS
<1>7. step \in [1..m -> [V -> V]]
  <2>1. \A i \in 1..m : \A v \in V : clamp(Mixed(v, rectangles[i + 1])) \in V
    BY <1>3, <1>4
  <2>2. \A i \in 1..m : [v \in V |-> clamp(Mixed(v, rectangles[i + 1]))] \in [V -> V]
    BY <2>1
  <2> QED BY <2>2, <1>6
<1>8. PICK f : IsIteration(f, V, m, start, step)
  BY <1>7, Iterates
<1>9. /\ f \in [1..n -> V] /\ f[1] = rectangles[1]
      /\ \A i \in 1..m : f[i + 1] = clamp(Mixed(f[i], rectangles[i + 1]))
  <2>1. f \in [1..n -> V] /\ f[1] = rectangles[1] /\ \A i \in 1..m : f[i + 1] = step[i][f[i]]
    BY <1>1, <1>5, <1>8 DEF IsIteration
  <2>2. \A i \in 1..m : f[i] \in V
    BY <2>1, <1>3
  <2> QED BY <2>1, <2>2, <1>6
<1>10. Solution(f)
  <2>1. \A i \in 1..n : i # 1 => f[i] = clamp(Mixed(f[i - 1], rectangles[i]))
    <3> TAKE i \in 1..n
    <3> HAVE i # 1
    <3>1. PICK j \in 1..m : i = j + 1 /\ j = i - 1
      <4>1. i - 1 \in 1..m /\ i = (i - 1) + 1
        BY <1>1
      <4> QED BY <4>1
    <3> QED BY <3>1, <1>9
  <2> QED BY <2>1, <1>9
<1>11. PICK track : track = CHOOSE g : Solution(g)
  OBVIOUS
<1>12. Solution(track)
  BY <1>10, <1>11
<1>13. smoothFrames(rectangles) = track
  BY <1>11 DEF smoothFrames
<1>14. /\ DOMAIN track = 1..n /\ track[1] = rectangles[1]
       /\ \A i \in 1..m : track[i + 1] = clamp(Mixed(track[i], rectangles[i + 1]))
  <2>1. DOMAIN track = 1..n /\ track[1] = rectangles[1]
    BY <1>12
  <2>2. \A i \in 1..m : track[i + 1] = clamp(Mixed(track[i], rectangles[i + 1]))
    <3> TAKE i \in 1..m
    <3>1. PICK h \in 1..n : h = i + 1 /\ h # 1 /\ h - 1 = i
      <4>1. i + 1 \in 1..n /\ i + 1 # 1 /\ (i + 1) - 1 = i
        BY <1>1
      <4> QED BY <4>1
    <3>2. track[h] = clamp(Mixed(track[h - 1], rectangles[h]))
      BY <3>1, <1>12
    <3> QED BY <3>1, <3>2
  <2> QED BY <2>1, <2>2
<1> HIDE DEF Solution
<1>15. \A i \in 1..n : track[i] \in V
  <2>1. track[1] \in V
    BY <1>2, <1>14
  <2>2. \A i \in 1..m : track[i] \in V => track[i + 1] \in V
    BY <1>3, <1>4, <1>14
  <2>3. \A i \in 1..(m + 1) : track[i] \in V
    BY <2>1, <2>2, Invariantly
  <2> QED BY <2>3, <1>1
<1> QED
  BY <1>13, <1>14, <1>15 DEF V

\* Detections lie in the source (the contract of an analysis sample).
Detected(samples) ==
    /\ Len(samples) \in Nat /\ DOMAIN samples = 1..Len(samples)
    /\ \A i \in DOMAIN samples :
         \A S \in {samples[i].screens, samples[i].people} : IsFiniteSet(S) /\ \A r \in S : Box(r)

LEMMA SeenFacts ==
  ASSUME NEW samples, Detected(samples), NEW target
  PROVE  \E n \in Nat :
           /\ DOMAIN Seen(samples, target) = 1..n
           /\ n = 0 => Seen(samples, target) = <<>>
           /\ \A k \in 1..n : \E i \in DOMAIN samples :
                /\ Seen(samples, target)[k] = samples[i]
                /\ selectObservations(samples[i], target) # {}
<1> DEFINE hits == {i \in DOMAIN samples : selectObservations(samples[i], target) # {}}
           R == {p \in hits \X hits : p[1] < p[2]}
<1>1. IsFiniteSet(hits) /\ hits \in SUBSET Int
  <2>1. PICK m \in Nat : DOMAIN samples = 1..m
    BY DEF Detected
  <2>2. PICK one \in Int : one = 1
    OBVIOUS
  <2>3. m \in Int /\ IsFiniteSet(one..m)
    <3>1. m \in Int
      OBVIOUS
    <3> QED BY <3>1, FS_Interval
  <2>4. hits \in SUBSET (one..m) /\ hits \in SUBSET Int
    BY <2>1, <2>2
  <2> HIDE DEF hits
  <2> QED BY <2>3, <2>4, FS_Subset
<1>2. \A i \in hits : i \in DOMAIN samples /\ selectObservations(samples[i], target) # {}
  OBVIOUS
<1>3. Seen(samples, target) =
        [k \in 1..Cardinality(hits) |-> samples[CHOOSE i \in hits : Cardinality({j \in hits : j < i}) = k - 1]]
  BY DEF Seen
<1> HIDE DEF hits
<1>4. \A x, y \in hits : <<x, y>> \in R <=> x < y
  OBVIOUS
<1>5. IsStrictOrder(R, hits)
  <2> HIDE DEF R
  <2>1. \A x \in hits : ~(x < x)
    BY <1>1
  <2>2. \A x, y \in hits : x # y => x < y \/ y < x
    BY <1>1
  <2>3. \A x, y, z \in hits : x < y /\ y < z => x < z
    BY <1>1
  <2> QED BY <2>1, <2>2, <2>3, <1>4 DEF IsStrictOrder
<1>6. \A x \in hits : RankIn(x, hits, R) = Cardinality({j \in hits : j < x})
  <2> TAKE x \in hits
  <2>1. {j \in hits : <<j, x>> \in R} = {j \in hits : j < x}
    BY <1>4
  <2> QED BY <2>1 DEF RankIn
<1> HIDE DEF R
<1>7. PICK n \in Nat : n = Cardinality(hits)
  BY <1>1, FS_CardinalityType
<1>8. \A k \in 1..n : \E i \in hits : Cardinality({j \in hits : j < i}) = k - 1
  <2>1. \A k \in 1..n : \E i \in hits : RankIn(i, hits, R) = k - 1
    BY <1>1, <1>5, <1>7, Ranked
  <2> QED BY <2>1, <1>6
<1>9. \A k \in 1..n : \E i \in hits : Seen(samples, target)[k] = samples[i]
  <2> TAKE k \in 1..n
  <2>1. (CHOOSE i \in hits : Cardinality({j \in hits : j < i}) = k - 1) \in hits
    BY <1>8
  <2> QED BY <2>1, <1>3, <1>7
<1>10. n = 0 => Seen(samples, target) = <<>>
  <2> HAVE n = 0
  <2>1. 1..n = {}
    OBVIOUS
  <2> QED BY <2>1, <1>3, <1>7
<1>11. DOMAIN Seen(samples, target) = 1..n
  BY <1>3, <1>7
<1> QED
  BY <1>2, <1>9, <1>10, <1>11

(***************************************************************************)
(* An automatic track of crops, for any samples, shape and fineness of the *)
(* grid: every frame is in the source and has the shape of its layer, with *)
(* an error that does not grow with the number of frames, and the first    *)
(* has all that was detected, unless it is as large as the source allows.  *)
(***************************************************************************)
THEOREM CropsAlwaysSound ==
  ASSUME NEW samples, Detected(samples), NEW target, NEW fit, NEW shape, Shape(shape)
  PROVE  CropsAreSound(samples, target, fit, shape)
<1> DEFINE seen == Seen(samples, target)
           track == generateAutomaticCropTrack(samples, target, fit, shape)
           union(k) == unionRectangles(selectObservations(seen[k], target))
           cropped == [k \in DOMAIN seen |-> aspectCorrect(pad(union(k)), shape)]
<1>1. PICK n \in Nat :
        /\ DOMAIN seen = 1..n
        /\ n = 0 => seen = <<>>
        /\ \A k \in 1..n : \E i \in DOMAIN samples :
             seen[k] = samples[i] /\ selectObservations(samples[i], target) # {}
  BY SeenFacts
<1>2. \A r : Box(r) => /\ Shaped(aspectCorrect(r, shape), shape)
                       /\ \/ Covers(aspectCorrect(r, shape), r)
                          \/ aspectCorrect(r, shape).w = Unit
                          \/ aspectCorrect(r, shape).h = Unit
  BY AspectBox DEF Shaped
<1>3. CASE seen = <<>>
  <2>1. track = IF fit = "fit" THEN <<Whole>> ELSE <<aspectCorrect(Whole, shape)>>
    BY <1>3 DEF generateAutomaticCropTrack, fallbackTrack
  <2>2. Box(Whole)
    BY UnitAssumption DEF Box, Sized, InSource, Whole, Rectangle
  <2>3. Box(aspectCorrect(Whole, shape)) /\ HasShape(aspectCorrect(Whole, shape), shape)
    BY <2>2, <1>2, ShapedHasShape DEF Shaped
  <2>4. \A i \in DOMAIN track : InSource(track[i]) /\ (HasShape(track[i], shape) \/ fit = "fit")
    <3>1. CASE fit = "fit"
      <4>1. \A i \in DOMAIN track : track[i] = Whole
        BY <3>1, <2>1
      <4> QED BY <4>1, <3>1, <2>2 DEF Box
    <3>2. CASE fit # "fit"
      <4>1. \A i \in DOMAIN track : track[i] = aspectCorrect(Whole, shape)
        BY <3>2, <2>1
      <4> QED BY <4>1, <2>3 DEF Box
    <3> QED BY <3>1, <3>2
  <2> HIDE DEF seen, track
  <2>5. (\A i \in DOMAIN track :
           InSource(track[i]) /\ (HasShape(track[i], shape) \/ (seen = <<>> /\ fit = "fit")))
    BY <2>4, <1>3
  <2> QED BY <2>5, <1>3 DEF CropsAreSound, seen, track
<1>4. CASE seen # <<>>
  <2>1. n \in Nat \ {0}
    BY <1>1, <1>4
  <2>2. \A k \in 1..n : Box(union(k))
    <3> TAKE k \in 1..n
    <3>1. PICK i \in DOMAIN samples : seen[k] = samples[i] /\ selectObservations(samples[i], target) # {}
      BY <1>1
    <3>2. PICK S : S = selectObservations(samples[i], target)
      OBVIOUS
    <3>3. S \in {samples[i].screens, samples[i].people}
      BY <3>2 DEF selectObservations
    <3>4. IsFiniteSet(S) /\ S # {} /\ \A r \in S : Box(r)
      BY <3>1, <3>2, <3>3 DEF Detected
    <3> QED BY <3>1, <3>2, <3>4, UnionBox
  <2>3. \A k \in 1..n : Box(pad(union(k))) /\ Covers(pad(union(k)), union(k))
    BY <2>2, PadBox
  <2>4. DOMAIN cropped = 1..n /\ \A k \in 1..n : cropped[k] = aspectCorrect(pad(union(k)), shape)
    BY <1>1
  <2>5. track = smoothFrames(cropped)
    BY <1>4 DEF generateAutomaticCropTrack
  <2> HIDE DEF seen, track, cropped, union
  <2>6. \A k \in 1..n : Shaped(cropped[k], shape)
    BY <2>3, <2>4, <1>2
  <2>7. /\ DOMAIN track = 1..n /\ track[1] = cropped[1]
        /\ \A i \in 1..n : Box(track[i]) /\ HasShape(track[i], shape)
    BY <2>1, <2>4, <2>5, <2>6, Smoothed
  <2>8. PICK p, u, a : p = pad(union(1)) /\ u = union(1) /\ a = aspectCorrect(p, shape)
    OBVIOUS
  <2>9. 1 \in 1..n
    BY <2>1
  <2>10. track[1] = a /\ Box(p) /\ Box(u) /\ Covers(p, u) /\ Box(a)
    BY <2>2, <2>3, <2>4, <2>7, <2>8, <2>9
  <2>11. Covers(a, p) \/ a.w = Unit \/ a.h = Unit
    BY <2>8, <2>10, <1>2
  <2>12. Covers(a, p) => Covers(a, u)
    <3> HAVE Covers(a, p)
    <3>1. /\ a.x \in Int /\ a.y \in Int /\ a.w \in Int /\ a.h \in Int
          /\ p.x \in Int /\ p.y \in Int /\ p.w \in Int /\ p.h \in Int
          /\ u.x \in Int /\ u.y \in Int /\ u.w \in Int /\ u.h \in Int
      BY <2>10 DEF Box, Sized
    <3> QED BY <3>1, <2>10 DEF Covers
  <2>13. \A i \in DOMAIN track : InSource(track[i]) /\ HasShape(track[i], shape)
    BY <2>7 DEF Box
  <2>14. Covers(track[1], union(1)) \/ track[1].w = Unit \/ track[1].h = Unit
    BY <2>8, <2>10, <2>11, <2>12
  <2> QED BY <2>13, <2>14 DEF CropsAreSound, seen, track, union
<1> QED
  BY <1>3, <1>4
-----------------------------------------------------------------------------
(***************************************************************************)
(* The filter graph.  A part of it gives the labels G and takes the labels *)
(* T, each once, and takes only inputs, what it has given before, and what *)
(* is in B, given before the part.                                         *)
(***************************************************************************)

Names == {"v", "a", "asset", "episode_source", "episode_segment", "episode_timeline", "episode_layer",
          "canvas", "prepared", "audio_source", "source_audio", "bed_audio", "vout", "aout"}

Labels == Names \X Int \X Int

Lines == [takes : Seq(Labels), gives : Seq(Labels)]

IsColumn(lines, side, S) ==
    /\ \A i \in DOMAIN lines : \A k \in DOMAIN lines[i][side] : lines[i][side][k] \in S
    /\ \A x \in S : \E i \in DOMAIN lines : \E k \in DOMAIN lines[i][side] : lines[i][side][k] = x
    /\ \A i, j \in DOMAIN lines : \A a \in DOMAIN lines[i][side] : \A b \in DOMAIN lines[j][side] :
         lines[i][side][a] = lines[j][side][b] => i = j /\ a = b

Reaches(lines, B) ==
    \A i \in DOMAIN lines : \A k \in DOMAIN lines[i].takes :
        \/ IsInput(lines[i].takes[k])
        \/ lines[i].takes[k] \in B
        \/ \E j \in DOMAIN lines : j < i /\ \E b \in DOMAIN lines[j].gives : lines[j].gives[b] = lines[i].takes[k]

PartOf(lines, B, G, T) ==
    /\ lines \in Seq(Lines)
    /\ IsColumn(lines, "gives", G) /\ IsColumn(lines, "takes", T)
    /\ Reaches(lines, B)

LEMMA ColumnsJoin ==
  ASSUME NEW u \in Seq(Lines), NEW v \in Seq(Lines), NEW side, NEW S, NEW R,
         IsColumn(u, side, S), IsColumn(v, side, R), S \cap R = {}
  PROVE  IsColumn(u \o v, side, S \cup R)
<1>1. PICK w, m, n : w = u \o v /\ m = Len(u) /\ n = Len(v)
  OBVIOUS
<1>2. /\ w \in Seq(Lines) /\ Len(w) = m + n /\ m \in Nat /\ n \in Nat
      /\ \A x \in 1..m : w[x] = u[x]
      /\ \A k \in 1..n : w[m + k] = v[k]
  BY <1>1, Concatenated
<1>3. DOMAIN u = 1..m /\ DOMAIN v = 1..n /\ DOMAIN w = 1..(m + n)
  BY <1>1, <1>2
<1>4. \A i \in DOMAIN w : (i \in 1..m /\ w[i] = u[i]) \/ \E y \in 1..n : i = m + y /\ w[i] = v[y]
  <2> TAKE i \in DOMAIN w
  <2>1. CASE i <= m
    BY <2>1, <1>2, <1>3
  <2>2. CASE ~(i <= m)
    <3>1. i - m \in 1..n /\ i = m + (i - m)
      BY <2>2, <1>2, <1>3
    <3> QED BY <3>1, <1>2
  <2> QED BY <2>1, <2>2
<1>5. /\ \A i \in 1..m : i \in DOMAIN w
      /\ \A y \in 1..n : m + y \in DOMAIN w
  BY <1>2, <1>3
<1>6. \A i \in 1..m : \A a \in DOMAIN u[i][side] : u[i][side][a] \in S
  BY <1>3 DEF IsColumn
<1>7. \A y \in 1..n : \A a \in DOMAIN v[y][side] : v[y][side][a] \in R
  BY <1>3 DEF IsColumn
<1>8. \A i \in DOMAIN w : \A k \in DOMAIN w[i][side] : w[i][side][k] \in S \cup R
  BY <1>4, <1>6, <1>7
<1>9. \A x \in S \cup R : \E i \in DOMAIN w : \E k \in DOMAIN w[i][side] : w[i][side][k] = x
  <2> TAKE x \in S \cup R
  <2>1. CASE x \in S
    <3>1. PICK i \in 1..m : \E k \in DOMAIN u[i][side] : u[i][side][k] = x
      BY <2>1, <1>3 DEF IsColumn
    <3>2. i \in DOMAIN w /\ w[i] = u[i]
      BY <1>2, <1>5
    <3> QED BY <3>1, <3>2
  <2>2. CASE x \in R
    <3>1. PICK y \in 1..n : \E k \in DOMAIN v[y][side] : v[y][side][k] = x
      BY <2>2, <1>3 DEF IsColumn
    <3>2. m + y \in DOMAIN w /\ w[m + y] = v[y]
      BY <1>2, <1>5
    <3> QED BY <3>1, <3>2
  <2> QED BY <2>1, <2>2
<1>10. ASSUME NEW i \in DOMAIN w, NEW j \in DOMAIN w,
              NEW a \in DOMAIN w[i][side], NEW b \in DOMAIN w[j][side], w[i][side][a] = w[j][side][b]
       PROVE  i = j /\ a = b
  <2>1. CASE i \in 1..m /\ w[i] = u[i]
    <3>1. CASE j \in 1..m /\ w[j] = u[j]
      BY <2>1, <3>1, <1>3, <1>10 DEF IsColumn
    <3>2. CASE \E y \in 1..n : j = m + y /\ w[j] = v[y]
      BY <2>1, <3>2, <1>6, <1>7, <1>10
    <3> QED BY <3>1, <3>2, <1>4
  <2>2. CASE \E y \in 1..n : i = m + y /\ w[i] = v[y]
    <3>1. CASE j \in 1..m /\ w[j] = u[j]
      BY <2>2, <3>1, <1>6, <1>7, <1>10
    <3>2. CASE \E y \in 1..n : j = m + y /\ w[j] = v[y]
      <4>1. PICK y \in 1..n : i = m + y /\ w[i] = v[y]
        BY <2>2
      <4>2. PICK z \in 1..n : j = m + z /\ w[j] = v[z]
        BY <3>2
      <4>3. y = z /\ a = b
        BY <4>1, <4>2, <1>3, <1>10 DEF IsColumn
      <4> QED BY <4>1, <4>2, <4>3
    <3> QED BY <3>1, <3>2, <1>4
  <2> QED BY <2>1, <2>2, <1>4
<1>11. \A i, j \in DOMAIN w : \A a \in DOMAIN w[i][side] : \A b \in DOMAIN w[j][side] :
          w[i][side][a] = w[j][side][b] => i = j /\ a = b
  BY ONLY <1>10
<1>12. IsColumn(w, side, S \cup R)
  BY ONLY <1>8, <1>9, <1>11 DEF IsColumn
<1> QED
  BY <1>1, <1>12

LEMMA PartsJoin ==
  ASSUME NEW u, NEW v, NEW B, NEW G, NEW T, NEW H, NEW U,
         PartOf(u, B, G, T), PartOf(v, B \cup G, H, U), G \cap H = {}, T \cap U = {}
  PROVE  PartOf(u \o v, B, G \cup H, T \cup U)
<1>0. u \in Seq(Lines) /\ v \in Seq(Lines)
  BY DEF PartOf
<1>1. PICK w, m, n : w = u \o v /\ m = Len(u) /\ n = Len(v)
  OBVIOUS
<1>2. /\ w \in Seq(Lines) /\ Len(w) = m + n /\ m \in Nat /\ n \in Nat
      /\ \A x \in 1..m : w[x] = u[x]
      /\ \A k \in 1..n : w[m + k] = v[k]
  BY <1>0, <1>1, Concatenated
<1>3. DOMAIN u = 1..m /\ DOMAIN v = 1..n /\ DOMAIN w = 1..(m + n)
  BY <1>0, <1>1, <1>2
<1>4. IsColumn(w, "gives", G \cup H) /\ IsColumn(w, "takes", T \cup U)
  BY <1>0, <1>1, ColumnsJoin DEF PartOf
<1>5. ASSUME NEW i \in DOMAIN w, NEW k \in DOMAIN w[i].takes
      PROVE  \/ IsInput(w[i].takes[k])
             \/ w[i].takes[k] \in B
             \/ \E j \in DOMAIN w : j < i /\ \E b \in DOMAIN w[j].gives : w[j].gives[b] = w[i].takes[k]
  <2>1. CASE i <= m
    <3>1. i \in DOMAIN u /\ w[i] = u[i]
      BY <2>1, <1>2, <1>3
    <3>2. \/ IsInput(u[i].takes[k])
          \/ u[i].takes[k] \in B
          \/ \E j \in DOMAIN u : j < i /\ \E b \in DOMAIN u[j].gives : u[j].gives[b] = u[i].takes[k]
      BY <3>1 DEF PartOf, Reaches
    <3>3. \A j \in DOMAIN u : j \in DOMAIN w /\ w[j] = u[j]
      BY <1>2, <1>3
    <3> QED BY <3>1, <3>2, <3>3
  <2>2. CASE ~(i <= m)
    <3>1. PICK y \in 1..n : i = m + y
      <4>1. i - m \in 1..n /\ i = m + (i - m)
        BY <2>2, <1>2, <1>3
      <4> QED BY <4>1
    <3>2. w[i] = v[y] /\ y \in DOMAIN v
      BY <3>1, <1>2, <1>3
    <3>3. CASE IsInput(v[y].takes[k])
      BY <3>2, <3>3
    <3>4. CASE v[y].takes[k] \in B
      BY <3>2, <3>4
    <3>5. CASE v[y].takes[k] \in G
      <4>1. PICK j \in DOMAIN u : \E b \in DOMAIN u[j]["gives"] : u[j]["gives"][b] = v[y].takes[k]
        BY <3>5 DEF PartOf, IsColumn
      <4>2. j \in DOMAIN w /\ j < i /\ w[j] = u[j]
        BY <2>2, <1>2, <1>3
      <4>3. \E b \in DOMAIN w[j].gives : w[j].gives[b] = w[i].takes[k]
        BY <4>1, <4>2, <3>2
      <4> QED BY <4>2, <4>3
    <3>6. CASE \E j \in DOMAIN v : j < y /\ \E b \in DOMAIN v[j].gives : v[j].gives[b] = v[y].takes[k]
      <4>1. PICK j \in DOMAIN v : j < y /\ \E b \in DOMAIN v[j].gives : v[j].gives[b] = v[y].takes[k]
        BY <3>6
      <4>2. m + j \in DOMAIN w /\ m + j < i /\ w[m + j] = v[j]
        BY <4>1, <3>1, <1>2, <1>3
      <4> QED BY <4>1, <4>2, <3>2
    <3>7. \/ IsInput(v[y].takes[k])
          \/ v[y].takes[k] \in B \cup G
          \/ \E j \in DOMAIN v : j < y /\ \E b \in DOMAIN v[j].gives : v[j].gives[b] = v[y].takes[k]
      BY <3>2 DEF PartOf, Reaches
    <3> QED BY <3>3, <3>4, <3>5, <3>6, <3>7
  <2> QED BY <2>1, <2>2
<1>6. Reaches(w, B)
  BY <1>5 DEF Reaches
<1> QED
  BY <1>1, <1>2, <1>4, <1>6 DEF PartOf

\* A sequence that has each of S once.
Lists(s, S) ==
    /\ s \in Seq(Labels)
    /\ \A k \in DOMAIN s : s[k] \in S
    /\ \A x \in S : \E k \in DOMAIN s : s[k] = x
    /\ \A a, b \in DOMAIN s : s[a] = s[b] => a = b

Numbers(name, n) == {Label(name, k - 1) : k \in 1..n}

LEMMA ListsOfLabels ==
  /\ Lists(<<>>, {})
  /\ \A x \in Labels : Lists(<<x>>, {x})
  /\ \A x, y \in Labels : x # y => Lists(<<x, y>>, {x, y})
<1>1. Lists(<<>>, {})
  BY DEF Lists
<1>2. \A x \in Labels : Lists(<<x>>, {x})
  <2> TAKE x \in Labels
  <2>1. <<x>> \in Seq(Labels) /\ DOMAIN <<x>> = {1} /\ <<x>>[1] = x
    OBVIOUS
  <2> QED BY <2>1 DEF Lists
<1>3. \A x, y \in Labels : x # y => Lists(<<x, y>>, {x, y})
  <2> TAKE x, y \in Labels
  <2> HAVE x # y
  <2>1. PICK s : s = <<x, y>>
    OBVIOUS
  <2>2. s \in Seq(Labels) /\ DOMAIN s = {1, 2} /\ s[1] = x /\ s[2] = y
    BY <2>1
  <2>3. Lists(s, {x, y})
    BY <2>2 DEF Lists
  <2> QED BY <2>1, <2>3
<1> QED
  BY <1>1, <1>2, <1>3

LEMMA LabelsAreLabels ==
  ASSUME NEW name \in Names, NEW n \in Int
  PROVE  /\ Label(name, n) \in Labels
         /\ Label(name, n)[1] = name /\ Label(name, n)[2] = 0 /\ Label(name, n)[3] = n
         /\ Stream(n, name) \in Labels
         /\ Stream(n, name)[1] = name /\ Stream(n, name)[2] = n
<1>1. PICK l : l = <<name, 0, n>>
  OBVIOUS
<1>2. PICK m : m = <<name, n, 0>>
  OBVIOUS
<1>3. l \in Labels /\ m \in Labels
  <2>1. PICK N : N = Names
    OBVIOUS
  <2>2. <<name, 0, n>> \in N \X Int \X Int /\ <<name, n, 0>> \in N \X Int \X Int
    BY <2>1
  <2> QED BY <2>1, <2>2, <1>1, <1>2 DEF Labels
<1>4. l[1] = name /\ l[2] = 0 /\ l[3] = n /\ m[1] = name /\ m[2] = n
  BY <1>1, <1>2
<1>5. Label(name, n) = l /\ Stream(n, name) = m
  BY <1>1, <1>2 DEF Label, Stream
<1> QED
  BY <1>3, <1>4, <1>5

LEMMA NumberedLists ==
  ASSUME NEW name \in Names, NEW n \in Nat
  PROVE  /\ Lists(Numbered(name, n), Numbers(name, n))
         /\ Len(Numbered(name, n)) = n
         /\ \A k \in 1..n : Numbered(name, n)[k] = Label(name, k - 1)
<1>1. PICK s : s = Numbered(name, n)
  OBVIOUS
<1>2. s = [i \in 1..n |-> Label(name, i - 1)]
  BY <1>1 DEF Numbered
<1>3. \A i \in 1..n : Label(name, i - 1) \in Labels /\ Label(name, i - 1)[3] = i - 1
  <2> TAKE i \in 1..n
  <2>1. i - 1 \in Int
    OBVIOUS
  <2> QED BY <2>1, LabelsAreLabels
<1>4. s \in Seq(Labels) /\ Len(s) = n /\ DOMAIN s = 1..n
  <2>1. s \in [1..n -> Labels]
    BY <1>2, <1>3
  <2> QED BY <2>1
<1>5. \A k \in 1..n : s[k] = Label(name, k - 1)
  BY <1>2
<1>6. \A a, b \in 1..n : s[a] = s[b] => a = b
  <2> TAKE a, b \in 1..n
  <2> HAVE s[a] = s[b]
  <2>1. a - 1 = b - 1
    BY <1>3, <1>5
  <2> QED BY <2>1
<1>7. Lists(s, Numbers(name, n))
  BY <1>4, <1>5, <1>6 DEF Lists, Numbers
<1> QED
  BY <1>1, <1>4, <1>5, <1>7

LEMMA NoLines ==
  ASSUME NEW B
  PROVE  PartOf(<<>>, B, {}, {})
<1>1. PICK s : s = <<>>
  OBVIOUS
<1>2. s \in Seq(Lines) /\ DOMAIN s = {}
  BY <1>1
<1>3. PartOf(s, B, {}, {})
  BY <1>2 DEF PartOf, IsColumn, Reaches
<1> QED
  BY <1>1, <1>3

LEMMA OneLine ==
  ASSUME NEW takes, NEW gives, NEW T, NEW G, NEW B, Lists(takes, T), Lists(gives, G),
         \A x \in T : IsInput(x) \/ x \in B
  PROVE  PartOf(<<Line(takes, gives)>>, B, G, T)
<1>1. PICK s : s = <<Line(takes, gives)>>
  OBVIOUS
<1>2. PICK l : l = [takes |-> takes, gives |-> gives]
  OBVIOUS
<1>3. /\ l \in Lines /\ l.takes = takes /\ l.gives = gives
      /\ l["takes"] = takes /\ l["gives"] = gives
  BY <1>2 DEF Lines, Lists
<1>4. s \in Seq(Lines) /\ DOMAIN s = {1} /\ s[1] = l
  BY <1>1, <1>2, <1>3 DEF Line
<1>5. IsColumn(s, "gives", G)
  BY <1>3, <1>4 DEF IsColumn, Lists
<1>6. IsColumn(s, "takes", T)
  BY <1>3, <1>4 DEF IsColumn, Lists
<1>7. Reaches(s, B)
  BY <1>3, <1>4 DEF Reaches, Lists
<1> QED
  BY <1>1, <1>4, <1>5, <1>6, <1>7 DEF PartOf

\* A line for each of a list of labels.
LEMMA LineEach ==
  ASSUME NEW n \in Nat, NEW s, NEW p, NEW S, NEW P, NEW B, Lists(s, S), Lists(p, P), Len(s) = n, Len(p) = n,
         \A x \in S : IsInput(x) \/ x \in B
  PROVE  PartOf([i \in 1..n |-> Line(<<s[i]>>, <<p[i]>>)], B, P, S)
<1>1. PICK w : w = [i \in 1..n |-> Line(<<s[i]>>, <<p[i]>>)]
  OBVIOUS
<1>2. DOMAIN s = 1..n /\ DOMAIN p = 1..n
  BY DEF Lists
<1>3. \A i \in 1..n : s[i] \in Labels /\ p[i] \in Labels
  BY <1>2 DEF Lists
<1>4. \A i \in 1..n : /\ w[i] \in Lines
                      /\ DOMAIN w[i].takes = {1} /\ w[i].takes[1] = s[i]
                      /\ DOMAIN w[i].gives = {1} /\ w[i].gives[1] = p[i]
                      /\ DOMAIN w[i]["takes"] = {1} /\ w[i]["takes"][1] = s[i]
                      /\ DOMAIN w[i]["gives"] = {1} /\ w[i]["gives"][1] = p[i]
  <2> TAKE i \in 1..n
  <2>1. PICK x \in Labels, y \in Labels : x = s[i] /\ y = p[i]
    BY <1>3
  <2>2. w[i] = [takes |-> <<x>>, gives |-> <<y>>]
    BY <1>1, <2>1 DEF Line
  <2>3. <<x>> \in Seq(Labels) /\ DOMAIN <<x>> = {1} /\ <<x>>[1] = x
    OBVIOUS
  <2>4. <<y>> \in Seq(Labels) /\ DOMAIN <<y>> = {1} /\ <<y>>[1] = y
    OBVIOUS
  <2>5. PICK X, Y : X = <<x>> /\ Y = <<y>>
    OBVIOUS
  <2>6. w[i] = [takes |-> X, gives |-> Y] /\ X \in Seq(Labels) /\ Y \in Seq(Labels)
    BY <2>2, <2>3, <2>4, <2>5
  <2>7. w[i] \in Lines
    BY <2>6 DEF Lines
  <2>8. w[i].takes = X /\ w[i].gives = Y /\ w[i]["takes"] = X /\ w[i]["gives"] = Y
    BY <2>6
  <2> QED BY <2>1, <2>3, <2>4, <2>5, <2>7, <2>8
<1>5. w \in Seq(Lines) /\ DOMAIN w = 1..n
  <2>1. w \in [1..n -> Lines]
    BY <1>1, <1>4
  <2> QED BY <2>1
<1>6. IsColumn(w, "gives", P)
  BY <1>2, <1>4, <1>5 DEF IsColumn, Lists
<1>7. IsColumn(w, "takes", S)
  BY <1>2, <1>4, <1>5 DEF IsColumn, Lists
<1>8. Reaches(w, B)
  BY <1>2, <1>4, <1>5 DEF Reaches, Lists
<1> QED
  BY <1>1, <1>5, <1>6, <1>7, <1>8 DEF PartOf

\* A part that takes nothing which is not there is wired.
LEMMA WholeIsWired ==
  ASSUME NEW lines, NEW G, NEW T, PartOf(lines, {}, G, T), G \ T = {Sole("vout"), Sole("aout")}
  PROVE  IsWired(lines)
<1>1. \A g \in Ends(lines, "gives") : \E i \in DOMAIN lines : \E k \in DOMAIN lines[i]["gives"] : g = <<i, k>>
  BY DEF Ends
<1>2. \A i \in DOMAIN lines : \A k \in DOMAIN lines[i]["gives"] : <<i, k>> \in Ends(lines, "gives")
  BY DEF Ends
<1>3. \A t \in Ends(lines, "takes") : \E i \in DOMAIN lines : \E k \in DOMAIN lines[i]["takes"] : t = <<i, k>>
  BY DEF Ends
<1>4. \A i \in DOMAIN lines : \A k \in DOMAIN lines[i]["takes"] : <<i, k>> \in Ends(lines, "takes")
  BY DEF Ends
<1>5. \A side, i, k : LabelAt(lines, side, <<i, k>>) = lines[i][side][k] /\ <<i, k>>[1] = i
  BY DEF LabelAt
<1>6. IsColumn(lines, "gives", G) /\ IsColumn(lines, "takes", T) /\ Reaches(lines, {})
  BY DEF PartOf
<1>7. \A g, h \in Ends(lines, "gives") : LabelAt(lines, "gives", g) = LabelAt(lines, "gives", h) => g = h
  BY <1>1, <1>5, <1>6 DEF IsColumn
<1>8. \A t, u \in Ends(lines, "takes") : LabelAt(lines, "takes", t) = LabelAt(lines, "takes", u) => t = u
  BY <1>3, <1>5, <1>6 DEF IsColumn
<1>9. ASSUME NEW t \in Ends(lines, "takes"), ~IsInput(LabelAt(lines, "takes", t))
      PROVE  \E g \in Ends(lines, "gives") : g[1] < t[1] /\ LabelAt(lines, "gives", g) = LabelAt(lines, "takes", t)
  <2>1. PICK i \in DOMAIN lines : \E k \in DOMAIN lines[i]["takes"] : t = <<i, k>>
    BY <1>3
  <2>2. PICK k \in DOMAIN lines[i]["takes"] : t = <<i, k>>
    BY <2>1
  <2>3. LabelAt(lines, "takes", t) = lines[i]["takes"][k] /\ t[1] = i
    BY <2>2, <1>5
  <2>4. PICK j \in DOMAIN lines : j < i /\ \E b \in DOMAIN lines[j]["gives"] : lines[j]["gives"][b] = lines[i]["takes"][k]
    BY <2>3, <1>6, <1>9 DEF Reaches
  <2>5. PICK b \in DOMAIN lines[j]["gives"] : lines[j]["gives"][b] = lines[i]["takes"][k]
    BY <2>4
  <2>6. <<j, b>> \in Ends(lines, "gives") /\ LabelAt(lines, "gives", <<j, b>>) = lines[j]["gives"][b] /\ <<j, b>>[1] = j
    BY <1>2, <1>5
  <2> QED BY <2>3, <2>4, <2>5, <2>6
<1>10. {LabelAt(lines, "gives", g) : g \in Ends(lines, "gives")} = G
  <2>1. \A g \in Ends(lines, "gives") : LabelAt(lines, "gives", g) \in G
    BY <1>1, <1>5, <1>6 DEF IsColumn
  <2>2. \A x \in G : \E g \in Ends(lines, "gives") : LabelAt(lines, "gives", g) = x
    <3> TAKE x \in G
    <3>1. PICK i \in DOMAIN lines : \E k \in DOMAIN lines[i]["gives"] : lines[i]["gives"][k] = x
      BY <1>6 DEF IsColumn
    <3>2. PICK k \in DOMAIN lines[i]["gives"] : lines[i]["gives"][k] = x
      BY <3>1
    <3>3. <<i, k>> \in Ends(lines, "gives") /\ LabelAt(lines, "gives", <<i, k>>) = x
      BY <3>2, <1>2, <1>5
    <3> QED BY <3>3
  <2> QED BY <2>1, <2>2
<1>11. {LabelAt(lines, "takes", t) : t \in Ends(lines, "takes")} = T
  <2>1. \A t \in Ends(lines, "takes") : LabelAt(lines, "takes", t) \in T
    BY <1>3, <1>5, <1>6 DEF IsColumn
  <2>2. \A x \in T : \E t \in Ends(lines, "takes") : LabelAt(lines, "takes", t) = x
    <3> TAKE x \in T
    <3>1. PICK i \in DOMAIN lines : \E k \in DOMAIN lines[i]["takes"] : lines[i]["takes"][k] = x
      BY <1>6 DEF IsColumn
    <3>2. PICK k \in DOMAIN lines[i]["takes"] : lines[i]["takes"][k] = x
      BY <3>1
    <3>3. <<i, k>> \in Ends(lines, "takes") /\ LabelAt(lines, "takes", <<i, k>>) = x
      BY <3>2, <1>4, <1>5
    <3> QED BY <3>3
  <2> QED BY <2>1, <2>2
<1> QED
  BY <1>7, <1>8, <1>9, <1>10, <1>11 DEF IsWired, OutputLabels

\* A recursive function over 0..n has a solution, and induction over it.
IsRun(f, V, n, start, step) ==
    f \in [0..n -> V] /\ f[0] = start /\ \A k \in 1..n : f[k] = step[k][f[k - 1]]

LEMMA Runs ==
  ASSUME NEW V, NEW n \in Nat, NEW start \in V, NEW step \in [1..n -> [V -> V]]
  PROVE  \E f : IsRun(f, V, n, start, step)
<1>1. PICK g : IsIteration(g, V, n, start, step)
  BY Iterates
<1>2. g \in [1..(n + 1) -> V] /\ g[1] = start /\ \A j \in 1..n : g[j + 1] = step[j][g[j]]
  BY <1>1 DEF IsIteration
<1>3. PICK f : f = [k \in 0..n |-> g[k + 1]]
  OBVIOUS
<1>4. \A k \in 0..n : k + 1 \in 1..(n + 1)
  OBVIOUS
<1>5. f \in [0..n -> V] /\ f[0] = start
  BY <1>2, <1>3, <1>4
<1>6. \A k \in 1..n : f[k] = step[k][f[k - 1]]
  <2> TAKE k \in 1..n
  <2>1. k \in 0..n /\ k - 1 \in 0..n /\ (k - 1) + 1 = k
    OBVIOUS
  <2>2. f[k] = g[k + 1] /\ f[k - 1] = g[k]
    BY <2>1, <1>3
  <2> QED BY <2>2, <1>2
<1> QED
  BY <1>5, <1>6 DEF IsRun

LEMMA Throughout ==
  ASSUME NEW n \in Nat, NEW S, 0 \in S, \A k \in 1..n : k - 1 \in S => k \in S
  PROVE  \A k \in 0..n : k \in S
<1>1. PICK m, R : m = n + 1 /\ R = {j \in 1..m : j - 1 \in S}
  OBVIOUS
<1>2. m \in Nat /\ (m >= 1 => 1 \in R)
  BY <1>1
<1>3. \A i \in 1..m : i \in R /\ i + 1 <= m => i + 1 \in R
  <2> TAKE i \in 1..m
  <2> HAVE i \in R /\ i + 1 <= m
  <2>1. i \in 1..n /\ i - 1 \in S
    BY <1>1
  <2>2. i \in S
    BY <2>1
  <2>3. i + 1 \in 1..m /\ (i + 1) - 1 = i
    BY <1>1
  <2> QED BY <2>2, <2>3, <1>1
<1>4. \A i \in 1..m : i \in R
  BY <1>2, <1>3, Everywhere
<1> QED
  <2> TAKE k \in 0..n
  <2>1. k + 1 \in 1..m /\ (k + 1) - 1 = k
    BY <1>1
  <2> QED BY <2>1, <1>1, <1>4

LayerTypes == {"video", "image", "captions", "text", "blank text", "shape"}

\* A snapshot, with assets of A; those it lists are different.
IsSnapshot(snapshot, A) ==
    /\ "none" \notin A
    /\ snapshot.layers \in Seq([type : LayerTypes, asset : A \cup {"none"}, visible : BOOLEAN])
    /\ snapshot.assets \in Seq(A)
    /\ \A i, j \in DOMAIN snapshot.assets : snapshot.assets[i] = snapshot.assets[j] => i = j
    /\ snapshot.ranges \in Nat \ {0}
    /\ snapshot.graphics \in Seq(BOOLEAN)
    /\ snapshot.cues \in BOOLEAN /\ snapshot.heard \in BOOLEAN

LEMMA SnapshotFacts ==
  ASSUME NEW A, NEW snapshot, IsSnapshot(snapshot, A)
  PROVE  /\ Len(snapshot.layers) \in Nat /\ DOMAIN snapshot.layers = 1..Len(snapshot.layers)
         /\ \A l \in 1..Len(snapshot.layers) :
              /\ snapshot.layers[l].type \in LayerTypes
              /\ snapshot.layers[l].asset \in A \cup {"none"}
              /\ snapshot.layers[l].visible \in BOOLEAN
         /\ Len(snapshot.assets) \in Nat /\ DOMAIN snapshot.assets = 1..Len(snapshot.assets)
         /\ \A i \in 1..Len(snapshot.assets) : snapshot.assets[i] \in A /\ snapshot.assets[i] # "none"
         /\ Len(snapshot.graphics) \in Nat /\ DOMAIN snapshot.graphics = 1..Len(snapshot.graphics)
         /\ \A g \in 1..Len(snapshot.graphics) : snapshot.graphics[g] \in BOOLEAN
<1>1. PICK S : S = [type : LayerTypes, asset : A \cup {"none"}, visible : BOOLEAN]
  OBVIOUS
<1>2. snapshot.layers \in Seq(S) /\ snapshot.assets \in Seq(A) /\ snapshot.graphics \in Seq(BOOLEAN) /\ "none" \notin A
  BY <1>1 DEF IsSnapshot
<1>3. PICK layers, assets, graphics :
        layers = snapshot.layers /\ assets = snapshot.assets /\ graphics = snapshot.graphics
  OBVIOUS
<1>4. Len(layers) \in Nat /\ DOMAIN layers = 1..Len(layers) /\ \A l \in 1..Len(layers) : layers[l] \in S
  BY <1>2, <1>3
<1>5. Len(assets) \in Nat /\ DOMAIN assets = 1..Len(assets) /\ \A l \in 1..Len(assets) : assets[l] \in A
  BY <1>2, <1>3
<1>6. Len(graphics) \in Nat /\ DOMAIN graphics = 1..Len(graphics) /\ \A l \in 1..Len(graphics) : graphics[l] \in BOOLEAN
  <2>1. PICK B : B = BOOLEAN
    OBVIOUS
  <2>2. graphics \in Seq(B)
    BY <2>1, <1>2, <1>3
  <2> QED BY <2>1, <2>2
<1>7. \A s \in S : s.type \in LayerTypes /\ s.asset \in A \cup {"none"} /\ s.visible \in BOOLEAN
  BY <1>1
<1>8. \A l \in 1..Len(layers) : /\ layers[l].type \in LayerTypes /\ layers[l].asset \in A \cup {"none"}
                                /\ layers[l].visible \in BOOLEAN
  BY <1>4, <1>7
<1> QED
  BY <1>2, <1>3, <1>4, <1>5, <1>6, <1>8

UpToIn(S, k) == {l \in 1..k : l \in S}

LEMMA Counted ==
  ASSUME NEW S
  PROVE  /\ \A k \in Nat : IsFiniteSet(UpToIn(S, k)) /\ Cardinality(UpToIn(S, k)) \in Nat
         /\ Cardinality(UpToIn(S, 0)) = 0
         /\ \A k \in Nat \ {0} : k \notin S => UpToIn(S, k) = UpToIn(S, k - 1)
         /\ \A k \in Nat \ {0} : k \in S => Cardinality(UpToIn(S, k)) = Cardinality(UpToIn(S, k - 1)) + 1
         /\ \A n \in Nat : \A k \in 0..n : Cardinality(UpToIn(S, k)) <= Cardinality(UpToIn(S, n))
<1>1. \A k \in Nat : IsFiniteSet(UpToIn(S, k)) /\ Cardinality(UpToIn(S, k)) \in Nat
  <2> TAKE k \in Nat
  <2>1. IsFiniteSet(1..k)
    BY FS_Interval
  <2>2. UpToIn(S, k) \in SUBSET (1..k)
    BY DEF UpToIn
  <2>3. IsFiniteSet(UpToIn(S, k))
    BY <2>1, <2>2, FS_Subset
  <2> QED BY <2>3, FS_CardinalityType
<1>2. Cardinality(UpToIn(S, 0)) = 0
  <2>1. UpToIn(S, 0) = {}
    BY DEF UpToIn
  <2> QED BY <2>1, FS_EmptySet
<1>3. \A k \in Nat \ {0} : k \notin S => UpToIn(S, k) = UpToIn(S, k - 1)
  BY DEF UpToIn
<1>4. \A k \in Nat \ {0} : k \in S => Cardinality(UpToIn(S, k)) = Cardinality(UpToIn(S, k - 1)) + 1
  <2> TAKE k \in Nat \ {0}
  <2> HAVE k \in S
  <2>1. PICK h \in Nat : h = k - 1
    OBVIOUS
  <2>2. UpToIn(S, k) = UpToIn(S, h) \cup {k} /\ k \notin UpToIn(S, h)
    BY <2>1 DEF UpToIn
  <2>3. IsFiniteSet(UpToIn(S, h))
    BY <1>1
  <2>4. Cardinality(UpToIn(S, h) \cup {k}) = Cardinality(UpToIn(S, h)) + 1
    BY <2>2, <2>3, FS_AddElement
  <2> QED BY <2>1, <2>2, <2>4
<1>5. \A n \in Nat : \A k \in 0..n : Cardinality(UpToIn(S, k)) <= Cardinality(UpToIn(S, n))
  <2> TAKE n \in Nat
  <2> TAKE k \in 0..n
  <2>1. UpToIn(S, k) \in SUBSET UpToIn(S, n)
    BY DEF UpToIn
  <2>2. IsFiniteSet(UpToIn(S, n))
    BY <1>1
  <2> QED BY <2>1, <2>2, FS_Subset
<1> QED
  BY <1>1, <1>2, <1>3, <1>4, <1>5

\* The layers that use the i-th asset.
UsersOf(snapshot, i) ==
    {l \in 1..Len(snapshot.layers) :
        UsesAsset(snapshot.layers[l]) /\ snapshot.layers[l].asset = snapshot.assets[i]}

\* The number of labels of the i-th asset, and the labels of one.
UsesOf(snapshot, i) == Cardinality(UpToIn(UsersOf(snapshot, i), Len(snapshot.layers)))

AssetLabelsBelow(i, n) == {<<"asset", i, u - 1>> : u \in 1..n}

LEMMA AssetLabelsAre ==
  ASSUME NEW A, NEW snapshot, IsSnapshot(snapshot, A), NEW i \in 1..Len(snapshot.assets)
  PROVE  /\ Len(AssetLabels(snapshot, i)) = UsesOf(snapshot, i)
         /\ UsesOf(snapshot, i) \in Nat
         /\ \A u \in 1..UsesOf(snapshot, i) : AssetLabels(snapshot, i)[u] = <<"asset", i, u - 1>>
         /\ Lists(AssetLabels(snapshot, i), AssetLabelsBelow(i, UsesOf(snapshot, i)))
         /\ AssetLabels(snapshot, i) = <<>> <=> UsesOf(snapshot, i) = 0
         /\ \A u \in Int : <<"asset", i, u>> \in Labels
<1>1. PICK n : n = Len(snapshot.layers)
  OBVIOUS
<1>2. n \in Nat
  BY <1>1, SnapshotFacts
<1>3. Uses(snapshot, i, n) = UpToIn(UsersOf(snapshot, i), n)
  BY <1>1, <1>2 DEF Uses, UpToIn, UsersOf
<1>4. PICK c : c = UsesOf(snapshot, i)
  OBVIOUS
<1>5. c \in Nat /\ c = Cardinality(Uses(snapshot, i, n))
  BY <1>1, <1>2, <1>3, <1>4, Counted DEF UsesOf
<1>6. PICK s : s = AssetLabels(snapshot, i)
  OBVIOUS
<1>7. s = [use \in 1..c |-> <<"asset", i, use - 1>>]
  BY <1>1, <1>5, <1>6 DEF AssetLabels
<1>8. i \in Int
  BY SnapshotFacts
<1>9. \A u \in Int : <<"asset", i, u>> \in Labels /\ <<"asset", i, u>>[3] = u
  <2> TAKE u \in Int
  <2>1. PICK N, name : N = Names /\ name = "asset"
    OBVIOUS
  <2>2. name \in N
    BY <2>1 DEF Names
  <2>3. <<name, i, u>> \in N \X Int \X Int
    BY <2>2, <1>8
  <2>4. <<name, i, u>>[3] = u
    OBVIOUS
  <2> QED BY <2>1, <2>3, <2>4 DEF Labels
<1>10. \A u \in 1..c : s[u] = <<"asset", i, u - 1>> /\ s[u] \in Labels /\ s[u][3] = u - 1
  <2> TAKE u \in 1..c
  <2>1. s[u] = <<"asset", i, u - 1>> /\ u - 1 \in Int
    BY <1>7
  <2> QED BY <2>1, <1>9
<1>11. s \in Seq(Labels) /\ Len(s) = c /\ DOMAIN s = 1..c
  <2>1. s \in [1..c -> Labels]
    BY <1>7, <1>10
  <2> QED BY <2>1, <1>5
<1>12. \A a, b \in 1..c : s[a] = s[b] => a = b
  <2> TAKE a, b \in 1..c
  <2> HAVE s[a] = s[b]
  <2>1. a - 1 = b - 1
    BY <1>10
  <2> QED BY <2>1
<1>13. Lists(s, AssetLabelsBelow(i, c))
  <2>1. PICK G : G = AssetLabelsBelow(i, c)
    OBVIOUS
  <2>2. \A k \in 1..c : s[k] \in G
    BY <2>1, <1>10 DEF AssetLabelsBelow
  <2>3. \A x \in G : \E k \in 1..c : s[k] = x
    BY <2>1, <1>10 DEF AssetLabelsBelow
  <2>4. Lists(s, G)
    BY <2>2, <2>3, <1>11, <1>12 DEF Lists
  <2> QED BY <2>1, <2>4
<1>14. s = <<>> <=> c = 0
  BY <1>5, <1>11
<1> QED
  BY <1>4, <1>5, <1>6, <1>9, <1>10, <1>11, <1>13, <1>14

\* What the first k assets give and take.
AssetsGive(snapshot, k) == UNION {AssetLabelsBelow(i, UsesOf(snapshot, i)) : i \in 1..k}

AssetsTake(snapshot, k) == {Stream(i, "v") : i \in {j \in 1..k : UsesOf(snapshot, j) # 0}}

LEMMA AssetPart ==
  ASSUME NEW A, NEW snapshot, IsSnapshot(snapshot, A)
  PROVE  PartOf(AssetLines(snapshot), {}, AssetsGive(snapshot, Len(snapshot.assets)),
                AssetsTake(snapshot, Len(snapshot.assets)))
<1>1. PICK n : n = Len(snapshot.assets)
  OBVIOUS
<1>2. n \in Nat
  BY <1>1, SnapshotFacts
<1> DEFINE Of(i) == IF AssetLabels(snapshot, i) = <<>> THEN <<>>
                    ELSE <<Line(<<Stream(i, "v")>>, AssetLabels(snapshot, i))>>
           Solution(f) == f = [i \in 0..n |-> IF i = 0 THEN <<>> ELSE f[i - 1] \o Of(i)]
<1>3. \A i \in 1..n : PartOf(Of(i), AssetsGive(snapshot, i - 1), AssetLabelsBelow(i, UsesOf(snapshot, i)),
                             {x \in {Stream(i, "v")} : UsesOf(snapshot, i) # 0})
  <2> TAKE i \in 1..n
  <2>1. PICK B, labels, c, s : B = AssetsGive(snapshot, i - 1) /\ labels = AssetLabels(snapshot, i)
                               /\ c = UsesOf(snapshot, i) /\ s = Stream(i, "v")
    OBVIOUS
  <2>2. c \in Nat /\ Lists(labels, AssetLabelsBelow(i, c)) /\ (labels = <<>> <=> c = 0)
    BY <1>1, <2>1, AssetLabelsAre
  <2>3. CASE c = 0
    <3>1. Of(i) = <<>>
      BY <2>1, <2>2, <2>3
    <3>2. AssetLabelsBelow(i, c) = {} /\ {x \in {s} : c # 0} = {}
      BY <2>3 DEF AssetLabelsBelow
    <3>3. PartOf(<<>>, B, {}, {})
      BY NoLines
    <3> QED BY <2>1, <3>1, <3>2, <3>3
  <2>4. CASE c # 0
    <3>1. Of(i) = <<Line(<<s>>, labels)>>
      BY <2>1, <2>2, <2>4
    <3>2. {x \in {s} : c # 0} = {s}
      BY <2>4
    <3>3. s \in Labels /\ IsInput(s)
      <4>1. i \in Int /\ "v" \in Names
        BY <1>2 DEF Names
      <4>2. s \in Labels /\ s[1] = "v"
        BY <4>1, <2>1, LabelsAreLabels
      <4> QED BY <4>2 DEF IsInput
    <3>4. Lists(<<s>>, {s})
      BY <3>3, ListsOfLabels
    <3>5. \A x \in {s} : IsInput(x) \/ x \in B
      BY <3>3
    <3>6. PICK takes, T, G : takes = <<s>> /\ T = {s} /\ G = AssetLabelsBelow(i, c)
      OBVIOUS
    <3>7. Lists(takes, T) /\ Lists(labels, G) /\ \A x \in T : IsInput(x) \/ x \in B
      BY <3>4, <3>5, <3>6, <2>2
    <3>8. PartOf(<<Line(takes, labels)>>, B, G, T)
      BY <3>7, OneLine
    <3> QED BY <2>1, <3>1, <3>2, <3>6, <3>8
  <2> QED BY <2>3, <2>4
<1>4. \A i \in 1..n : Of(i) \in Seq(Lines)
  BY <1>3 DEF PartOf
<1> HIDE DEF Of
<1>5. PICK V : V = Seq(Lines)
  OBVIOUS
<1>6. PICK step : step = [i \in 1..n |-> [v \in V |-> v \o Of(i)]]
  OBVIOUS
<1>7. step \in [1..n -> [V -> V]]
  <2>1. \A i \in 1..n : \A v \in V : v \o Of(i) \in V
    <3> TAKE i \in 1..n
    <3> TAKE v \in V
    <3>1. v \in Seq(Lines) /\ Of(i) \in Seq(Lines)
      BY <1>4, <1>5
    <3>2. v \o Of(i) \in Seq(Lines)
      BY <3>1, Concatenated
    <3> QED BY <3>2, <1>5
  <2>2. \A i \in 1..n : [v \in V |-> v \o Of(i)] \in [V -> V]
    BY <2>1
  <2> QED BY <2>2, <1>6
<1>8. PICK none : none = <<>>
  OBVIOUS
<1>9. none \in V
  BY <1>5, <1>8
<1>10. PICK f : IsRun(f, V, n, none, step)
  BY <1>2, <1>7, <1>9, Runs
<1>11. f \in [0..n -> V] /\ f[0] = <<>> /\ \A i \in 1..n : f[i] = f[i - 1] \o Of(i)
  <2>1. f \in [0..n -> V] /\ f[0] = <<>> /\ \A k \in 1..n : f[k] = step[k][f[k - 1]]
    BY <1>8, <1>10 DEF IsRun
  <2>2. \A k \in 1..n : f[k - 1] \in V
    <3> TAKE k \in 1..n
    <3>1. k - 1 \in 0..n
      BY <1>2
    <3> QED BY <3>1, <2>1
  <2> QED BY <2>1, <2>2, <1>6
<1>12. Solution(f)
  <2>1. \A i \in 0..n : f[i] = IF i = 0 THEN <<>> ELSE f[i - 1] \o Of(i)
    <3> TAKE i \in 0..n
    <3>1. i = 0 \/ i \in 1..n
      BY <1>2
    <3> QED BY <3>1, <1>11
  <2> QED BY <2>1, <1>11
<1>13. PICK lines : lines = CHOOSE g : Solution(g)
  OBVIOUS
<1>14. Solution(lines)
  BY <1>12, <1>13
<1>15. AssetLines(snapshot) = lines[n]
  BY <1>1, <1>13 DEF AssetLines, Of
<1>16. lines[0] = <<>> /\ \A i \in 1..n : lines[i] = lines[i - 1] \o Of(i)
  <2>1. 0 \in 0..n /\ \A i \in 1..n : i \in 0..n /\ i # 0
    BY <1>2
  <2> QED BY <2>1, <1>14
<1> HIDE DEF Solution
<1> DEFINE Good(i) == PartOf(lines[i], {}, AssetsGive(snapshot, i), AssetsTake(snapshot, i))
           S == {i \in 0..n : Good(i)}
<1>17. Good(0)
  <2>1. AssetsGive(snapshot, 0) = {} /\ AssetsTake(snapshot, 0) = {}
    BY DEF AssetsGive, AssetsTake
  <2> QED BY <2>1, <1>16, NoLines
<1>18. ASSUME NEW i \in 1..n, Good(i - 1) PROVE Good(i)
  <2>1. PICK u, v, G, T, H, U :
          /\ u = lines[i - 1] /\ v = Of(i)
          /\ G = AssetsGive(snapshot, i - 1) /\ T = AssetsTake(snapshot, i - 1)
          /\ H = AssetLabelsBelow(i, UsesOf(snapshot, i))
          /\ U = {x \in {Stream(i, "v")} : UsesOf(snapshot, i) # 0}
    OBVIOUS
  <2>2. {} \cup G = G
    OBVIOUS
  <2>3. PartOf(u, {}, G, T) /\ PartOf(v, {} \cup G, H, U)
    BY <2>1, <2>2, <1>3, <1>18
  <2>4. \A j \in 1..i : j = i \/ j \in 1..(i - 1)
    BY <1>2
  <2>5. \A j \in 1..(i - 1) : j # i /\ j \in 1..i
    BY <1>2
  <2>6. G \cap H = {}
    <3>1. \A j, a, b, c : <<"asset", j, a>> = <<"asset", b, c>> => j = b
      OBVIOUS
    <3>2. \A x \in G : \E j \in 1..(i - 1), a \in Int : x = <<"asset", j, a>>
      BY <2>1 DEF AssetsGive, AssetLabelsBelow
    <3>3. \A x \in H : \E a \in Int : x = <<"asset", i, a>>
      BY <2>1 DEF AssetLabelsBelow
    <3> QED BY <3>1, <3>2, <3>3, <2>5
  <2>7. T \cap U = {}
    <3>1. \A j, b : Stream(j, "v") = Stream(b, "v") => j = b
      BY DEF Stream
    <3>2. \A x \in T : \E j \in 1..(i - 1) : x = Stream(j, "v")
      BY <2>1 DEF AssetsTake
    <3>3. \A x \in U : x = Stream(i, "v")
      BY <2>1
    <3> QED BY <3>1, <3>2, <3>3, <2>5
  <2>8. PartOf(u \o v, {}, G \cup H, T \cup U)
    BY <2>3, <2>6, <2>7, PartsJoin
  <2>9. AssetsGive(snapshot, i) = G \cup H
    BY <2>1, <2>4, <2>5 DEF AssetsGive
  <2>10. AssetsTake(snapshot, i) = T \cup U
    BY <2>1, <2>4, <2>5 DEF AssetsTake
  <2>11. lines[i] = u \o v
    BY <2>1, <1>16
  <2> QED BY <2>8, <2>9, <2>10, <2>11
<1>19. \A i \in 0..n : i \in S
  <2>1. 0 \in S /\ \A k \in 1..n : k - 1 \in S => k \in S
    <3>1. 0 \in 0..n /\ \A k \in 1..n : k \in 0..n
      BY <1>2
    <3> QED BY <3>1, <1>17, <1>18
  <2> HIDE DEF S
  <2> QED BY <2>1, <1>2, Throughout
<1>20. Good(n)
  <2>1. n \in 0..n
    BY <1>2
  <2> QED BY <2>1, <1>19
<1> QED
  BY <1>1, <1>15, <1>20

\* A label of one of these names.
Named(x, names) == x[1] \in names

LEMMA NumbersAreNamed ==
  ASSUME NEW name \in Names, NEW n \in Nat
  PROVE  /\ \A x \in Numbers(name, n) : x[1] = name /\ x[2] = 0 /\ x[3] >= 0
         /\ Sole(name)[1] = name /\ Sole(name)[3] = -1 /\ Sole(name) \in Labels
<1>1. \A k \in Int : /\ Label(name, k)[1] = name /\ Label(name, k)[2] = 0 /\ Label(name, k)[3] = k
                     /\ Label(name, k) \in Labels
  BY LabelsAreLabels
<1>2. \A x \in Numbers(name, n) : \E k \in 1..n : x = Label(name, k - 1)
  BY DEF Numbers
<1>3. \A x \in Numbers(name, n) : x[1] = name /\ x[2] = 0 /\ x[3] >= 0
  <2> TAKE x \in Numbers(name, n)
  <2>1. PICK k \in 1..n : x = Label(name, k - 1)
    BY <1>2
  <2>2. k - 1 \in Int /\ k - 1 >= 0
    OBVIOUS
  <2> QED BY <2>1, <2>2, <1>1
<1>4. -1 \in Int
  OBVIOUS
<1> QED
  BY <1>1, <1>3, <1>4 DEF Sole

\* A part that takes one input, names of its own, and gives P besides.
IsCut(lines, I, names, P, input) ==
    /\ PartOf(lines, {}, I \cup P, I \cup {input})
    /\ \A x \in I : Named(x, names)

\* A stream of the Episode, split when there are several ranges, and cut.
LEMMA CutPart ==
  ASSUME NEW n \in Nat \ {0}, NEW kind \in {"v", "a"}, NEW a \in Names, NEW b \in Names,
         a # b, kind # a, NEW sources, NEW first, NEW each,
         sources = IF n = 1 THEN <<Stream(0, kind)>> ELSE Numbered(a, n),
         first = IF n > 1 THEN <<Line(<<Stream(0, kind)>>, sources)>> ELSE <<>>,
         each = [i \in 1..n |-> Line(<<sources[i]>>, <<Numbered(b, n)[i]>>)]
  PROVE  \E I : IsCut(first \o each, I, {a}, Numbers(b, n), Stream(0, kind))
<1>1. PICK s, pieces, P : s = Stream(0, kind) /\ pieces = Numbered(b, n) /\ P = Numbers(b, n)
  OBVIOUS
<1>2. s \in Labels /\ IsInput(s) /\ s[1] = kind
  <2>1. 0 \in Int /\ kind \in Names
    BY DEF Names
  <2>2. s \in Labels /\ s[1] = kind
    BY <1>1, <2>1, LabelsAreLabels
  <2> QED BY <2>2 DEF IsInput
<1>3. Lists(<<s>>, {s})
  BY <1>2, ListsOfLabels
<1>4. Lists(pieces, P) /\ Len(pieces) = n
  BY <1>1, NumberedLists
<1>5. \A x \in P : x[1] = b
  BY <1>1, NumbersAreNamed
<1>6. PICK one, S : one = <<s>> /\ S = {s}
  OBVIOUS
<1>7. Lists(one, S) /\ Len(one) = 1 /\ \A x \in S : x = s
  BY <1>3, <1>6
<1>8. CASE n = 1
  <2>1. sources = one
    BY <1>1, <1>6, <1>8
  <2>2. Lists(sources, S) /\ Len(sources) = n /\ \A x \in S : IsInput(x) \/ x \in {}
    BY <2>1, <1>2, <1>7, <1>8
  <2>3. PICK B : B = {}
    OBVIOUS
  <2>4. Lists(sources, S) /\ Len(sources) = n /\ \A x \in S : IsInput(x) \/ x \in B
    BY <2>2
  <2>5. PartOf([i \in 1..n |-> Line(<<sources[i]>>, <<pieces[i]>>)], B, P, S)
    BY <2>4, <1>4, LineEach
  <2>6. PICK w : w = [i \in 1..n |-> Line(<<sources[i]>>, <<pieces[i]>>)]
    OBVIOUS
  <2>7. w \in Seq(Lines)
    BY <2>5, <2>6 DEF PartOf
  <2>8. <<>> \o w = w
    BY <2>7
  <2>9. ~(n > 1)
    BY <1>8
  <2>10. PICK I : I = {}
    OBVIOUS
  <2>11. I \cup P = P /\ I \cup {s} = S
    BY <1>6, <2>10
  <2>12. first \o each = w /\ B = {}
    BY <2>3, <2>6, <2>8, <2>9, <1>1
  <2>13. PartOf(first \o each, {}, I \cup P, I \cup {s})
    BY <2>5, <2>6, <2>11, <2>12
  <2>14. IsCut(first \o each, I, {a}, P, s)
    BY <2>10, <2>13 DEF IsCut
  <2> QED BY <2>14, <1>1
<1>9. CASE n # 1
  <2>1. sources = Numbered(a, n) /\ n > 1
    BY <1>9
  <2>2. PICK I : I = Numbers(a, n)
    OBVIOUS
  <2>3. Lists(sources, I) /\ Len(sources) = n /\ \A x \in I : x[1] = a
    BY <2>1, <2>2, NumberedLists, NumbersAreNamed
  <2>4. PICK B : B = {}
    OBVIOUS
  <2>5. \A x \in S : IsInput(x) \/ x \in B
    BY <1>2, <1>7
  <2>6. PartOf(<<Line(one, sources)>>, B, I, S)
    BY <2>3, <2>5, <1>7, OneLine
  <2>7. PICK C : C = B \cup I
    OBVIOUS
  <2>8. \A x \in I : IsInput(x) \/ x \in C
    BY <2>7
  <2>9. PartOf([i \in 1..n |-> Line(<<sources[i]>>, <<pieces[i]>>)], C, P, I)
    BY <2>3, <2>8, <1>4, LineEach
  <2>10. PICK u, w : u = <<Line(one, sources)>> /\ w = [i \in 1..n |-> Line(<<sources[i]>>, <<pieces[i]>>)]
    OBVIOUS
  <2>11. I \cap P = {} /\ S \cap I = {}
    BY <2>3, <1>2, <1>5, <1>7
  <2>12. PartOf(u, B, I, S) /\ PartOf(w, B \cup I, P, I)
    BY <2>6, <2>7, <2>9, <2>10
  <2>13. PartOf(u \o w, B, I \cup P, S \cup I)
    BY <2>11, <2>12, PartsJoin
  <2>14. S \cup I = I \cup {s}
    BY <1>6
  <2>15. PartOf(u \o w, {}, I \cup P, I \cup {s})
    BY <2>4, <2>13, <2>14
  <2>16. u = first /\ w = each
    BY <2>1, <2>10, <1>1, <1>6
  <2>17. IsCut(first \o each, I, {a}, P, s)
    BY <2>3, <2>15, <2>16 DEF IsCut, Named
  <2> QED BY <2>17, <1>1
<1> QED
  BY <1>8, <1>9

LEMMA EpisodePart ==
  ASSUME NEW A, NEW snapshot, IsSnapshot(snapshot, A), NEW L \in Nat,
         L = Cardinality(EpisodeLayers(snapshot, Len(snapshot.layers)))
  PROVE  \/ EpisodeLines(snapshot) = <<>> /\ Numbers("episode_layer", L) = {}
         \/ \E I : IsCut(EpisodeLines(snapshot), I, {"episode_source", "episode_segment", "episode_timeline"},
                         Numbers("episode_layer", L), Stream(0, "v"))
<1>1. PICK n : n = snapshot.ranges
  OBVIOUS
<1>2. n \in Nat \ {0}
  BY <1>1 DEF IsSnapshot
<1>3. PICK source, segment, timeline, layer :
        /\ source = "episode_source" /\ segment = "episode_segment"
        /\ timeline = "episode_timeline" /\ layer = "episode_layer"
  OBVIOUS
<1>4. PICK sources, pieces, whole, copies :
        /\ sources = IF n = 1 THEN <<Stream(0, "v")>> ELSE Numbered(source, n)
        /\ pieces = Numbered(segment, n)
        /\ whole = IF n = 1 THEN pieces ELSE <<Sole(timeline)>>
        /\ copies = Numbered(layer, L)
  OBVIOUS
<1>5. PICK first, each, joined, last :
        /\ first = (IF n > 1 THEN <<Line(<<Stream(0, "v")>>, sources)>> ELSE <<>>)
        /\ each = [i \in 1..n |-> Line(<<sources[i]>>, <<pieces[i]>>)]
        /\ joined = (IF n > 1 THEN <<Line(pieces, whole)>> ELSE <<>>)
        /\ last = <<Line(whole, copies)>>
  OBVIOUS
<1>6. EpisodeLines(snapshot) = IF L = 0 THEN <<>> ELSE first \o each \o joined \o last
  BY <1>1, <1>3, <1>4, <1>5 DEF EpisodeLines
<1>7. /\ source \in Names /\ segment \in Names /\ timeline \in Names /\ layer \in Names
      /\ source # segment /\ source # timeline /\ source # layer /\ segment # timeline
      /\ segment # layer /\ timeline # layer
  BY <1>3 DEF Names
<1>8. PICK s, t : s = Stream(0, "v") /\ t = Sole(timeline)
  OBVIOUS
<1>9. s[1] = "v" /\ t[1] = timeline /\ t \in Labels
  <2>1. s[1] = "v"
    BY <1>8 DEF Stream
  <2>2. 0 \in Nat
    OBVIOUS
  <2> QED BY <2>1, <2>2, <1>7, <1>8, NumbersAreNamed
<1>10. CASE L = 0
  <2>1. EpisodeLines(snapshot) = <<>>
    BY <1>6, <1>10
  <2>2. Numbers("episode_layer", L) = {}
    BY <1>10 DEF Numbers
  <2> QED BY <2>1, <2>2
<1>11. CASE L # 0
  <2>1. PICK kind, zero : kind = "v" /\ zero = {}
    OBVIOUS
  <2>2. kind \in {"v", "a"} /\ kind # source /\ kind # segment /\ kind # timeline
    BY <2>1, <1>3
  <2>3. /\ sources = IF n = 1 THEN <<Stream(0, kind)>> ELSE Numbered(source, n)
        /\ first = IF n > 1 THEN <<Line(<<Stream(0, kind)>>, sources)>> ELSE <<>>
        /\ each = [i \in 1..n |-> Line(<<sources[i]>>, <<Numbered(segment, n)[i]>>)]
    BY <2>1, <1>4, <1>5
  <2>4. \E I : IsCut(first \o each, I, {source}, Numbers(segment, n), Stream(0, kind))
    BY <2>2, <2>3, <1>2, <1>7, CutPart
  <2>5. PICK P, C : P = Numbers(segment, n) /\ C = Numbers(layer, L)
    OBVIOUS
  <2>6. PICK I : IsCut(first \o each, I, {source}, P, s)
    BY <2>1, <2>4, <2>5, <1>8
  <2>7. Lists(pieces, P) /\ (\A x \in P : x[1] = segment) /\ Lists(copies, C) /\ (\A x \in C : x[1] = layer)
    BY <2>5, <1>2, <1>4, <1>7, NumberedLists, NumbersAreNamed
  <2>8. PICK cut : cut = first \o each
    OBVIOUS
  <2>9. PartOf(cut, zero, I \cup P, I \cup {s}) /\ \A x \in I : x[1] = source
    BY <2>1, <2>6, <2>8 DEF IsCut, Named
  <2>10. PICK W, B : W = {t} /\ B = I \cup P
    OBVIOUS
  <2>11. Lists(<<t>>, W)
    BY <2>10, <1>9, ListsOfLabels
  <2>12. PICK names : names = {source, segment, timeline}
    OBVIOUS
  <2>13. PICK J : J = IF n = 1 THEN I \cup P ELSE (I \cup P) \cup W
    OBVIOUS
  <2>14. \A x \in J : Named(x, names)
    BY <2>7, <2>9, <2>10, <2>12, <2>13, <1>9 DEF Named
  <2>15. zero \cup B = B
    BY <2>1
  <2>16. PartOf(first \o each \o joined \o last, zero, J \cup C, J \cup {s})
    <3>1. CASE n = 1
      <4>1. joined = <<>> /\ whole = pieces
        BY <3>1, <1>4, <1>5
      <4>2. cut \in Seq(Lines)
        BY <2>9 DEF PartOf
      <4>3. cut \o <<>> = cut
        BY <4>2
      <4>4. \A x \in P : IsInput(x) \/ x \in B
        BY <2>10
      <4>5. PartOf(<<Line(pieces, copies)>>, B, C, P)
        BY <4>4, <2>7, OneLine
      <4>6. PartOf(last, zero \cup B, C, P)
        BY <4>1, <4>5, <2>15, <1>5
      <4>7. B \cap C = {} /\ (I \cup {s}) \cap P = {}
        BY <2>2, <2>7, <2>9, <2>1, <2>10, <1>7, <1>9
      <4>8. PICK T : T = I \cup {s}
        OBVIOUS
      <4>9. PartOf(cut, zero, B, T) /\ T \cap P = {}
        BY <4>7, <4>8, <2>9, <2>10
      <4>10. PartOf(cut \o last, zero, B \cup C, T \cup P)
        BY <4>6, <4>7, <4>9, PartsJoin
      <4>11. T \cup P = J \cup {s} /\ B = J
        BY <4>8, <3>1, <2>10, <2>13
      <4> QED BY <4>1, <4>3, <4>10, <4>11, <2>8
    <3>2. CASE n # 1
      <4>1. n > 1 /\ whole = <<t>> /\ joined = <<Line(pieces, whole)>>
        BY <3>2, <1>2, <1>4, <1>5, <1>8
      <4>2. \A x \in P : IsInput(x) \/ x \in B
        BY <2>10
      <4>3. Lists(whole, W)
        BY <4>1, <2>11
      <4>4. PartOf(<<Line(pieces, whole)>>, B, W, P)
        BY <4>2, <4>3, <2>7, OneLine
      <4>5. PICK T, D : T = I \cup {s} /\ D = B \cup W
        OBVIOUS
      <4>6. B \cap W = {} /\ T \cap P = {}
        BY <4>5, <2>1, <2>2, <2>7, <2>9, <2>10, <1>7, <1>9
      <4>7. PartOf(cut, zero, B, T) /\ PartOf(joined, zero \cup B, W, P)
        BY <4>1, <4>4, <4>5, <2>9, <2>10, <2>15
      <4>8. PartOf(cut \o joined, zero, B \cup W, T \cup P)
        BY <4>6, <4>7, PartsJoin
      <4>9. PICK both, U : both = cut \o joined /\ U = T \cup P
        OBVIOUS
      <4>10. PartOf(both, zero, D, U)
        BY <4>5, <4>8, <4>9
      <4>11. \A x \in W : IsInput(x) \/ x \in D
        BY <4>5
      <4>12. PartOf(<<Line(whole, copies)>>, D, C, W)
        BY <4>3, <4>11, <2>7, OneLine
      <4>13. PartOf(last, zero \cup D, C, W)
        <5>1. zero \cup D = D
          BY <2>1
        <5> QED BY <5>1, <4>12, <1>5
      <4>14. D \cap C = {}
        BY <4>5, <2>7, <2>9, <2>10, <1>7, <1>9
      <4>15. U \cap W = {}
        BY <4>5, <4>9, <2>1, <2>2, <2>7, <2>9, <2>10, <1>7, <1>9
      <4>16. PartOf(both \o last, zero, D \cup C, U \cup W)
        BY <4>10, <4>13, <4>14, <4>15, PartsJoin
      <4>17. D = J /\ U \cup W = J \cup {s}
        BY <4>5, <4>9, <3>2, <2>10, <2>13
      <4> QED BY <4>9, <4>16, <4>17, <2>8
    <3> QED BY <3>1, <3>2
  <2>17. IsCut(EpisodeLines(snapshot), J, names, C, s)
    BY <2>1, <2>14, <2>16, <1>6, <1>11 DEF IsCut
  <2> QED BY <2>5, <2>12, <2>17, <1>3, <1>8
<1> QED
  BY <1>10, <1>11

LEMMA ListsJoin ==
  ASSUME NEW s, NEW S, NEW t, NEW T, Lists(s, S), Lists(t, T), S \cap T = {}
  PROVE  Lists(s \o t, S \cup T)
<1>1. PICK w, m, n : w = s \o t /\ m = Len(s) /\ n = Len(t)
  OBVIOUS
<1>2. s \in Seq(Labels) /\ t \in Seq(Labels)
  BY DEF Lists
<1>3. /\ w \in Seq(Labels) /\ Len(w) = m + n /\ m \in Nat /\ n \in Nat
      /\ \A x \in 1..m : w[x] = s[x]
      /\ \A k \in 1..n : w[m + k] = t[k]
  BY <1>1, <1>2, Concatenated
<1>4. DOMAIN s = 1..m /\ DOMAIN t = 1..n /\ DOMAIN w = 1..(m + n)
  BY <1>1, <1>2, <1>3
<1>5. \A i \in DOMAIN w : (i \in 1..m /\ w[i] = s[i]) \/ \E y \in 1..n : i = m + y /\ w[i] = t[y]
  <2> TAKE i \in DOMAIN w
  <2>1. CASE i <= m
    BY <2>1, <1>3, <1>4
  <2>2. CASE ~(i <= m)
    <3>1. i - m \in 1..n /\ i = m + (i - m)
      BY <2>2, <1>3, <1>4
    <3> QED BY <3>1, <1>3
  <2> QED BY <2>1, <2>2
<1>6. (\A i \in 1..m : i \in DOMAIN w) /\ \A y \in 1..n : m + y \in DOMAIN w
  BY <1>3, <1>4
<1>7. \A k \in DOMAIN w : w[k] \in S \cup T
  BY <1>4, <1>5 DEF Lists
<1>8. \A x \in S \cup T : \E k \in DOMAIN w : w[k] = x
  <2> TAKE x \in S \cup T
  <2>1. CASE x \in S
    BY <2>1, <1>3, <1>4, <1>6 DEF Lists
  <2>2. CASE x \in T
    <3>1. PICK y \in 1..n : t[y] = x
      BY <2>2, <1>4 DEF Lists
    <3> QED BY <3>1, <1>3, <1>6
  <2> QED BY <2>1, <2>2
<1>9. \A a, b \in DOMAIN w : w[a] = w[b] => a = b
  <2> TAKE a, b \in DOMAIN w
  <2> HAVE w[a] = w[b]
  <2>1. (\A i \in 1..m : s[i] \in S) /\ (\A i \in 1..n : t[i] \in T)
    BY <1>4 DEF Lists
  <2>2. CASE a \in 1..m /\ w[a] = s[a]
    <3>1. b \in 1..m /\ w[b] = s[b]
      BY <2>1, <2>2, <1>5
    <3> QED BY <2>2, <3>1, <1>4 DEF Lists
  <2>3. CASE \E y \in 1..n : a = m + y /\ w[a] = t[y]
    <3>1. \E z \in 1..n : b = m + z /\ w[b] = t[z]
      BY <2>1, <2>3, <1>5
    <3>2. PICK y \in 1..n : a = m + y /\ w[a] = t[y]
      BY <2>3
    <3>3. PICK z \in 1..n : b = m + z /\ w[b] = t[z]
      BY <3>1
    <3>4. y = z
      BY <3>2, <3>3, <1>4 DEF Lists
    <3> QED BY <3>2, <3>3, <3>4
  <2> QED BY <2>2, <2>3, <1>5
<1>10. Lists(w, S \cup T)
  BY <1>3, <1>7, <1>8, <1>9 DEF Lists
<1> QED
  BY <1>1, <1>10

\* A part that gives P besides what it takes, and takes inputs of sound.
IsSound(lines, I, names, P, X) ==
    /\ PartOf(lines, {}, I \cup P, I \cup X)
    /\ \A x \in I : x \notin P /\ Named(x, names)
    /\ \A x \in X : x[1] = "a"

\* The sound of the Episode, in one label.
LEMMA SourceSound ==
  ASSUME NEW n \in Nat \ {0}, NEW sources, NEW pieces, NEW first, NEW each, NEW joined,
         sources = IF n = 1 THEN <<Stream(0, "a")>> ELSE Numbered("audio_source", n),
         pieces = Numbered("source_audio", n),
         first = IF n > 1 THEN <<Line(<<Stream(0, "a")>>, sources)>> ELSE <<>>,
         each = [i \in 1..n |-> Line(<<sources[i]>>, <<pieces[i]>>)],
         joined = <<Line(pieces, <<Sole("source_audio")>>)>>
  PROVE  \E I : IsSound(first \o each \o joined, I, {"audio_source", "source_audio"},
                       {Sole("source_audio")}, {Stream(0, "a")})
<1>1. PICK kind, source, audio, zero : kind = "a" /\ source = "audio_source" /\ audio = "source_audio" /\ zero = {}
  OBVIOUS
<1>2. source \in Names /\ audio \in Names /\ source # audio /\ kind # source /\ kind # audio /\ kind \in {"v", "a"}
  BY <1>1 DEF Names
<1>3. PICK s, t, P : s = Stream(0, "a") /\ t = Sole(audio) /\ P = Numbers(audio, n)
  OBVIOUS
<1>4. s[1] = kind /\ t[1] = audio /\ t[3] = -1 /\ t \in Labels
  <2>1. s[1] = kind
    BY <1>1, <1>3 DEF Stream
  <2>2. 0 \in Nat
    OBVIOUS
  <2> QED BY <2>1, <2>2, <1>2, <1>3, NumbersAreNamed
<1>5. Lists(pieces, P) /\ \A x \in P : x[1] = audio /\ x[3] >= 0
  BY <1>1, <1>2, <1>3, NumberedLists, NumbersAreNamed
<1>6. /\ sources = IF n = 1 THEN <<Stream(0, kind)>> ELSE Numbered(source, n)
      /\ first = IF n > 1 THEN <<Line(<<Stream(0, kind)>>, sources)>> ELSE <<>>
      /\ each = [i \in 1..n |-> Line(<<sources[i]>>, <<Numbered(audio, n)[i]>>)]
  BY <1>1
<1>7. \E I : IsCut(first \o each, I, {source}, Numbers(audio, n), Stream(0, kind))
  BY <1>2, <1>6, CutPart
<1>8. PICK I : IsCut(first \o each, I, {source}, P, s)
  BY <1>1, <1>3, <1>7
<1>9. PICK cut, B, T, W : cut = first \o each /\ B = I \cup P /\ T = I \cup {s} /\ W = {t}
  OBVIOUS
<1>10. PartOf(cut, zero, B, T) /\ \A x \in I : x[1] = source
  BY <1>1, <1>8, <1>9 DEF IsCut, Named
<1>11. Lists(<<t>>, W) /\ (\A x \in P : IsInput(x) \/ x \in B)
  BY <1>4, <1>9, ListsOfLabels
<1>12. PartOf(joined, zero \cup B, W, P)
  <2>1. PICK gives : gives = <<t>>
    OBVIOUS
  <2>2. PartOf(<<Line(pieces, gives)>>, B, W, P)
    BY <2>1, <1>5, <1>11, OneLine
  <2>3. zero \cup B = B /\ joined = <<Line(pieces, gives)>>
    BY <2>1, <1>1, <1>3
  <2> QED BY <2>2, <2>3
<1>13. B \cap W = {}
  <2>1. t \notin P /\ t \notin I
    BY <1>2, <1>4, <1>5, <1>10
  <2> QED BY <2>1, <1>9
<1>14. T \cap P = {}
  BY <1>2, <1>4, <1>5, <1>9, <1>10
<1>15. PartOf(cut \o joined, zero, B \cup W, T \cup P)
  BY <1>10, <1>12, <1>13, <1>14, PartsJoin
<1>16. PICK J : J = I \cup P
  OBVIOUS
<1>17. B \cup W = J \cup {t} /\ T \cup P = J \cup {s}
  BY <1>9, <1>16
<1>18. \A x \in J : x \notin {t} /\ Named(x, {source, audio})
  BY <1>2, <1>4, <1>5, <1>10, <1>16 DEF Named
<1>19. \A x \in {s} : x[1] = "a"
  BY <1>1, <1>4
<1>20. IsSound(first \o each \o joined, J, {source, audio}, {t}, {s})
  BY <1>1, <1>9, <1>15, <1>17, <1>18, <1>19 DEF IsSound
<1> QED
  BY <1>1, <1>3, <1>20

LEMMA AudioPart ==
  ASSUME NEW A, NEW snapshot, IsSnapshot(snapshot, A)
  PROVE  \E I, X : IsSound(AudioLines(snapshot), I, {"audio_source", "source_audio", "bed_audio"}, {Sole("aout")}, X)
<1>1. PICK n, inputs : n = snapshot.ranges /\ inputs = InputOf(snapshot, snapshot.bed)
  OBVIOUS
<1>2. n \in Nat \ {0}
  BY <1>1 DEF IsSnapshot
<1>3. PICK sources, pieces :
        /\ sources = IF n = 1 THEN <<Stream(0, "a")>> ELSE Numbered("audio_source", n)
        /\ pieces = Numbered("source_audio", n)
  OBVIOUS
<1>4. PICK first, each, joined :
        /\ first = (IF n > 1 THEN <<Line(<<Stream(0, "a")>>, sources)>> ELSE <<>>)
        /\ each = [i \in 1..n |-> Line(<<sources[i]>>, <<pieces[i]>>)]
        /\ joined = <<Line(pieces, <<Sole("source_audio")>>)>>
  OBVIOUS
<1>5. PICK t, b, o, zero : t = Sole("source_audio") /\ b = Sole("bed_audio") /\ o = Sole("aout") /\ zero = {}
  OBVIOUS
<1>6. /\ t[1] = "source_audio" /\ b[1] = "bed_audio" /\ o[1] = "aout"
      /\ t \in Labels /\ b \in Labels /\ o \in Labels
  <2>1. 0 \in Nat /\ "source_audio" \in Names /\ "bed_audio" \in Names /\ "aout" \in Names
    BY DEF Names
  <2> QED BY <2>1, <1>5, NumbersAreNamed
<1>7. PICK k : k = CHOOSE i \in inputs : TRUE
  OBVIOUS
<1>8. PICK source, bed, audible, last :
        /\ source = IF ~snapshot.heard THEN <<>> ELSE first \o each \o joined
        /\ bed = IF inputs = {} THEN <<>> ELSE <<Line(<<Stream(k, "a")>>, <<b>>)>>
        /\ audible = (IF snapshot.heard THEN <<t>> ELSE <<>>) \o (IF inputs = {} THEN <<>> ELSE <<b>>)
        /\ last = <<Line(audible, <<o>>)>>
  OBVIOUS
<1>9. AudioLines(snapshot) = source \o bed \o last
  BY <1>1, <1>3, <1>4, <1>5, <1>7, <1>8 DEF AudioLines
<1>10. PICK SA, SX, BA, BX :
         /\ SA = IF snapshot.heard THEN {t} ELSE {}
         /\ SX = IF snapshot.heard THEN {Stream(0, "a")} ELSE {}
         /\ BA = IF inputs = {} THEN {} ELSE {b}
         /\ BX = IF inputs = {} THEN {} ELSE {Stream(k, "a")}
  OBVIOUS
<1>11. PICK heard, tune : /\ heard = (IF snapshot.heard THEN <<t>> ELSE <<>>)
                          /\ tune = (IF inputs = {} THEN <<>> ELSE <<b>>)
  OBVIOUS
<1>12. Lists(heard, SA) /\ Lists(tune, BA)
  BY <1>6, <1>10, <1>11, ListsOfLabels
<1>23. PICK names : names = {"audio_source", "source_audio"}
  OBVIOUS
<1>13. \E I : IsSound(source, I, names, SA, SX)
  <2>1. CASE ~snapshot.heard
    <3>1. PartOf(<<>>, {}, {}, {})
      BY NoLines
    <3>2. PICK I : I = {}
      OBVIOUS
    <3>3. source = <<>> /\ SA = {} /\ SX = {} /\ I \cup SA = {} /\ I \cup SX = {}
      BY <2>1, <3>2, <1>8, <1>10
    <3>4. IsSound(source, I, names, SA, SX)
      BY <3>1, <3>2, <3>3 DEF IsSound
    <3> QED BY <3>4
  <2>2. CASE snapshot.heard
    <3>1. \E I : IsSound(first \o each \o joined, I, {"audio_source", "source_audio"},
                        {Sole("source_audio")}, {Stream(0, "a")})
      BY <1>2, <1>3, <1>4, SourceSound
    <3>2. source = first \o each \o joined /\ SA = {Sole("source_audio")} /\ SX = {Stream(0, "a")}
      BY <2>2, <1>5, <1>8, <1>10
    <3> QED BY <3>1, <3>2, <1>23
  <2> QED BY <2>1, <2>2
<1>14. PICK I : IsSound(source, I, names, SA, SX)
  BY <1>13
<1>15. inputs # {} => k \in Int /\ k >= 1
  <2>1. PICK m : m = Len(snapshot.assets)
    OBVIOUS
  <2>2. inputs \in SUBSET (1..m) /\ m \in Nat
    BY <1>1, <2>1, SnapshotFacts DEF InputOf
  <2>3. inputs # {} => k \in inputs
    BY <1>7
  <2>4. \A i \in inputs : i \in Int /\ i >= 1
    BY <2>2
  <2> QED BY <2>3, <2>4
<1>16. (\A x \in BX : x[1] = "a" /\ x[2] >= 1 /\ IsInput(x)) /\ \A x \in SX : x[1] = "a" /\ x[2] = 0
  BY <1>10, <1>15 DEF Stream, IsInput
<1>17. \A B : PartOf(bed, B, BA, BX)
  <2> TAKE B
  <2>1. CASE inputs = {}
    BY <2>1, <1>8, <1>10, NoLines
  <2>2. CASE inputs # {}
    <3>1. PICK s : s = Stream(k, "a")
      OBVIOUS
    <3>2. s \in Labels /\ IsInput(s)
      <4>1. k \in Int /\ "a" \in Names
        BY <2>2, <1>15 DEF Names
      <4>2. s \in Labels /\ s[1] = "a"
        BY <4>1, <3>1, LabelsAreLabels
      <4> QED BY <4>2 DEF IsInput
    <3>3. Lists(<<s>>, {s}) /\ Lists(<<b>>, {b})
      BY <3>2, <1>6, ListsOfLabels
    <3>4. PICK takes, gives, T, G : takes = <<s>> /\ gives = <<b>> /\ T = {s} /\ G = {b}
      OBVIOUS
    <3>5. Lists(takes, T) /\ Lists(gives, G) /\ \A x \in T : IsInput(x) \/ x \in B
      BY <3>2, <3>3, <3>4
    <3>6. PartOf(<<Line(takes, gives)>>, B, G, T)
      BY <3>5, OneLine
    <3>7. bed = <<Line(takes, gives)>> /\ BA = G /\ BX = T
      BY <2>2, <3>1, <3>4, <1>8, <1>10
    <3> QED BY <3>6, <3>7
  <2> QED BY <2>1, <2>2
<1>18. PICK G, T : G = I \cup SA /\ T = I \cup SX
  OBVIOUS
<1>19. PartOf(source, zero, G, T) /\ (\A x \in I : Named(x, names)) /\ PartOf(bed, zero \cup G, BA, BX)
  BY <1>5, <1>14, <1>17, <1>18 DEF IsSound
<1>20. \A x \in I : x[1] # "a" /\ x[1] # "aout" /\ x[1] # "bed_audio"
  BY <1>19, <1>23 DEF Named
<1>21. PICK J, X, S, W, T1 : J = I \cup SA \cup BA /\ X = SX \cup BX /\ S = SA \cup BA /\ W = {o} /\ T1 = T \cup BX
  OBVIOUS
<1>22. \A x \in SA \cup BA : x[1] # "a" /\ x[1] # "aout" /\ (x \in SA => x[1] = "source_audio")
                           /\ (x \in BA => x[1] = "bed_audio")
  BY <1>6, <1>10
<1>24. SA \cap BA = {} /\ G \cap BA = {} /\ T \cap BX = {}
  BY <1>16, <1>18, <1>20, <1>22
<1>25. PartOf(source \o bed, zero, G \cup BA, T \cup BX)
  BY <1>19, <1>24, PartsJoin
<1>26. PICK both, GB : both = source \o bed /\ GB = G \cup BA
  OBVIOUS
<1>27. PartOf(both, zero, GB, T1)
  BY <1>21, <1>25, <1>26
<1>28. Lists(audible, S)
  <2>1. Lists(heard \o tune, SA \cup BA)
    BY <1>12, <1>24, ListsJoin
  <2> QED BY <2>1, <1>8, <1>11, <1>21
<1>29. \A x \in S : IsInput(x) \/ x \in GB
  BY <1>18, <1>21, <1>26
<1>30. PartOf(last, zero \cup GB, W, S)
  <2>1. PICK gives : gives = <<o>>
    OBVIOUS
  <2>2. Lists(<<o>>, {o})
    BY <1>6, ListsOfLabels
  <2>3. Lists(gives, W)
    BY <2>1, <2>2, <1>21
  <2>4. PartOf(<<Line(audible, gives)>>, GB, W, S)
    BY <2>3, <1>28, <1>29, OneLine
  <2>5. zero \cup GB = GB /\ last = <<Line(audible, gives)>>
    BY <2>1, <1>5, <1>8
  <2> QED BY <2>4, <2>5
<1>31. \A x \in I : x \notin SA
  BY <1>14 DEF IsSound
<1>32. GB \cap W = {}
  BY <1>6, <1>18, <1>20, <1>21, <1>22, <1>26
<1>33. T1 \cap S = {}
  BY <1>16, <1>18, <1>20, <1>21, <1>22, <1>31
<1>34. PartOf(both \o last, zero, GB \cup W, T1 \cup S)
  BY <1>27, <1>30, <1>32, <1>33, PartsJoin
<1>35. GB \cup W = J \cup {o} /\ T1 \cup S = J \cup X
  BY <1>18, <1>21, <1>26
<1>36. PICK all : all = {"audio_source", "source_audio", "bed_audio"}
  OBVIOUS
<1>37. \A x \in J : x \notin {o} /\ Named(x, all)
  BY <1>6, <1>19, <1>20, <1>21, <1>22, <1>23, <1>36 DEF Named
<1>38. \A x \in X : x[1] = "a"
  BY <1>16, <1>21
<1>39. IsSound(AudioLines(snapshot), J, all, {o}, X)
  BY <1>5, <1>9, <1>26, <1>34, <1>35, <1>37, <1>38 DEF IsSound
<1> QED
  BY <1>5, <1>36, <1>39

\* The lines drawn so far end in the canvas c, have taken T from outside,
\* and what else they gave they took: canvases and preparations before c.
IsDrawing(lines, c, B, T) ==
    \E I : /\ PartOf(lines, B, I \cup {Canvas(c)}, I \cup T)
           /\ \A x \in I : Named(x, {"canvas", "prepared"}) /\ x[3] \in Int /\ x[3] < c

\* Labels that the drawing of layers takes and never gives.
Outside(T) == \A x \in T : x \in Labels /\ ~Named(x, {"canvas", "prepared"})

LEMMA CanvasIs ==
  ASSUME NEW c \in Nat
  PROVE  /\ Canvas(c) \in Labels /\ Canvas(c)[1] = "canvas" /\ Canvas(c)[3] = c
         /\ Label("prepared", c) \in Labels
         /\ Label("prepared", c)[1] = "prepared" /\ Label("prepared", c)[3] = c
<1>1. "canvas" \in Names /\ "prepared" \in Names /\ c \in Int
  BY DEF Names
<1> QED
  BY <1>1, LabelsAreLabels DEF Canvas

\* A drawing and lines that take its canvas, R of the outside and what they
\* give themselves, and leave the next canvas.
LEMMA DrawingGoesOn ==
  ASSUME NEW lines, NEW c \in Nat, NEW B, NEW T, IsDrawing(lines, c, B, T), Outside(T),
         NEW more, NEW P, NEW R, Outside(R), T \cap R = {},
         PartOf(more, B \cup {Canvas(c)}, P \cup {Canvas(c + 1)}, P \cup {Canvas(c)} \cup R),
         \A x \in P : x[1] = "prepared" /\ x[3] = c
  PROVE  IsDrawing(lines \o more, c + 1, B, T \cup R)
<1>1. PICK I : /\ PartOf(lines, B, I \cup {Canvas(c)}, I \cup T)
               /\ \A x \in I : Named(x, {"canvas", "prepared"}) /\ x[3] \in Int /\ x[3] < c
  BY DEF IsDrawing
<1>2. PICK G, U, H, W : /\ G = I \cup {Canvas(c)} /\ U = I \cup T
                        /\ H = P \cup {Canvas(c + 1)} /\ W = P \cup {Canvas(c)} \cup R
  OBVIOUS
<1>3. /\ Canvas(c)[1] = "canvas" /\ Canvas(c)[3] = c
      /\ Canvas(c + 1)[1] = "canvas" /\ Canvas(c + 1)[3] = c + 1
  BY CanvasIs
<1>4. \A x \in I : x[3] \in Int /\ x[3] < c /\ (x[1] = "canvas" \/ x[1] = "prepared")
  BY <1>1 DEF Named
<1>5. \A x \in T \cup R : x[1] # "canvas" /\ x[1] # "prepared"
  BY DEF Outside, Named
<1>6. G \cap H = {}
  BY <1>2, <1>3, <1>4
<1>7. U \cap W = {}
  BY <1>2, <1>3, <1>4, <1>5
<1>8. PartOf(more, B \cup G, H, W)
  <2>1. B \cup {Canvas(c)} \subseteq B \cup G
    BY <1>2
  <2>2. Reaches(more, B \cup {Canvas(c)}) => Reaches(more, B \cup G)
    BY <2>1 DEF Reaches
  <2> QED BY <2>2, <1>2 DEF PartOf
<1>9. PartOf(lines \o more, B, G \cup H, U \cup W)
  BY <1>1, <1>2, <1>6, <1>7, <1>8, PartsJoin
<1>10. PICK J : J = I \cup {Canvas(c)} \cup P
  OBVIOUS
<1>11. G \cup H = J \cup {Canvas(c + 1)} /\ U \cup W = J \cup (T \cup R)
  BY <1>2, <1>10
<1>12. \A x \in J : Named(x, {"canvas", "prepared"}) /\ x[3] \in Int /\ x[3] < c + 1
  BY <1>3, <1>4, <1>10 DEF Named
<1> QED
  BY <1>9, <1>11, <1>12 DEF IsDrawing

\* What is drawn on the canvas itself, and what is laid over it.
LEMMA DrawnGoesOn ==
  ASSUME NEW lines, NEW c \in Nat, NEW B, NEW T, IsDrawing(lines, c, B, T), Outside(T)
  PROVE  IsDrawing(lines \o <<Line(<<Canvas(c)>>, <<Canvas(c + 1)>>)>>, c + 1, B, T)
<1>1. PICK a, b : a = Canvas(c) /\ b = Canvas(c + 1)
  OBVIOUS
<1>2. a \in Labels /\ b \in Labels
  BY <1>1, CanvasIs
<1>3. Lists(<<a>>, {a}) /\ Lists(<<b>>, {b})
  BY <1>2, ListsOfLabels
<1>4. PICK takes, gives, U, G, C : takes = <<a>> /\ gives = <<b>> /\ U = {a} /\ G = {b} /\ C = B \cup {a}
  OBVIOUS
<1>5. Lists(takes, U) /\ Lists(gives, G) /\ \A x \in U : IsInput(x) \/ x \in C
  BY <1>3, <1>4
<1>6. PartOf(<<Line(takes, gives)>>, C, G, U)
  BY <1>5, OneLine
<1>7. PICK more, P, R : more = <<Line(takes, gives)>> /\ P = {} /\ R = {}
  OBVIOUS
<1>8. /\ PartOf(more, B \cup {Canvas(c)}, P \cup {Canvas(c + 1)}, P \cup {Canvas(c)} \cup R)
      /\ Outside(R) /\ T \cap R = {} /\ \A x \in P : x[1] = "prepared" /\ x[3] = c
  <2>1. P \cup {Canvas(c + 1)} = G /\ P \cup {Canvas(c)} \cup R = U /\ B \cup {Canvas(c)} = C
    BY <1>1, <1>4, <1>7
  <2> QED BY <2>1, <1>6, <1>7 DEF Outside
<1>9. IsDrawing(lines \o more, c + 1, B, T \cup R)
  BY <1>8, DrawingGoesOn
<1>10. T \cup R = T
  BY <1>7
<1> QED
  BY <1>1, <1>4, <1>7, <1>9, <1>10

LEMMA OverlaidGoesOn ==
  ASSUME NEW lines, NEW c \in Nat, NEW B, NEW T, IsDrawing(lines, c, B, T), Outside(T),
         NEW source \in B, source \notin T, Outside({source})
  PROVE  IsDrawing(lines \o <<Line(<<source>>, <<Label("prepared", c)>>),
                              Line(<<Canvas(c), Label("prepared", c)>>, <<Canvas(c + 1)>>)>>,
                   c + 1, B, T \cup {source})
<1>1. PICK a, b, p : a = Canvas(c) /\ b = Canvas(c + 1) /\ p = Label("prepared", c)
  OBVIOUS
<1>2. /\ a \in Labels /\ b \in Labels /\ p \in Labels /\ a # p /\ b # p /\ source \in Labels
      /\ source # a /\ source # p /\ a[1] = "canvas" /\ b[1] = "canvas" /\ p[1] = "prepared" /\ p[3] = c
  BY <1>1, CanvasIs DEF Outside, Named
<1>3. Lists(<<source>>, {source}) /\ Lists(<<p>>, {p}) /\ Lists(<<a, p>>, {a, p}) /\ Lists(<<b>>, {b})
  BY <1>2, ListsOfLabels
<1>4. PICK first, last, C, D :
        /\ first = <<Line(<<source>>, <<p>>)>> /\ last = <<Line(<<a, p>>, <<b>>)>>
        /\ C = B \cup {a} /\ D = C \cup {p}
  OBVIOUS
<1>5. PartOf(first, C, {p}, {source})
  <2>1. PICK takes, gives, U, G : takes = <<source>> /\ gives = <<p>> /\ U = {source} /\ G = {p}
    OBVIOUS
  <2>2. Lists(takes, U) /\ Lists(gives, G) /\ \A x \in U : IsInput(x) \/ x \in C
    BY <2>1, <1>3, <1>4
  <2>3. PartOf(<<Line(takes, gives)>>, C, G, U)
    BY <2>2, OneLine
  <2> QED BY <2>1, <2>3, <1>4
<1>6. PartOf(last, D, {b}, {a, p})
  <2>1. PICK takes, gives, U, G : takes = <<a, p>> /\ gives = <<b>> /\ U = {a, p} /\ G = {b}
    OBVIOUS
  <2>2. Lists(takes, U) /\ Lists(gives, G) /\ \A x \in U : IsInput(x) \/ x \in D
    BY <2>1, <1>3, <1>4
  <2>3. PartOf(<<Line(takes, gives)>>, D, G, U)
    BY <2>2, OneLine
  <2> QED BY <2>1, <2>3, <1>4
<1>7. PICK P, S, G, U : P = {p} /\ S = {source} /\ G = {b} /\ U = {a, p}
  OBVIOUS
<1>8. PartOf(first, C, P, S) /\ PartOf(last, C \cup P, G, U) /\ P \cap G = {} /\ S \cap U = {}
  BY <1>2, <1>4, <1>5, <1>6, <1>7
<1>9. PartOf(first \o last, C, P \cup G, S \cup U)
  BY <1>8, PartsJoin
<1>10. PICK more : more = first \o last
  OBVIOUS
<1>11. more = <<Line(<<source>>, <<p>>), Line(<<a, p>>, <<b>>)>>
  <2>1. PICK l, k : l = Line(<<source>>, <<p>>) /\ k = Line(<<a, p>>, <<b>>)
    OBVIOUS
  <2>2. PICK u, v, w : u = first /\ v = last /\ w = <<l, k>>
    OBVIOUS
  <2>3. u = <<l>> /\ v = <<k>> /\ u \in Seq(Lines) /\ v \in Seq(Lines)
    BY <2>1, <2>2, <1>4, <1>5, <1>6 DEF PartOf
  <2>4. Len(u) = 1 /\ Len(v) = 1 /\ u[1] = l /\ v[1] = k /\ l \in Lines /\ k \in Lines
    BY <2>3
  <2>5. /\ u \o v \in Seq(Lines) /\ Len(u \o v) = Len(u) + Len(v)
        /\ (\A x \in 1..Len(u) : (u \o v)[x] = u[x])
        /\ \A x \in 1..Len(v) : (u \o v)[Len(u) + x] = v[x]
    BY <2>3, Concatenated
  <2>6. Len(u \o v) = 2 /\ (u \o v)[1] = l /\ (u \o v)[2] = k
    <3>1. 1 \in 1..Len(u) /\ 1 \in 1..Len(v) /\ Len(u) + 1 = 2 /\ Len(u) + Len(v) = 2
      BY <2>4
    <3> QED BY <3>1, <2>4, <2>5
  <2>7. w \in Seq(Lines) /\ Len(w) = 2 /\ w[1] = l /\ w[2] = k
    BY <2>2, <2>4
  <2>8. PICK z : z = u \o v
    OBVIOUS
  <2>9. z \in Seq(Lines) /\ Len(z) = 2 /\ z[1] = l /\ z[2] = k
    BY <2>5, <2>6, <2>8
  <2>10. z = w
    <3>1. z = [i \in 1..2 |-> z[i]] /\ w = [i \in 1..2 |-> w[i]]
      BY <2>7, <2>9
    <3>2. \A i \in 1..2 : z[i] = w[i]
      BY <2>7, <2>9
    <3> QED BY <3>1, <3>2
  <2> QED BY <2>1, <2>2, <2>8, <2>10, <1>10
<1>12. PartOf(more, B \cup {Canvas(c)}, P \cup {Canvas(c + 1)}, P \cup {Canvas(c)} \cup S)
  <2>1. P \cup {Canvas(c + 1)} = P \cup G /\ P \cup {Canvas(c)} \cup S = S \cup U /\ B \cup {Canvas(c)} = C
    BY <1>1, <1>4, <1>7
  <2> QED BY <2>1, <1>9, <1>10
<1>13. Outside(S) /\ T \cap S = {} /\ \A x \in P : x[1] = "prepared" /\ x[3] = c
  BY <1>2, <1>7
<1>14. IsDrawing(lines \o more, c + 1, B, T \cup S)
  BY <1>12, <1>13, DrawingGoesOn
<1> QED
  BY <1>1, <1>7, <1>11, <1>14

\* What the loop over the layers carries.
States(m) == [lines : Seq(Lines), canvas : Nat, episode : Nat, used : [1..m -> Nat]]

LEMMA DrawnIs ==
  ASSUME NEW m \in Nat, NEW v \in States(m)
  PROVE  /\ Drawn(v) \in States(m)
         /\ Drawn(v).lines = v.lines \o <<Line(<<Canvas(v.canvas)>>, <<Canvas(v.canvas + 1)>>)>>
         /\ Drawn(v).canvas = v.canvas + 1
         /\ Drawn(v).episode = v.episode /\ Drawn(v).used = v.used
<1>1. /\ v.lines \in Seq(Lines) /\ v.canvas \in Nat /\ v.episode \in Nat /\ v.used \in [1..m -> Nat]
      /\ v = [lines |-> v.lines, canvas |-> v.canvas, episode |-> v.episode, used |-> v.used]
  BY DEF States
<1>2. PICK l : l = Line(<<Canvas(v.canvas)>>, <<Canvas(v.canvas + 1)>>)
  OBVIOUS
<1>3. l \in Lines
  <2>1. PICK a, b : a = Canvas(v.canvas) /\ b = Canvas(v.canvas + 1)
    OBVIOUS
  <2>2. a \in Labels /\ b \in Labels
    BY <1>1, <2>1, CanvasIs
  <2>3. <<a>> \in Seq(Labels) /\ <<b>> \in Seq(Labels)
    BY <2>2
  <2>4. PICK s, t : s = <<a>> /\ t = <<b>>
    OBVIOUS
  <2>5. [takes |-> s, gives |-> t] \in Lines
    BY <2>3, <2>4 DEF Lines
  <2> QED BY <2>1, <2>4, <2>5, <1>2 DEF Line
<1>4. PICK s : s = v.lines
  OBVIOUS
<1>5. Append(s, l) = s \o <<l>> /\ Append(s, l) \in Seq(Lines)
  BY <1>1, <1>3, <1>4
<1>6. Drawn(v) = [v EXCEPT !.lines = Append(@, l), !.canvas = @ + 1]
  BY ONLY <1>2 DEF Drawn
<1>7. PICK w, d : w = Append(s, l) /\ d = v.canvas + 1
  OBVIOUS
<1>8. Drawn(v) = [v EXCEPT !.lines = w, !.canvas = d] /\ w \in Seq(Lines) /\ d \in Nat
  <2>1. w = Append(v.lines, l) /\ w \in Seq(Lines) /\ d \in Nat
    BY <1>1, <1>4, <1>5, <1>7
  <2>2. [v EXCEPT !.lines = Append(@, l), !.canvas = @ + 1] = [v EXCEPT !.lines = w, !.canvas = d]
    BY ONLY <2>1, <1>7
  <2> QED BY <2>1, <2>2, <1>6
<1>9. PICK X : X = Seq(Lines)
  OBVIOUS
<1>10. v \in [lines : X, canvas : Nat, episode : Nat, used : [1..m -> Nat]] /\ w \in X
  BY <1>8, <1>9 DEF States
<1>11. PICK u : u = [v EXCEPT !.lines = w, !.canvas = d]
  OBVIOUS
<1>12. u \in [lines : X, canvas : Nat, episode : Nat, used : [1..m -> Nat]]
  BY <1>8, <1>10, <1>11
<1>13. u.lines = w /\ u.canvas = d /\ u.episode = v.episode /\ u.used = v.used
  BY <1>10, <1>11
<1>14. u = Drawn(v) /\ u \in States(m)
  BY <1>8, <1>9, <1>11, <1>12 DEF States
<1> QED
  BY <1>2, <1>4, <1>5, <1>7, <1>13, <1>14

LEMMA OverlaidIs ==
  ASSUME NEW m \in Nat, NEW v \in States(m), NEW source \in Labels
  PROVE  /\ Overlaid(v, source) \in States(m)
         /\ Overlaid(v, source).lines = v.lines \o <<Line(<<source>>, <<Label("prepared", v.canvas)>>),
               Line(<<Canvas(v.canvas), Label("prepared", v.canvas)>>, <<Canvas(v.canvas + 1)>>)>>
         /\ Overlaid(v, source).canvas = v.canvas + 1
         /\ Overlaid(v, source).episode = v.episode /\ Overlaid(v, source).used = v.used
<1>1. /\ v.lines \in Seq(Lines) /\ v.canvas \in Nat /\ v.episode \in Nat /\ v.used \in [1..m -> Nat]
      /\ v = [lines |-> v.lines, canvas |-> v.canvas, episode |-> v.episode, used |-> v.used]
  BY DEF States
<1>2. PICK a, b, p : a = Canvas(v.canvas) /\ b = Canvas(v.canvas + 1) /\ p = Label("prepared", v.canvas)
  OBVIOUS
<1>3. a \in Labels /\ b \in Labels /\ p \in Labels
  BY <1>1, <1>2, CanvasIs
<1>4. PICK l, k : l = Line(<<source>>, <<p>>) /\ k = Line(<<a, p>>, <<b>>)
  OBVIOUS
<1>5. l \in Lines /\ k \in Lines
  <2>1. <<source>> \in Seq(Labels) /\ <<p>> \in Seq(Labels) /\ <<a, p>> \in Seq(Labels) /\ <<b>> \in Seq(Labels)
    BY <1>3
  <2>2. PICK s, t, u, w : s = <<source>> /\ t = <<p>> /\ u = <<a, p>> /\ w = <<b>>
    OBVIOUS
  <2>3. [takes |-> s, gives |-> t] \in Lines /\ [takes |-> u, gives |-> w] \in Lines
    BY <2>1, <2>2 DEF Lines
  <2> QED BY <2>2, <2>3, <1>4 DEF Line
<1>6. PICK s : s = v.lines
  OBVIOUS
<1>7. s \o <<l, k>> \in Seq(Lines)
  <2>1. <<l, k>> \in Seq(Lines)
    BY <1>5
  <2>2. PICK t : t = <<l, k>>
    OBVIOUS
  <2>3. s \o t \in Seq(Lines)
    BY <2>1, <2>2, <1>1, <1>6
  <2> QED BY <2>2, <2>3
<1>8. PICK t : t = <<l, k>>
  OBVIOUS
<1>9. Overlaid(v, source) = [v EXCEPT !.lines = @ \o t, !.canvas = @ + 1]
  BY ONLY <1>2, <1>4, <1>8 DEF Overlaid, fitChain
<1>10. PICK w, d : w = s \o t /\ d = v.canvas + 1
  OBVIOUS
<1>11. Overlaid(v, source) = [v EXCEPT !.lines = w, !.canvas = d] /\ w \in Seq(Lines) /\ d \in Nat
  BY <1>1, <1>6, <1>7, <1>8, <1>9, <1>10
<1>12. PICK X : X = Seq(Lines)
  OBVIOUS
<1>13. v \in [lines : X, canvas : Nat, episode : Nat, used : [1..m -> Nat]] /\ w \in X
  BY <1>11, <1>12 DEF States
<1>14. PICK u : u = [v EXCEPT !.lines = w, !.canvas = d]
  OBVIOUS
<1>15. u \in [lines : X, canvas : Nat, episode : Nat, used : [1..m -> Nat]]
  BY <1>11, <1>13, <1>14
<1>16. u.lines = w /\ u.canvas = d /\ u.episode = v.episode /\ u.used = v.used
  BY <1>13, <1>14
<1>17. u = Overlaid(v, source) /\ u \in States(m)
  BY <1>11, <1>12, <1>14, <1>15 DEF States
<1> QED
  BY <1>2, <1>4, <1>6, <1>8, <1>10, <1>16, <1>17

\* The layers that show the Episode.
EpisodeUsers(snapshot) == {l \in 1..Len(snapshot.layers) : IsEpisodeVideo(snapshot.layers[l])}

UsedUp(used, m) == UNION {AssetLabelsBelow(i, used[i]) : i \in 1..m}

ShowsEpisode(v) == [Overlaid(v, Label("episode_layer", v.episode)) EXCEPT !.episode = @ + 1]

ShowsAsset(snapshot, v, i) ==
    [Overlaid(v, AssetLabels(snapshot, i)[v.used[i] + 1]) EXCEPT !.used[i] = @ + 1]

IsStepOf(w, snapshot, v, l) == w = LayerStep(snapshot, v, snapshot.layers[l])

IsOneMore(more, used, i) == more = [used EXCEPT ![i] = @ + 1]

IsUseOf(source, i, n) == source = <<"asset", i, n>>

\* The next canvas is the last with the source over it; no copy of the
\* Episode is used up.
IsLaidOver(w, v, source) ==
    /\ w.lines = v.lines \o <<Line(<<source>>, <<Label("prepared", v.canvas)>>),
          Line(<<Canvas(v.canvas), Label("prepared", v.canvas)>>, <<Canvas(v.canvas + 1)>>)>>
    /\ w.canvas = v.canvas + 1 /\ w.episode = v.episode

\* What a layer does, by whether it uses an asset or shows the Episode.
LEMMA StepOfLayer ==
  ASSUME NEW A, NEW snapshot, IsSnapshot(snapshot, A), NEW v, NEW l \in 1..Len(snapshot.layers),
         NEW w, IsStepOf(w, snapshot, v, l)
  PROVE  \/ /\ w \in {v, Drawn(v)} /\ l \notin EpisodeUsers(snapshot)
            /\ \A i \in 1..Len(snapshot.assets) : l \notin UsersOf(snapshot, i)
         \/ /\ w = ShowsEpisode(v) /\ l \in EpisodeUsers(snapshot)
            /\ \A i \in 1..Len(snapshot.assets) : l \notin UsersOf(snapshot, i)
         \/ /\ l \notin EpisodeUsers(snapshot)
            /\ \E i \in 1..Len(snapshot.assets) :
                 /\ \A j \in 1..Len(snapshot.assets) : l \in UsersOf(snapshot, j) <=> j = i
                 /\ w = IF v.used[i] >= UsesOf(snapshot, i) THEN v ELSE ShowsAsset(snapshot, v, i)
<1>1. PICK layer, m : layer = snapshot.layers[l] /\ m = Len(snapshot.assets)
  OBVIOUS
<1>2. layer.type \in LayerTypes /\ layer.visible \in BOOLEAN
  BY <1>1, SnapshotFacts
<1>3. l \in EpisodeUsers(snapshot) <=> IsEpisodeVideo(layer)
  BY <1>1 DEF EpisodeUsers
<1>4. \A i \in 1..m : l \in UsersOf(snapshot, i) <=> UsesAsset(layer) /\ layer.asset = snapshot.assets[i]
  BY <1>1 DEF UsersOf
<1>5. PICK inputs, k : inputs = InputOf(snapshot, layer.asset) /\ k = CHOOSE j \in inputs : TRUE
  OBVIOUS
<1>6. CASE ~layer.visible
  <2>1. w = v
    BY <1>1, <1>6 DEF IsStepOf, LayerStep, IsEpisodeVideo
  <2> QED BY <2>1, <1>1, <1>3, <1>4, <1>6 DEF IsEpisodeVideo, UsesAsset
<1>7. CASE layer.visible /\ layer.type \in {"captions", "text", "shape", "blank text"}
  <2>1. w \in {v, Drawn(v)}
    BY <1>1, <1>7 DEF IsStepOf, LayerStep, IsEpisodeVideo
  <2> QED BY <2>1, <1>1, <1>3, <1>4, <1>7 DEF IsEpisodeVideo, UsesAsset
<1>8. CASE IsEpisodeVideo(layer)
  <2>1. w = ShowsEpisode(v)
    BY <1>1, <1>8 DEF IsStepOf, LayerStep, IsEpisodeVideo, ShowsEpisode
  <2> QED BY <2>1, <1>1, <1>3, <1>4, <1>8 DEF IsEpisodeVideo, UsesAsset
<1>9. CASE layer.visible /\ layer.type \in {"video", "image"} /\ ~IsEpisodeVideo(layer)
  <2>1. w = IF inputs = {} \/ v.used[k] >= Len(AssetLabels(snapshot, k)) THEN v ELSE ShowsAsset(snapshot, v, k)
    BY <1>1, <1>5, <1>9 DEF IsStepOf, LayerStep, ShowsAsset
  <2>2. CASE inputs = {}
    <3>1. \A i \in 1..m : snapshot.assets[i] # layer.asset
      BY <2>2, <1>1, <1>5, SnapshotFacts DEF InputOf
    <3> QED BY <2>1, <2>2, <3>1, <1>1, <1>3, <1>4, <1>9
  <2>3. CASE inputs # {}
    <3>1. k \in inputs
      BY <2>3, <1>5
    <3>2. k \in 1..m /\ snapshot.assets[k] = layer.asset
      BY <3>1, <1>1, <1>5, SnapshotFacts DEF InputOf
    <3>3. snapshot.assets[k] # "none"
      BY <3>2, <1>1, SnapshotFacts
    <3>4. UsesAsset(layer)
      BY <3>2, <3>3, <1>9 DEF UsesAsset
    <3>5. \A j \in 1..m : snapshot.assets[j] = snapshot.assets[k] => j = k
      <4>1. DOMAIN snapshot.assets = 1..m
        BY <1>1, SnapshotFacts
      <4> QED BY <3>2, <4>1 DEF IsSnapshot
    <3>6. \A j \in 1..m : l \in UsersOf(snapshot, j) <=> j = k
      BY <3>2, <3>4, <3>5, <1>4
    <3>7. Len(AssetLabels(snapshot, k)) = UsesOf(snapshot, k)
      BY <3>2, <1>1, AssetLabelsAre
    <3> QED BY <2>1, <2>3, <3>2, <3>6, <3>7, <1>1, <1>3, <1>9
  <2> QED BY <2>2, <2>3
<1> QED
  BY <1>2, <1>6, <1>7, <1>8, <1>9 DEF LayerTypes, IsEpisodeVideo

LEMMA ShowsEpisodeIs ==
  ASSUME NEW m \in Nat, NEW v \in States(m), NEW source, source = Label("episode_layer", v.episode)
  PROVE  /\ ShowsEpisode(v) \in States(m)
         /\ ShowsEpisode(v).lines = v.lines \o <<Line(<<source>>, <<Label("prepared", v.canvas)>>),
               Line(<<Canvas(v.canvas), Label("prepared", v.canvas)>>, <<Canvas(v.canvas + 1)>>)>>
         /\ ShowsEpisode(v).canvas = v.canvas + 1
         /\ ShowsEpisode(v).episode = v.episode + 1 /\ ShowsEpisode(v).used = v.used
         /\ source \in Labels /\ source[1] = "episode_layer" /\ source[3] = v.episode
<1>1. PICK X : X = Seq(Lines)
  OBVIOUS
<1>2. \A u : u \in States(m) <=> u \in [lines : X, canvas : Nat, episode : Nat, used : [1..m -> Nat]]
  BY <1>1 DEF States
<1>3. v.episode \in Nat
  BY <1>2
<1>4. source \in Labels /\ source[1] = "episode_layer" /\ source[3] = v.episode
  <2>1. "episode_layer" \in Names /\ v.episode \in Int
    BY <1>3 DEF Names
  <2> QED BY <2>1, LabelsAreLabels
<1>5. PICK o : o = Overlaid(v, source)
  OBVIOUS
<1>6. /\ o \in States(m)
      /\ o.lines = v.lines \o <<Line(<<source>>, <<Label("prepared", v.canvas)>>),
           Line(<<Canvas(v.canvas), Label("prepared", v.canvas)>>, <<Canvas(v.canvas + 1)>>)>>
      /\ o.canvas = v.canvas + 1 /\ o.episode = v.episode /\ o.used = v.used
  BY <1>4, <1>5, OverlaidIs
<1>7. PICK d : d = o.episode + 1
  OBVIOUS
<1>8. PICK u : u = [o EXCEPT !.episode = d]
  OBVIOUS
<1>9. o \in [lines : X, canvas : Nat, episode : Nat, used : [1..m -> Nat]] /\ d \in Nat
  BY <1>2, <1>3, <1>6, <1>7
<1>10. u \in [lines : X, canvas : Nat, episode : Nat, used : [1..m -> Nat]]
  BY <1>8, <1>9
<1>11. u.lines = o.lines /\ u.canvas = o.canvas /\ u.episode = d /\ u.used = o.used
  BY <1>8, <1>9
<1>12. ShowsEpisode(v) = u
  BY <1>5, <1>7, <1>8 DEF ShowsEpisode
<1> QED
  BY <1>2, <1>4, <1>6, <1>7, <1>10, <1>11, <1>12

LEMMA ShowsAssetIs ==
  ASSUME NEW A, NEW snapshot, IsSnapshot(snapshot, A), NEW i \in 1..Len(snapshot.assets),
         NEW v \in States(Len(snapshot.assets)), v.used[i] < UsesOf(snapshot, i),
         NEW source, IsUseOf(source, i, v.used[i])
  PROVE  /\ ShowsAsset(snapshot, v, i) \in States(Len(snapshot.assets))
         /\ IsLaidOver(ShowsAsset(snapshot, v, i), v, source)
         /\ IsOneMore(ShowsAsset(snapshot, v, i).used, v.used, i)
         /\ source \in Labels /\ source[1] = "asset"
<1>1. PICK X, m : X = Seq(Lines) /\ m = Len(snapshot.assets)
  OBVIOUS
<1>2. \A u : u \in States(m) <=> u \in [lines : X, canvas : Nat, episode : Nat, used : [1..m -> Nat]]
  BY <1>1 DEF States
<1>3. m \in Nat /\ v \in States(m)
  BY <1>1, SnapshotFacts
<1>4. v.used \in [1..m -> Nat] /\ v.used[i] \in Nat /\ i \in 1..m
  BY <1>1, <1>2, <1>3
<1>5. AssetLabels(snapshot, i)[v.used[i] + 1] = source /\ source \in Labels /\ source[1] = "asset"
  <2>1. UsesOf(snapshot, i) \in Nat
    BY AssetLabelsAre
  <2>2. PICK a : a = v.used[i] + 1
    OBVIOUS
  <2>3. a \in 1..UsesOf(snapshot, i) /\ a - 1 = v.used[i] /\ v.used[i] \in Int
    BY <2>1, <2>2, <1>4
  <2>4. AssetLabels(snapshot, i)[a] = <<"asset", i, a - 1>>
    BY <2>3, AssetLabelsAre
  <2>5. <<"asset", i, v.used[i]>> \in Labels
    BY <2>3, AssetLabelsAre
  <2> QED BY <2>2, <2>3, <2>4, <2>5 DEF IsUseOf
<1>6. PICK o : o = Overlaid(v, source)
  OBVIOUS
<1>7. /\ o \in States(m)
      /\ o.lines = v.lines \o <<Line(<<source>>, <<Label("prepared", v.canvas)>>),
           Line(<<Canvas(v.canvas), Label("prepared", v.canvas)>>, <<Canvas(v.canvas + 1)>>)>>
      /\ o.canvas = v.canvas + 1 /\ o.episode = v.episode /\ o.used = v.used
  BY <1>3, <1>5, <1>6, OverlaidIs
<1>8. PICK d : d = [o.used EXCEPT ![i] = @ + 1]
  OBVIOUS
<1>9. d \in [1..m -> Nat]
  <2>1. o.used \in [1..m -> Nat] /\ o.used[i] + 1 \in Nat
    BY <1>4, <1>7
  <2> QED BY <2>1, <1>8
<1>10. PICK u : u = [o EXCEPT !.used = d]
  OBVIOUS
<1>11. o \in [lines : X, canvas : Nat, episode : Nat, used : [1..m -> Nat]]
  BY <1>2, <1>7
<1>12. u \in [lines : X, canvas : Nat, episode : Nat, used : [1..m -> Nat]]
  BY <1>9, <1>10, <1>11
<1>13. u.lines = o.lines /\ u.canvas = o.canvas /\ u.episode = o.episode /\ u.used = d
  BY <1>10, <1>11
<1>14. ShowsAsset(snapshot, v, i) = u
  BY <1>5, <1>6, <1>8, <1>10 DEF ShowsAsset
<1> QED
  BY <1>1, <1>2, <1>5, <1>7, <1>8, <1>12, <1>13, <1>14 DEF IsLaidOver, IsOneMore

LEMMA NumbersGrow ==
  ASSUME NEW name \in Names, NEW n \in Nat
  PROVE  /\ Numbers(name, 0) = {}
         /\ Numbers(name, n + 1) = Numbers(name, n) \cup {Label(name, n)}
         /\ Label(name, n) \notin Numbers(name, n)
         /\ \A k \in 0..n : k < n => Label(name, k) \in Numbers(name, n)
<1>1. Numbers(name, 0) = {}
  BY DEF Numbers
<1>2. \A x : x \in Numbers(name, n + 1) <=> \E k \in 1..(n + 1) : x = Label(name, k - 1)
  BY DEF Numbers
<1>3. \A x : x \in Numbers(name, n) <=> \E k \in 1..n : x = Label(name, k - 1)
  BY DEF Numbers
<1>4. \A k \in 1..(n + 1) : k \in 1..n \/ (k = n + 1 /\ k - 1 = n)
  OBVIOUS
<1>5. n + 1 \in 1..(n + 1) /\ (n + 1) - 1 = n /\ \A k \in 1..n : k \in 1..(n + 1) /\ k - 1 < n /\ k - 1 \in Int
  OBVIOUS
<1>6. Numbers(name, n + 1) = Numbers(name, n) \cup {Label(name, n)}
  BY <1>2, <1>3, <1>4, <1>5
<1>7. \A k \in Int : Label(name, k)[3] = k
  BY LabelsAreLabels
<1>8. Label(name, n) \notin Numbers(name, n)
  BY <1>3, <1>5, <1>7
<1>9. \A k \in 0..n : k < n => Label(name, k) \in Numbers(name, n)
  <2> TAKE k \in 0..n
  <2> HAVE k < n
  <2>1. k + 1 \in 1..n /\ (k + 1) - 1 = k
    OBVIOUS
  <2> QED BY <2>1, <1>3
<1> QED
  BY <1>1, <1>6, <1>8, <1>9

LEMMA UsedUpGrows ==
  ASSUME NEW m \in Nat, NEW used \in [1..m -> Nat], NEW i \in 1..m,
         NEW more, IsOneMore(more, used, i), NEW source, IsUseOf(source, i, used[i])
  PROVE  UsedUp(more, m) = UsedUp(used, m) \cup {source} /\ source \notin UsedUp(used, m)
<1>1. PICK n : n = used[i]
  OBVIOUS
<1>2. /\ n \in Nat /\ more[i] = n + 1 /\ \A j \in 1..m : j # i => more[j] = used[j]
      /\ source = <<"asset", i, n>>
  BY <1>1 DEF IsOneMore, IsUseOf
<1>3. \A j \in 1..m : \A c \in Nat : \A x : x \in AssetLabelsBelow(j, c) <=> \E u \in 1..c : x = <<"asset", j, u - 1>>
  BY DEF AssetLabelsBelow
<1>4. \A u \in 1..(n + 1) : u \in 1..n \/ (u = n + 1 /\ u - 1 = n)
  BY <1>2
<1>5. n + 1 \in 1..(n + 1) /\ (n + 1) - 1 = n /\ \A k \in 1..n : k \in 1..(n + 1) /\ k - 1 # n
  BY <1>2
<1>6. AssetLabelsBelow(i, n + 1) = AssetLabelsBelow(i, n) \cup {source}
  <2>1. n + 1 \in Nat
    BY <1>2
  <2>2. \A x : x \in AssetLabelsBelow(i, n + 1) <=> \E u \in 1..(n + 1) : x = <<"asset", i, u - 1>>
    BY <1>3, <2>1
  <2>3. \A x : x \in AssetLabelsBelow(i, n) <=> \E u \in 1..n : x = <<"asset", i, u - 1>>
    BY <1>2, <1>3
  <2> QED BY <1>1, <1>2, <1>4, <1>5, <2>2, <2>3
<1>7. \A x : x \in UsedUp(used, m) <=> \E j \in 1..m : x \in AssetLabelsBelow(j, used[j])
  BY DEF UsedUp
<1>8. \A x : x \in UsedUp(more, m) <=> \E j \in 1..m : x \in AssetLabelsBelow(j, more[j])
  BY DEF UsedUp
<1>9. UsedUp(more, m) = UsedUp(used, m) \cup {source}
  <2>1. \A x : x \in UsedUp(more, m) => x \in UsedUp(used, m) \/ x = source
    BY <1>1, <1>2, <1>6, <1>7, <1>8
  <2>2. \A x : x \in UsedUp(used, m) => x \in UsedUp(more, m)
    BY <1>1, <1>2, <1>6, <1>7, <1>8
  <2>3. source \in UsedUp(more, m)
    BY <1>2, <1>6, <1>8
  <2> QED BY <2>1, <2>2, <2>3
<1>10. source \notin UsedUp(used, m)
  <2> SUFFICES ASSUME NEW j \in 1..m, source \in AssetLabelsBelow(j, used[j]) PROVE FALSE
    BY <1>7
  <2>3. used[j] \in Nat
    OBVIOUS
  <2>4. PICK c : c = used[j]
    OBVIOUS
  <2>5. c \in Nat /\ source \in AssetLabelsBelow(j, c)
    BY <2>3, <2>4
  <2>6. PICK u \in 1..c : source = <<"asset", j, u - 1>>
    BY <2>5 DEF AssetLabelsBelow
  <2>1. u \in 1..used[j] /\ source = <<"asset", j, u - 1>>
    BY <2>4, <2>6
  <2>2. j = i /\ u - 1 = n
    BY <2>1, <1>2
  <2> QED BY <2>1, <2>2, <1>1, <1>5
<1> QED
  BY <1>9, <1>10

\* After k layers.
TakenBy(v, m) == Numbers("episode_layer", v.episode) \cup UsedUp(v.used, m)

IsDrawnTo(snapshot, B, k, v) ==
    /\ v \in States(Len(snapshot.assets))
    /\ v.episode = Cardinality(UpToIn(EpisodeUsers(snapshot), k))
    /\ \A i \in 1..Len(snapshot.assets) : v.used[i] = Cardinality(UpToIn(UsersOf(snapshot, i), k))
    /\ IsDrawing(v.lines, v.canvas, B, TakenBy(v, Len(snapshot.assets)))

GivenBefore(snapshot, L) ==
    AssetsGive(snapshot, Len(snapshot.assets)) \cup Numbers("episode_layer", L)

LEMMA TakenIsOutside ==
  ASSUME NEW A, NEW snapshot, IsSnapshot(snapshot, A), NEW v \in States(Len(snapshot.assets))
  PROVE  Outside(TakenBy(v, Len(snapshot.assets)))
<1>1. PICK m : m = Len(snapshot.assets)
  OBVIOUS
<1>2. v.episode \in Nat /\ v.used \in [1..m -> Nat]
  <2>1. PICK X : X = Seq(Lines)
    OBVIOUS
  <2> QED BY <1>1, <2>1 DEF States
<1>3. \A x \in Numbers("episode_layer", v.episode) : x \in Labels /\ x[1] = "episode_layer"
  <2>1. "episode_layer" \in Names
    BY DEF Names
  <2>2. \A k \in Int : Label("episode_layer", k) \in Labels
    BY <2>1, LabelsAreLabels
  <2>3. \A x \in Numbers("episode_layer", v.episode) : \E k \in Int : x = Label("episode_layer", k)
    BY <1>2 DEF Numbers
  <2> QED BY <2>1, <2>2, <2>3, <1>2, NumbersAreNamed
<1>4. \A x \in UsedUp(v.used, m) : x \in Labels /\ x[1] = "asset"
  <2> TAKE x \in UsedUp(v.used, m)
  <2>1. PICK i \in 1..m : x \in AssetLabelsBelow(i, v.used[i])
    BY DEF UsedUp
  <2>2. v.used[i] \in Nat
    BY <1>2
  <2>3. \E u \in Int : x = <<"asset", i, u>>
    BY <2>1, <2>2 DEF AssetLabelsBelow
  <2>4. PICK u \in Int : x = <<"asset", i, u>>
    BY <2>3
  <2>5. <<"asset", i, u>> \in Labels
    BY <1>1, AssetLabelsAre
  <2> QED BY <2>4, <2>5
<1> QED
  BY <1>1, <1>3, <1>4 DEF Outside, TakenBy, Named

LEMMA LayerGoesOn ==
  ASSUME NEW A, NEW snapshot, IsSnapshot(snapshot, A), NEW L \in Nat,
         L = Cardinality(UpToIn(EpisodeUsers(snapshot), Len(snapshot.layers))),
         NEW B, B = GivenBefore(snapshot, L),
         NEW l \in 1..Len(snapshot.layers), NEW v, IsDrawnTo(snapshot, B, l - 1, v),
         NEW w, IsStepOf(w, snapshot, v, l)
  PROVE  IsDrawnTo(snapshot, B, l, w)
<1>1. PICK m, n, E : m = Len(snapshot.assets) /\ n = Len(snapshot.layers) /\ E = EpisodeUsers(snapshot)
  OBVIOUS
<1>2. m \in Nat /\ n \in Nat /\ l \in Nat \ {0} /\ l \in 0..n /\ l - 1 \in Nat
  <2>1. m \in Nat /\ n \in Nat /\ l \in 1..n
    BY <1>1, SnapshotFacts
  <2> QED BY <2>1
<1>3. /\ v \in States(m) /\ v.episode = Cardinality(UpToIn(E, l - 1))
      /\ \A i \in 1..m : v.used[i] = Cardinality(UpToIn(UsersOf(snapshot, i), l - 1))
      /\ IsDrawing(v.lines, v.canvas, B, TakenBy(v, m))
  BY <1>1 DEF IsDrawnTo
<1>4. Outside(TakenBy(v, m)) /\ v.canvas \in Nat /\ v.episode \in Nat /\ v.used \in [1..m -> Nat]
  <2>1. PICK X : X = Seq(Lines)
    OBVIOUS
  <2>2. v.canvas \in Nat /\ v.episode \in Nat /\ v.used \in [1..m -> Nat]
    BY <1>3, <2>1 DEF States
  <2> QED BY <2>2, <1>1, <1>3, TakenIsOutside
<1>5. l \notin E => UpToIn(E, l) = UpToIn(E, l - 1)
  BY <1>2, Counted
<1>6. \A i \in 1..m : l \notin UsersOf(snapshot, i) =>
         UpToIn(UsersOf(snapshot, i), l) = UpToIn(UsersOf(snapshot, i), l - 1)
  BY <1>2, Counted
<1>7. CASE /\ w \in {v, Drawn(v)} /\ l \notin E
           /\ \A i \in 1..m : l \notin UsersOf(snapshot, i)
  <2>1. w \in States(m) /\ w.episode = v.episode /\ w.used = v.used
    BY <1>2, <1>3, <1>7, DrawnIs
  <2>2. IsDrawing(w.lines, w.canvas, B, TakenBy(v, m))
    <3>1. CASE w = v
      BY <3>1, <1>3
    <3>2. CASE w = Drawn(v)
      <4>1. w.lines = v.lines \o <<Line(<<Canvas(v.canvas)>>, <<Canvas(v.canvas + 1)>>)>> /\ w.canvas = v.canvas + 1
        BY <3>2, <1>2, <1>3, DrawnIs
      <4>2. PICK lines, c, T : lines = v.lines /\ c = v.canvas /\ T = TakenBy(v, m)
        OBVIOUS
      <4>3. c \in Nat /\ IsDrawing(lines, c, B, T) /\ Outside(T)
        BY <4>2, <1>3, <1>4
      <4>4. IsDrawing(lines \o <<Line(<<Canvas(c)>>, <<Canvas(c + 1)>>)>>, c + 1, B, T)
        BY <4>3, DrawnGoesOn
      <4> QED BY <4>1, <4>2, <4>4
    <3> QED BY <3>1, <3>2, <1>7
  <2>3. TakenBy(w, m) = TakenBy(v, m)
    BY <2>1 DEF TakenBy
  <2> QED BY <2>1, <2>2, <2>3, <1>1, <1>3, <1>5, <1>6, <1>7 DEF IsDrawnTo
<1>8. CASE /\ w = ShowsEpisode(v) /\ l \in E
           /\ \A i \in 1..m : l \notin UsersOf(snapshot, i)
  <2>1. PICK source : source = Label("episode_layer", v.episode)
    OBVIOUS
  <2>2. /\ w \in States(m)
        /\ w.lines = v.lines \o <<Line(<<source>>, <<Label("prepared", v.canvas)>>),
             Line(<<Canvas(v.canvas), Label("prepared", v.canvas)>>, <<Canvas(v.canvas + 1)>>)>>
        /\ w.canvas = v.canvas + 1 /\ w.episode = v.episode + 1 /\ w.used = v.used
        /\ source \in Labels /\ source[1] = "episode_layer"
    <3>1. m \in Nat /\ v \in States(m) /\ w = ShowsEpisode(v)
      BY <1>2, <1>3, <1>8
    <3>2. ShowsEpisode(v) \in States(m)
      BY <3>1, <2>1, ShowsEpisodeIs
    <3>3. ShowsEpisode(v).lines = v.lines \o <<Line(<<source>>, <<Label("prepared", v.canvas)>>),
             Line(<<Canvas(v.canvas), Label("prepared", v.canvas)>>, <<Canvas(v.canvas + 1)>>)>>
      BY <3>1, <2>1, ShowsEpisodeIs
    <3>4. /\ ShowsEpisode(v).canvas = v.canvas + 1
          /\ ShowsEpisode(v).episode = v.episode + 1 /\ ShowsEpisode(v).used = v.used
      BY <3>1, <2>1, ShowsEpisodeIs
    <3>5. source \in Labels /\ source[1] = "episode_layer"
      BY <3>1, <2>1, ShowsEpisodeIs
    <3> QED BY <3>1, <3>2, <3>3, <3>4, <3>5
  <2>3. Cardinality(UpToIn(E, l)) = v.episode + 1
    BY <1>2, <1>3, <1>8, Counted
  <2>4. v.episode < L
    <3>1. Cardinality(UpToIn(E, l)) <= Cardinality(UpToIn(E, n))
      BY <1>2, Counted
    <3> QED BY <3>1, <2>3, <1>1, <1>4
  <2>5. "episode_layer" \in Names
    BY DEF Names
  <2>6. /\ Numbers("episode_layer", v.episode + 1) = Numbers("episode_layer", v.episode) \cup {source}
        /\ source \notin Numbers("episode_layer", v.episode)
    BY <2>1, <2>5, <1>4, NumbersGrow
  <2>7. source \in B
    <3>1. v.episode \in 0..L
      BY <2>4, <1>4
    <3>2. source \in Numbers("episode_layer", L)
      BY <2>1, <2>4, <2>5, <3>1, NumbersGrow
    <3> QED BY <3>2 DEF GivenBefore
  <2>8. source \notin UsedUp(v.used, m)
    <3>1. \A x \in UsedUp(v.used, m) : x[1] = "asset"
      BY DEF UsedUp, AssetLabelsBelow
    <3> QED BY <3>1, <2>2
  <2>9. TakenBy(w, m) = TakenBy(v, m) \cup {source} /\ source \notin TakenBy(v, m)
    BY <2>2, <2>6, <2>8 DEF TakenBy
  <2>10. Outside({source})
    BY <2>2 DEF Outside, Named
  <2>11. PICK lines, c, T : lines = v.lines /\ c = v.canvas /\ T = TakenBy(v, m)
    OBVIOUS
  <2>12. c \in Nat /\ IsDrawing(lines, c, B, T) /\ Outside(T) /\ source \notin T
    BY <2>9, <2>11, <1>3, <1>4
  <2>13. IsDrawing(lines \o <<Line(<<source>>, <<Label("prepared", c)>>),
                              Line(<<Canvas(c), Label("prepared", c)>>, <<Canvas(c + 1)>>)>>,
                   c + 1, B, T \cup {source})
    BY <2>7, <2>10, <2>12, OverlaidGoesOn
  <2>14. IsDrawing(w.lines, w.canvas, B, TakenBy(w, m))
    BY <2>2, <2>9, <2>11, <2>13
  <2> QED BY <2>2, <2>3, <2>14, <1>1, <1>3, <1>6, <1>8 DEF IsDrawnTo
<1>9. CASE /\ l \notin E
           /\ \E i \in 1..m :
                /\ \A j \in 1..m : l \in UsersOf(snapshot, j) <=> j = i
                /\ w = IF v.used[i] >= UsesOf(snapshot, i) THEN v ELSE ShowsAsset(snapshot, v, i)
  <2>1. PICK i \in 1..m :
          /\ \A j \in 1..m : l \in UsersOf(snapshot, j) <=> j = i
          /\ w = IF v.used[i] >= UsesOf(snapshot, i) THEN v ELSE ShowsAsset(snapshot, v, i)
    BY <1>9
  <2>2. v.used[i] \in Nat /\ Cardinality(UpToIn(UsersOf(snapshot, i), l)) = v.used[i] + 1
    BY <2>1, <1>2, <1>3, <1>4, Counted, ZenonT(60)
  <2>3. v.used[i] < UsesOf(snapshot, i)
    <3>1. Cardinality(UpToIn(UsersOf(snapshot, i), l)) <= Cardinality(UpToIn(UsersOf(snapshot, i), n))
      BY <1>2, Counted
    <3>2. UsesOf(snapshot, i) = Cardinality(UpToIn(UsersOf(snapshot, i), n)) /\ UsesOf(snapshot, i) \in Nat
      BY <1>1, AssetLabelsAre DEF UsesOf
    <3> QED BY <3>1, <3>2, <2>2
  <2>4. UsesOf(snapshot, i) \in Nat
    BY <1>1, AssetLabelsAre
  <2>5. w = ShowsAsset(snapshot, v, i)
    BY <2>1, <2>2, <2>3, <2>4
  <2>6. PICK source : IsUseOf(source, i, v.used[i])
    BY DEF IsUseOf
  <2>7. /\ w \in States(m) /\ IsLaidOver(w, v, source) /\ w.episode = v.episode /\ IsOneMore(w.used, v.used, i)
        /\ source \in Labels /\ source[1] = "asset"
    <3>1. i \in 1..Len(snapshot.assets) /\ v \in States(Len(snapshot.assets)) /\ v.used[i] < UsesOf(snapshot, i)
      BY <2>3, <1>1, <1>3
    <3>2. ShowsAsset(snapshot, v, i) \in States(Len(snapshot.assets))
      BY <3>1, <2>6, ShowsAssetIs
    <3>3. IsLaidOver(ShowsAsset(snapshot, v, i), v, source)
      BY <3>1, <2>6, ShowsAssetIs
    <3>5. IsOneMore(ShowsAsset(snapshot, v, i).used, v.used, i)
      BY <3>1, <2>6, ShowsAssetIs
    <3>6. source \in Labels /\ source[1] = "asset"
      BY <3>1, <2>6, ShowsAssetIs
    <3> QED BY <3>2, <3>3, <3>5, <3>6, <2>5, <1>1 DEF IsLaidOver
  <2>8. UsedUp(w.used, m) = UsedUp(v.used, m) \cup {source} /\ source \notin UsedUp(v.used, m)
    BY <2>6, <2>7, <1>2, <1>4, UsedUpGrows
  <2>9. source \in B
    <3>1. PICK a, c : a = v.used[i] /\ c = UsesOf(snapshot, i)
      OBVIOUS
    <3>2. a \in Nat /\ c \in Nat /\ a < c
      BY <3>1, <2>2, <2>3, <2>4
    <3>4. a + 1 \in 1..c /\ (a + 1) - 1 = a
      BY <3>2
    <3>3. source \in AssetLabelsBelow(i, UsesOf(snapshot, i))
      BY <3>1, <3>4, <2>6 DEF AssetLabelsBelow, IsUseOf
    <3> QED BY <3>3, <1>1 DEF GivenBefore, AssetsGive
  <2>10. source \notin Numbers("episode_layer", v.episode)
    <3>1. "episode_layer" \in Names
      BY DEF Names
    <3> QED BY <3>1, <2>7, <1>4, NumbersAreNamed
  <2>11. TakenBy(w, m) = TakenBy(v, m) \cup {source} /\ source \notin TakenBy(v, m)
    BY <2>7, <2>8, <2>10 DEF TakenBy
  <2>12. Outside({source})
    BY <2>7 DEF Outside, Named
  <2>13. PICK lines, c, T : lines = v.lines /\ c = v.canvas /\ T = TakenBy(v, m)
    OBVIOUS
  <2>14. c \in Nat /\ IsDrawing(lines, c, B, T) /\ Outside(T) /\ source \notin T
    BY <2>11, <2>13, <1>3, <1>4
  <2>15. IsDrawing(lines \o <<Line(<<source>>, <<Label("prepared", c)>>),
                              Line(<<Canvas(c), Label("prepared", c)>>, <<Canvas(c + 1)>>)>>,
                   c + 1, B, T \cup {source})
    BY <2>9, <2>12, <2>14, OverlaidGoesOn
  <2>16. IsDrawing(w.lines, w.canvas, B, TakenBy(w, m))
    BY <2>7, <2>11, <2>13, <2>15 DEF IsLaidOver
  <2>17. \A j \in 1..m : w.used[j] = Cardinality(UpToIn(UsersOf(snapshot, j), l))
    <3> TAKE j \in 1..m
    <3>1. CASE j = i
      BY <3>1, <2>2, <2>7, <1>4 DEF IsOneMore
    <3>2. CASE j # i
      BY <3>2, <2>1, <2>7, <1>3, <1>4, <1>6 DEF IsOneMore
    <3> QED BY <3>1, <3>2
  <2> QED BY <2>7, <2>16, <2>17, <1>1, <1>3, <1>5, <1>9 DEF IsDrawnTo
<1> QED
  <2>1. \/ /\ w \in {v, Drawn(v)} /\ l \notin EpisodeUsers(snapshot)
           /\ \A i \in 1..Len(snapshot.assets) : l \notin UsersOf(snapshot, i)
        \/ /\ w = ShowsEpisode(v) /\ l \in EpisodeUsers(snapshot)
           /\ \A i \in 1..Len(snapshot.assets) : l \notin UsersOf(snapshot, i)
        \/ /\ l \notin EpisodeUsers(snapshot)
           /\ \E i \in 1..Len(snapshot.assets) :
                /\ \A j \in 1..Len(snapshot.assets) : l \in UsersOf(snapshot, j) <=> j = i
                /\ w = IF v.used[i] >= UsesOf(snapshot, i) THEN v ELSE ShowsAsset(snapshot, v, i)
    BY StepOfLayer
  <2> QED BY <2>1, <1>1, <1>7, <1>8, <1>9

\* What the loop over the layers starts with.
IsStart(v, snapshot) ==
    v = [lines |-> <<Line(<<>>, <<Canvas(0)>>)>>, canvas |-> 0, episode |-> 0,
         used |-> [i \in DOMAIN snapshot.assets |-> 0]]

LEMMA StartIsDrawn ==
  ASSUME NEW A, NEW snapshot, IsSnapshot(snapshot, A), NEW B, NEW v, IsStart(v, snapshot)
  PROVE  IsDrawnTo(snapshot, B, 0, v)
<1>1. PICK m, X : m = Len(snapshot.assets) /\ X = Seq(Lines)
  OBVIOUS
<1>2. PICK c, first, zeros : c = Canvas(0) /\ first = <<Line(<<>>, <<c>>)>> /\ zeros = [i \in 1..m |-> 0]
  OBVIOUS
<1>3. m \in Nat /\ DOMAIN snapshot.assets = 1..m
  BY <1>1, SnapshotFacts
<1>4. v = [lines |-> first, canvas |-> 0, episode |-> 0, used |-> zeros]
  BY <1>2, <1>3 DEF IsStart
<1>5. c \in Labels
  BY <1>2, CanvasIs
<1>6. PICK takes, gives, G, none : takes = <<>> /\ gives = <<c>> /\ G = {c} /\ none = {}
  OBVIOUS
<1>7. Lists(takes, none) /\ Lists(gives, G) /\ \A x \in none : IsInput(x) \/ x \in B
  <2>1. Lists(<<>>, {}) /\ Lists(<<c>>, {c})
    BY <1>5, ListsOfLabels
  <2> QED BY <2>1, <1>6
<1>8. PartOf(first, B, G, none)
  <2>1. PartOf(<<Line(takes, gives)>>, B, G, none)
    BY <1>7, OneLine
  <2> QED BY <2>1, <1>2, <1>6
<1>9. first \in X
  BY <1>1, <1>8 DEF PartOf
<1>10. v \in States(m)
  <2>1. zeros \in [1..m -> Nat] /\ 0 \in Nat
    BY <1>2
  <2>2. v \in [lines : X, canvas : Nat, episode : Nat, used : [1..m -> Nat]]
    BY <2>1, <1>4, <1>9
  <2> QED BY <2>2, <1>1 DEF States
<1>11. v.lines = first /\ v.canvas = 0 /\ v.episode = 0 /\ v.used = zeros
  BY <1>4
<1>12. TakenBy(v, m) = none
  <2>1. "episode_layer" \in Names
    BY DEF Names
  <2>2. Numbers("episode_layer", 0) = {}
    BY <2>1, NumbersGrow
  <2>3. \A i \in 1..m : AssetLabelsBelow(i, zeros[i]) = {}
    BY <1>2 DEF AssetLabelsBelow
  <2>4. UsedUp(zeros, m) = {}
    BY <2>3 DEF UsedUp
  <2> QED BY <2>2, <2>4, <1>6, <1>11 DEF TakenBy
<1>13. IsDrawing(first, 0, B, none)
  <2>1. PartOf(first, B, none \cup {c}, none \cup none)
    <3>1. none \cup {c} = G /\ none \cup none = none
      BY <1>6
    <3> QED BY <3>1, <1>8
  <2>2. \A x \in none : Named(x, {"canvas", "prepared"}) /\ x[3] \in Int /\ x[3] < 0
    BY <1>6
  <2> QED BY <2>1, <2>2, <1>2 DEF IsDrawing
<1>14. \A S : Cardinality(UpToIn(S, 0)) = 0
  BY Counted
<1>15. \A i \in 1..m : v.used[i] = 0
  BY <1>2, <1>11
<1> QED
  BY <1>1, <1>10, <1>11, <1>12, <1>13, <1>14, <1>15 DEF IsDrawnTo

LEMMA StepIsAState ==
  ASSUME NEW A, NEW snapshot, IsSnapshot(snapshot, A), NEW v \in States(Len(snapshot.assets)),
         NEW l \in 1..Len(snapshot.layers), NEW w, IsStepOf(w, snapshot, v, l)
  PROVE  w \in States(Len(snapshot.assets))
<1>1. PICK m : m = Len(snapshot.assets)
  OBVIOUS
<1>2. m \in Nat /\ v \in States(m)
  BY <1>1, SnapshotFacts
<1>3. Drawn(v) \in States(m)
  BY <1>2, DrawnIs
<1>4. ShowsEpisode(v) \in States(m)
  <2>1. PICK source : source = Label("episode_layer", v.episode)
    OBVIOUS
  <2> QED BY <2>1, <1>2, ShowsEpisodeIs
<1>5. \A i \in 1..m : v.used[i] < UsesOf(snapshot, i) => ShowsAsset(snapshot, v, i) \in States(m)
  <2> TAKE i \in 1..m
  <2> HAVE v.used[i] < UsesOf(snapshot, i)
  <2>1. PICK source : IsUseOf(source, i, v.used[i])
    BY DEF IsUseOf
  <2>2. i \in 1..Len(snapshot.assets) /\ v \in States(Len(snapshot.assets))
    BY <1>1
  <2>3. ShowsAsset(snapshot, v, i) \in States(Len(snapshot.assets))
    BY <2>1, <2>2, ShowsAssetIs
  <2> QED BY <2>3, <1>1
<1>6. \A i \in 1..m : v.used[i] \in Nat /\ UsesOf(snapshot, i) \in Nat
  <2>1. PICK X : X = Seq(Lines)
    OBVIOUS
  <2>2. v.used \in [1..m -> Nat]
    BY <2>1, <1>2 DEF States
  <2>3. \A i \in 1..m : UsesOf(snapshot, i) \in Nat
    BY <1>1, AssetLabelsAre
  <2> QED BY <2>2, <2>3
<1>7. \/ w \in {v, Drawn(v), ShowsEpisode(v)}
      \/ \E i \in 1..m : w = IF v.used[i] >= UsesOf(snapshot, i) THEN v ELSE ShowsAsset(snapshot, v, i)
  BY <1>1, StepOfLayer
<1> QED
  BY <1>1, <1>2, <1>3, <1>4, <1>5, <1>6, <1>7

LayeredBy(f, snapshot, start) ==
    f = [k \in 0..Len(snapshot.layers) |->
           IF k = 0 THEN start ELSE LayerStep(snapshot, f[k - 1], snapshot.layers[k])]

IsLayering(f, snapshot, start) == f = CHOOSE g : LayeredBy(g, snapshot, start)

LEMMA LayersAreDrawn ==
  ASSUME NEW A, NEW snapshot, IsSnapshot(snapshot, A), NEW L \in Nat,
         L = Cardinality(UpToIn(EpisodeUsers(snapshot), Len(snapshot.layers))),
         NEW B, B = GivenBefore(snapshot, L), NEW start, IsStart(start, snapshot),
         NEW f, IsLayering(f, snapshot, start)
  PROVE  IsDrawnTo(snapshot, B, Len(snapshot.layers), f[Len(snapshot.layers)])
<1>1. PICK n, V : n = Len(snapshot.layers) /\ V = States(Len(snapshot.assets))
  OBVIOUS
<1>2. n \in Nat
  BY <1>1, SnapshotFacts
<1>3. IsDrawnTo(snapshot, B, 0, start) /\ start \in V
  <2>1. IsDrawnTo(snapshot, B, 0, start)
    BY StartIsDrawn
  <2> QED BY <2>1, <1>1 DEF IsDrawnTo
<1> DEFINE Next(v, k) == LayerStep(snapshot, v, snapshot.layers[k])
<1>4. \A k \in 1..n : \A v \in V : Next(v, k) \in V
  <2> TAKE k \in 1..n
  <2> TAKE v \in V
  <2>1. PICK w : w = Next(v, k)
    OBVIOUS
  <2>2. IsStepOf(w, snapshot, v, k)
    BY <2>1 DEF IsStepOf
  <2>3. k \in 1..Len(snapshot.layers) /\ v \in States(Len(snapshot.assets))
    BY <1>1
  <2>4. w \in States(Len(snapshot.assets))
    BY <2>2, <2>3, StepIsAState
  <2> QED BY <2>1, <2>4, <1>1
<1> HIDE DEF Next
<1>5. PICK step : step = [k \in 1..n |-> [v \in V |-> Next(v, k)]]
  OBVIOUS
<1>6. step \in [1..n -> [V -> V]]
  <2>1. \A k \in 1..n : [v \in V |-> Next(v, k)] \in [V -> V]
    BY <1>4
  <2> QED BY <2>1, <1>5
<1>7. PICK h : IsRun(h, V, n, start, step)
  BY <1>2, <1>3, <1>6, Runs
<1>8. h \in [0..n -> V] /\ h[0] = start /\ \A k \in 1..n : h[k] = Next(h[k - 1], k)
  <2>1. h \in [0..n -> V] /\ h[0] = start /\ \A k \in 1..n : h[k] = step[k][h[k - 1]]
    BY <1>7 DEF IsRun
  <2>2. \A k \in 1..n : h[k - 1] \in V
    <3> TAKE k \in 1..n
    <3>1. k - 1 \in 0..n
      BY <1>2
    <3> QED BY <3>1, <2>1
  <2> QED BY <2>1, <2>2, <1>5
<1>9. LayeredBy(h, snapshot, start)
  <2>1. \A k \in 0..n : h[k] = IF k = 0 THEN start ELSE Next(h[k - 1], k)
    <3> TAKE k \in 0..n
    <3>1. k = 0 \/ k \in 1..n
      BY <1>2
    <3> QED BY <3>1, <1>8
  <2>2. h = [k \in 0..n |-> IF k = 0 THEN start ELSE Next(h[k - 1], k)]
    BY <2>1, <1>8
  <2> QED BY <2>2, <1>1 DEF LayeredBy, Next
<1>10. LayeredBy(f, snapshot, start)
  BY <1>9 DEF IsLayering
<1>11. f[0] = start /\ \A k \in 1..n : f[k] = Next(f[k - 1], k)
  <2>1. f = [k \in 0..n |-> IF k = 0 THEN start ELSE Next(f[k - 1], k)]
    BY <1>1, <1>10 DEF LayeredBy, Next
  <2>2. 0 \in 0..n /\ \A k \in 1..n : k \in 0..n /\ k # 0
    BY <1>2
  <2> QED BY <2>1, <2>2
<1> DEFINE Good(k) == IsDrawnTo(snapshot, B, k, f[k])
           S == {k \in 0..n : Good(k)}
<1>12. ASSUME NEW k \in 1..n, Good(k - 1) PROVE Good(k)
  <2>1. PICK v, w : v = f[k - 1] /\ w = f[k]
    OBVIOUS
  <2>2. IsStepOf(w, snapshot, v, k)
    BY <2>1, <1>11 DEF IsStepOf, Next
  <2>3. k \in 1..Len(snapshot.layers) /\ IsDrawnTo(snapshot, B, k - 1, v)
    BY <2>1, <1>1, <1>12
  <2>4. IsDrawnTo(snapshot, B, k, w)
    BY <2>2, <2>3, LayerGoesOn
  <2> QED BY <2>1, <2>4
<1>13. \A k \in 0..n : k \in S
  <2>1. 0 \in S /\ \A k \in 1..n : k - 1 \in S => k \in S
    <3>1. 0 \in 0..n /\ \A k \in 1..n : k \in 0..n
      BY <1>2
    <3> QED BY <3>1, <1>3, <1>11, <1>12
  <2> HIDE DEF S
  <2> QED BY <2>1, <1>2, Throughout
<1>14. Good(n)
  <2>1. n \in 0..n
    BY <1>2
  <2> QED BY <2>1, <1>13
<1> QED
  BY <1>1, <1>14

\* The graphics are drawn on the canvas of the last layer.
GraphicBy(f, snapshot, last) ==
    f = [k \in 0..Len(snapshot.graphics) |->
           IF k = 0 THEN last ELSE IF snapshot.graphics[k] THEN Drawn(f[k - 1]) ELSE f[k - 1]]

IsGraphic(f, snapshot, last) == f = CHOOSE g : GraphicBy(g, snapshot, last)

IsShown(v, m, B, T) == v \in States(m) /\ IsDrawing(v.lines, v.canvas, B, T)

LEMMA GraphicsAreDrawn ==
  ASSUME NEW A, NEW snapshot, IsSnapshot(snapshot, A), NEW m \in Nat, NEW B, NEW T, Outside(T),
         NEW last, IsShown(last, m, B, T), NEW f, IsGraphic(f, snapshot, last)
  PROVE  IsShown(f[Len(snapshot.graphics)], m, B, T)
<1>1. PICK n, V : n = Len(snapshot.graphics) /\ V = States(m)
  OBVIOUS
<1>2. n \in Nat /\ last \in V /\ \A v \in V : Drawn(v) \in V
  <2>1. \A v \in States(m) : Drawn(v) \in States(m)
    BY DrawnIs
  <2> QED BY <2>1, <1>1, SnapshotFacts DEF IsShown
<1> DEFINE Next(v, k) == IF snapshot.graphics[k] THEN Drawn(v) ELSE v
<1>3. \A k \in 1..n : \A v \in V : Next(v, k) \in V
  BY <1>2
<1>4. \A v : IsShown(v, m, B, T) => IsShown(Drawn(v), m, B, T)
  <2> TAKE v
  <2> HAVE IsShown(v, m, B, T)
  <2>1. v \in States(m) /\ IsDrawing(v.lines, v.canvas, B, T)
    BY DEF IsShown
  <2>2. /\ Drawn(v) \in States(m) /\ Drawn(v).canvas = v.canvas + 1
        /\ Drawn(v).lines = v.lines \o <<Line(<<Canvas(v.canvas)>>, <<Canvas(v.canvas + 1)>>)>>
    BY <2>1, DrawnIs
  <2>3. PICK lines, c : lines = v.lines /\ c = v.canvas
    OBVIOUS
  <2>4. c \in Nat
    <3>1. PICK X : X = Seq(Lines)
      OBVIOUS
    <3> QED BY <3>1, <2>1, <2>3 DEF States
  <2>5. IsDrawing(lines \o <<Line(<<Canvas(c)>>, <<Canvas(c + 1)>>)>>, c + 1, B, T)
    BY <2>1, <2>3, <2>4, DrawnGoesOn
  <2> QED BY <2>2, <2>3, <2>5 DEF IsShown
<1>5. \A v, k : IsShown(v, m, B, T) => IsShown(Next(v, k), m, B, T)
  BY <1>4
<1> HIDE DEF Next
<1>6. PICK step : step = [k \in 1..n |-> [v \in V |-> Next(v, k)]]
  OBVIOUS
<1>7. step \in [1..n -> [V -> V]]
  <2>1. \A k \in 1..n : [v \in V |-> Next(v, k)] \in [V -> V]
    BY <1>3
  <2> QED BY <2>1, <1>6
<1>8. PICK h : IsRun(h, V, n, last, step)
  BY <1>2, <1>7, Runs
<1>9. h \in [0..n -> V] /\ h[0] = last /\ \A k \in 1..n : h[k] = Next(h[k - 1], k)
  <2>1. h \in [0..n -> V] /\ h[0] = last /\ \A k \in 1..n : h[k] = step[k][h[k - 1]]
    BY <1>8 DEF IsRun
  <2>2. \A k \in 1..n : h[k - 1] \in V
    <3> TAKE k \in 1..n
    <3>1. k - 1 \in 0..n
      BY <1>2
    <3> QED BY <3>1, <2>1
  <2> QED BY <2>1, <2>2, <1>6
<1>10. GraphicBy(h, snapshot, last)
  <2>1. \A k \in 0..n : h[k] = IF k = 0 THEN last ELSE Next(h[k - 1], k)
    <3> TAKE k \in 0..n
    <3>1. k = 0 \/ k \in 1..n
      BY <1>2
    <3> QED BY <3>1, <1>9
  <2>2. h = [k \in 0..n |-> IF k = 0 THEN last ELSE Next(h[k - 1], k)]
    BY <2>1, <1>9
  <2> QED BY <2>2, <1>1 DEF GraphicBy, Next
<1>11. GraphicBy(f, snapshot, last)
  BY <1>10 DEF IsGraphic
<1>12. f[0] = last /\ \A k \in 1..n : f[k] = Next(f[k - 1], k)
  <2>1. f = [k \in 0..n |-> IF k = 0 THEN last ELSE Next(f[k - 1], k)]
    BY <1>1, <1>11 DEF GraphicBy, Next
  <2>2. 0 \in 0..n /\ \A k \in 1..n : k \in 0..n /\ k # 0
    BY <1>2
  <2> QED BY <2>1, <2>2
<1> DEFINE Good(k) == IsShown(f[k], m, B, T)
           S == {k \in 0..n : Good(k)}
<1>13. \A k \in 1..n : Good(k - 1) => Good(k)
  BY <1>5, <1>12
<1>14. \A k \in 0..n : k \in S
  <2>1. 0 \in S /\ \A k \in 1..n : k - 1 \in S => k \in S
    <3>1. 0 \in 0..n /\ \A k \in 1..n : k \in 0..n
      BY <1>2
    <3> QED BY <3>1, <1>12, <1>13
  <2> HIDE DEF S
  <2> QED BY <2>1, <1>2, Throughout
<1>15. n \in 0..n
  BY <1>2
<1> QED
  BY <1>1, <1>14, <1>15

\* The copies of the Episode that its lines give.
CopiesOf(snapshot) == Cardinality(EpisodeLayers(snapshot, Len(snapshot.layers)))

\* The drawing of the layers takes every label that was given for it.
LEMMA LayerPart ==
  ASSUME NEW A, NEW snapshot, IsSnapshot(snapshot, A), NEW B, B = GivenBefore(snapshot, CopiesOf(snapshot))
  PROVE  \E I : /\ PartOf(LayerLines(snapshot), B, I \cup {Sole("vout")}, I \cup B)
                /\ \A x \in I : Named(x, {"canvas", "prepared"})
<1>1. PICK n, m, L : n = Len(snapshot.layers) /\ m = Len(snapshot.assets) /\ L = CopiesOf(snapshot)
  OBVIOUS
<1>2. n \in Nat /\ m \in Nat /\ L \in Nat /\ L = Cardinality(UpToIn(EpisodeUsers(snapshot), n))
  <2>1. n \in Nat /\ m \in Nat
    BY <1>1, SnapshotFacts
  <2>2. EpisodeLayers(snapshot, n) = UpToIn(EpisodeUsers(snapshot), n)
    BY <1>1 DEF EpisodeLayers, UpToIn, EpisodeUsers
  <2>3. Cardinality(UpToIn(EpisodeUsers(snapshot), n)) \in Nat
    BY <2>1, Counted
  <2> QED BY <2>1, <2>2, <2>3, <1>1 DEF CopiesOf
<1>3. PICK start : IsStart(start, snapshot)
  BY DEF IsStart
<1>4. PICK f : IsLayering(f, snapshot, start)
  BY DEF IsLayering
<1>5. PICK last : last = f[n]
  OBVIOUS
<1>6. IsDrawnTo(snapshot, B, n, last)
  <2>1. L = Cardinality(UpToIn(EpisodeUsers(snapshot), Len(snapshot.layers))) /\ B = GivenBefore(snapshot, L)
    BY <1>1, <1>2
  <2>2. IsDrawnTo(snapshot, B, Len(snapshot.layers), f[Len(snapshot.layers)])
    BY <2>1, <1>2, <1>3, <1>4, LayersAreDrawn
  <2> QED BY <2>2, <1>1, <1>5
<1>7. TakenBy(last, m) = B /\ last \in States(m) /\ IsDrawing(last.lines, last.canvas, B, TakenBy(last, m))
  <2>1. last.episode = L
    BY <1>2, <1>6 DEF IsDrawnTo
  <2>2. \A i \in 1..m : last.used[i] = UsesOf(snapshot, i)
    BY <1>1, <1>6 DEF IsDrawnTo, UsesOf
  <2>3. UsedUp(last.used, m) = AssetsGive(snapshot, m)
    BY <2>2 DEF UsedUp, AssetsGive
  <2> QED BY <2>1, <2>3, <1>1, <1>6 DEF IsDrawnTo, TakenBy, GivenBefore
<1>8. Outside(B)
  BY <1>1, <1>7, TakenIsOutside
<1>9. IsShown(last, m, B, B)
  BY <1>7 DEF IsShown
<1>10. PICK g : IsGraphic(g, snapshot, last)
  BY DEF IsGraphic
<1>11. PICK v : v = g[Len(snapshot.graphics)]
  OBVIOUS
<1>12. v \in States(m) /\ IsDrawing(v.lines, v.canvas, B, B)
  BY <1>2, <1>8, <1>9, <1>10, <1>11, GraphicsAreDrawn DEF IsShown
<1>13. LayerLines(snapshot) = v.lines \o <<Line(<<Canvas(v.canvas)>>, <<Sole("vout")>>)>>
  <2>1. PICK s : s = [lines |-> <<Line(<<>>, <<Canvas(0)>>)>>, canvas |-> 0, episode |-> 0,
                      used |-> [i \in DOMAIN snapshot.assets |-> 0]]
    OBVIOUS
  <2>2. s = start
    BY <2>1, <1>3 DEF IsStart
  <2>3. f = CHOOSE h : h = [k \in 0..Len(snapshot.layers) |->
           IF k = 0 THEN s ELSE LayerStep(snapshot, h[k - 1], snapshot.layers[k])]
    BY <2>2, <1>4 DEF IsLayering, LayeredBy
  <2>4. g = CHOOSE h : h = [k \in 0..Len(snapshot.graphics) |->
           IF k = 0 THEN f[Len(snapshot.layers)]
           ELSE IF snapshot.graphics[k] THEN Drawn(h[k - 1]) ELSE h[k - 1]]
    BY <1>1, <1>5, <1>10 DEF IsGraphic, GraphicBy
  <2> QED BY ONLY <2>1, <2>3, <2>4, <1>11 DEF LayerLines
<1>14. PICK c, lines, o, a : c = v.canvas /\ lines = v.lines /\ o = Sole("vout") /\ a = Canvas(c)
  OBVIOUS
<1>15. /\ c \in Nat /\ a \in Labels /\ a[1] = "canvas" /\ a[3] = c
       /\ o \in Labels /\ o[1] = "vout"
  <2>1. PICK X : X = Seq(Lines)
    OBVIOUS
  <2>2. c \in Nat
    BY <2>1, <1>12, <1>14 DEF States
  <2>3. "vout" \in Names /\ -1 \in Int
    BY DEF Names
  <2>4. o \in Labels /\ o[1] = "vout"
    BY <2>3, <1>14, LabelsAreLabels DEF Sole
  <2> QED BY <2>2, <2>4, <1>14, CanvasIs
<1>16. PICK I : /\ PartOf(lines, B, I \cup {a}, I \cup B)
                /\ \A x \in I : Named(x, {"canvas", "prepared"}) /\ x[3] \in Int /\ x[3] < c
  BY <1>12, <1>14 DEF IsDrawing
<1>17. PICK takes, gives, U, G, C, H : /\ takes = <<a>> /\ gives = <<o>> /\ U = {a} /\ G = {o}
                                       /\ H = I \cup {a} /\ C = B \cup H
  OBVIOUS
<1>18. PartOf(<<Line(takes, gives)>>, C, G, U)
  <2>1. Lists(<<a>>, {a}) /\ Lists(<<o>>, {o})
    BY <1>15, ListsOfLabels
  <2>2. Lists(takes, U) /\ Lists(gives, G) /\ \A x \in U : IsInput(x) \/ x \in C
    BY <2>1, <1>17
  <2> QED BY <2>2, OneLine
<1>19. PICK more, W : more = <<Line(takes, gives)>> /\ W = I \cup B
  OBVIOUS
<1>20. PartOf(lines, B, H, W) /\ PartOf(more, B \cup H, G, U)
  BY <1>16, <1>17, <1>18, <1>19
<1>21. H \cap G = {}
  BY <1>15, <1>16, <1>17 DEF Named
<1>22. W \cap U = {}
  BY <1>8, <1>15, <1>16, <1>17, <1>19 DEF Outside, Named
<1>23. PartOf(lines \o more, B, H \cup G, W \cup U)
  BY <1>20, <1>21, <1>22, PartsJoin
<1>24. PICK J : J = I \cup {a}
  OBVIOUS
<1>25. H \cup G = J \cup {o} /\ W \cup U = J \cup B
  BY <1>17, <1>19, <1>24
<1>26. \A x \in J : Named(x, {"canvas", "prepared"})
  BY <1>15, <1>16, <1>24 DEF Named
<1>27. LayerLines(snapshot) = lines \o more
  BY <1>13, <1>14, <1>17, <1>19
<1> QED
  BY <1>14, <1>23, <1>25, <1>26, <1>27

LEMMA MoreBefore ==
  ASSUME NEW lines, NEW B, NEW C, NEW G, NEW T, PartOf(lines, B, G, T), B \subseteq C
  PROVE  PartOf(lines, C, G, T)
<1>1. Reaches(lines, C)
  BY DEF PartOf, Reaches
<1> QED
  BY <1>1 DEF PartOf

\* buildRenderGraph: for every snapshot the lines of its four parts fit each
\* other: every label is given once and taken once after it, no stream of an
\* input is taken twice, and the video and the sound that are mapped to the
\* file are given and left.
THEOREM GraphsAlwaysWired ==
  ASSUME NEW A, NEW snapshot, IsSnapshot(snapshot, A)
  PROVE  IsWired(buildRenderGraph(snapshot))
<1>1. PICK m, L, a, e, l, s :
        /\ m = Len(snapshot.assets) /\ L = CopiesOf(snapshot)
        /\ a = AssetLines(snapshot) /\ e = EpisodeLines(snapshot)
        /\ l = LayerLines(snapshot) /\ s = AudioLines(snapshot)
  OBVIOUS
<1>2. m \in Nat /\ L \in Nat /\ L = Cardinality(EpisodeLayers(snapshot, Len(snapshot.layers)))
  <2>1. m \in Nat /\ Len(snapshot.layers) \in Nat
    BY <1>1, SnapshotFacts
  <2>2. EpisodeLayers(snapshot, Len(snapshot.layers)) = UpToIn(EpisodeUsers(snapshot), Len(snapshot.layers))
    BY DEF EpisodeLayers, UpToIn, EpisodeUsers
  <2>3. Cardinality(UpToIn(EpisodeUsers(snapshot), Len(snapshot.layers))) \in Nat
    BY <2>1, Counted
  <2> QED BY <2>1, <2>2, <2>3, <1>1 DEF CopiesOf
<1>3. PICK GA, TA, P : /\ GA = AssetsGive(snapshot, m) /\ TA = AssetsTake(snapshot, m)
                       /\ P = Numbers("episode_layer", L)
  OBVIOUS
<1>4. PartOf(a, {}, GA, TA)
  BY <1>1, <1>3, AssetPart
<1>5. (\A x \in GA : x[1] = "asset") /\ \A x \in TA : x[1] = "v" /\ x[2] # 0
  <2>1. \A x \in GA : x[1] = "asset"
    BY <1>3 DEF AssetsGive, AssetLabelsBelow
  <2>2. \A x \in TA : \E i \in 1..m : x = Stream(i, "v")
    BY <1>3 DEF AssetsTake
  <2>3. \A i \in 1..m : Stream(i, "v")[1] = "v" /\ Stream(i, "v")[2] = i /\ i # 0
    BY <1>2 DEF Stream
  <2> QED BY <2>1, <2>2, <2>3
<1>6. \A x \in P : x[1] = "episode_layer"
  <2>1. "episode_layer" \in Names
    BY DEF Names
  <2> QED BY <2>1, <1>2, <1>3, NumbersAreNamed
<1>7. PICK I, X : /\ PartOf(e, {}, I \cup P, I \cup X)
                  /\ \A x \in I : x[1] \in {"episode_source", "episode_segment", "episode_timeline"}
                  /\ \A x \in X : x[1] = "v" /\ x[2] = 0
  <2>1. CASE e = <<>> /\ P = {}
    <3>1. PICK none : none = {}
      OBVIOUS
    <3>2. PartOf(e, {}, none, none)
      <4>1. PartOf(<<>>, {}, {}, {})
        BY NoLines
      <4> QED BY <4>1, <2>1, <3>1
    <3>3. none \cup P = none /\ none \cup none = none
      BY <2>1, <3>1
    <3>4. PartOf(e, {}, none \cup P, none \cup none)
      BY <3>2, <3>3
    <3>5. \A x \in none : FALSE
      BY <3>1
    <3> QED BY <3>4, <3>5
  <2>2. CASE \E I : IsCut(e, I, {"episode_source", "episode_segment", "episode_timeline"}, P, Stream(0, "v"))
    <3>1. PICK I : IsCut(e, I, {"episode_source", "episode_segment", "episode_timeline"}, P, Stream(0, "v"))
      BY <2>2
    <3>2. /\ PartOf(e, {}, I \cup P, I \cup {Stream(0, "v")})
          /\ \A x \in I : x[1] \in {"episode_source", "episode_segment", "episode_timeline"}
      BY <3>1 DEF IsCut, Named
    <3>3. PICK z : z = Stream(0, "v")
      OBVIOUS
    <3>4. z[1] = "v" /\ z[2] = 0
      BY <3>3 DEF Stream
    <3>5. PICK X : X = {z}
      OBVIOUS
    <3>6. PartOf(e, {}, I \cup P, I \cup X)
      BY <3>2, <3>3, <3>5
    <3>7. \A x \in X : x[1] = "v" /\ x[2] = 0
      BY <3>4, <3>5
    <3> QED BY <3>2, <3>6, <3>7
  <2> QED BY <2>1, <2>2, <1>1, <1>2, <1>3, EpisodePart
<1>8. PICK B : B = GA \cup P
  OBVIOUS
<1>9. B = GivenBefore(snapshot, CopiesOf(snapshot))
  BY <1>1, <1>3, <1>8 DEF GivenBefore
<1>10. PICK v, o : v = Sole("vout") /\ o = Sole("aout")
  OBVIOUS
<1>11. v[1] = "vout" /\ o[1] = "aout"
  <2>1. "vout" \in Names /\ "aout" \in Names /\ 0 \in Nat
    BY DEF Names
  <2> QED BY <2>1, <1>10, NumbersAreNamed
<1>12. PICK J : PartOf(l, B, J \cup {v}, J \cup B) /\ \A x \in J : x[1] \in {"canvas", "prepared"}
  <2>1. \E J : /\ PartOf(LayerLines(snapshot), B, J \cup {Sole("vout")}, J \cup B)
               /\ \A x \in J : Named(x, {"canvas", "prepared"})
    BY <1>9, LayerPart
  <2> QED BY <2>1, <1>1, <1>10 DEF Named
<1>13. PICK K, Y : /\ PartOf(s, {}, K \cup {o}, K \cup Y)
                   /\ \A x \in K : x[1] \in {"audio_source", "source_audio", "bed_audio"}
                   /\ \A x \in Y : x[1] = "a"
  <2>1. \E K, Y : IsSound(AudioLines(snapshot), K, {"audio_source", "source_audio", "bed_audio"}, {Sole("aout")}, Y)
    BY AudioPart
  <2> QED BY <2>1, <1>1, <1>10 DEF IsSound, Named
<1>14. PICK GE, TE, GL, TL, GS, TS :
         /\ GE = I \cup P /\ TE = I \cup X /\ GL = J \cup {v} /\ TL = J \cup B /\ GS = K \cup {o} /\ TS = K \cup Y
  OBVIOUS
<1>15. PICK G2, T2, G3, T3 : G2 = GA \cup GE /\ T2 = TA \cup TE /\ G3 = G2 \cup GL /\ T3 = T2 \cup TL
  OBVIOUS
<1>16. PartOf(a \o e, {}, G2, T2)
  <2>1. PartOf(e, {} \cup GA, GE, TE)
    BY <1>7, <1>14, MoreBefore
  <2>2. GA \cap GE = {} /\ TA \cap TE = {}
    BY <1>5, <1>6, <1>7, <1>14
  <2> QED BY <2>1, <2>2, <1>4, <1>15, PartsJoin
<1>17. PartOf((a \o e) \o l, {}, G3, T3)
  <2>1. PartOf(l, B, GL, TL)
    BY <1>12, <1>14
  <2>2. B \subseteq {} \cup G2
    BY <1>8, <1>14, <1>15
  <2>3. PartOf(l, {} \cup G2, GL, TL)
    BY <2>1, <2>2, MoreBefore
  <2>4. G2 \cap GL = {}
    BY <1>5, <1>6, <1>7, <1>11, <1>12, <1>14, <1>15
  <2>5. T2 \cap TL = {}
    BY <1>5, <1>6, <1>7, <1>8, <1>12, <1>14, <1>15
  <2> QED BY <2>3, <2>4, <2>5, <1>15, <1>16, PartsJoin
<1>18. PartOf(((a \o e) \o l) \o s, {}, G3 \cup GS, T3 \cup TS)
  <2>1. PartOf(s, {} \cup G3, GS, TS)
    BY <1>13, <1>14, MoreBefore
  <2>2. G3 \cap GS = {}
    BY <1>5, <1>6, <1>7, <1>11, <1>12, <1>13, <1>14, <1>15
  <2>3. T3 \cap TS = {}
    BY <1>5, <1>6, <1>7, <1>8, <1>12, <1>13, <1>14, <1>15
  <2> QED BY <2>1, <2>2, <2>3, <1>17, PartsJoin
<1>19. (G3 \cup GS) \ (T3 \cup TS) = {v, o}
  <2>1. \A x \in (G3 \cup GS) : x \in {v, o} \/ x \in (T3 \cup TS)
    BY <1>8, <1>14, <1>15
  <2>2. v \in G3 /\ o \in GS
    BY <1>14, <1>15
  <2>3. \A x \in (T3 \cup TS) : x[1] # "vout" /\ x[1] # "aout"
    BY <1>5, <1>6, <1>7, <1>8, <1>12, <1>13, <1>14, <1>15
  <2> QED BY <2>1, <2>2, <2>3, <1>11
<1>20. IsWired(((a \o e) \o l) \o s)
  BY <1>10, <1>18, <1>19, WholeIsWired
<1> QED
  BY <1>1, <1>20 DEF buildRenderGraph

-----------------------------------------------------------------------------
(***************************************************************************)
(* CaptionLayout: what wrapLine has placed after k tokens are their words, *)
(* in lines that are good ones.                                            *)
(***************************************************************************)
\* What a recursive function over the members of a sequence makes of it.
IsFold(f, s, V, base, op) ==
    f \in [0..Len(s) -> V] /\ f[0] = base /\ \A k \in 1..Len(s) : f[k] = op[s[k]][f[k - 1]]

FoldOf(s, V, base, op) == CHOOSE v : \E f : IsFold(f, s, V, base, op) /\ v = f[Len(s)]

LEMMA FoldExists ==
  ASSUME NEW S, NEW V, NEW base \in V, NEW op \in [S -> [V -> V]], NEW s \in Seq(S)
  PROVE  \E f : IsFold(f, s, V, base, op)
<1>1. PICK n : n = Len(s)
  OBVIOUS
<1>2. n \in Nat /\ \A k \in 1..n : s[k] \in S
  BY <1>1
<1>3. PICK step : step = [k \in 1..n |-> op[s[k]]]
  OBVIOUS
<1>4. step \in [1..n -> [V -> V]]
  BY <1>2, <1>3
<1>5. PICK f : IsRun(f, V, n, base, step)
  BY <1>2, <1>4, Runs
<1>6. f \in [0..n -> V] /\ f[0] = base /\ \A k \in 1..n : f[k] = step[k][f[k - 1]]
  BY <1>5 DEF IsRun
<1>7. \A k \in 1..n : f[k] = op[s[k]][f[k - 1]]
  BY <1>3, <1>6
<1> QED
  BY <1>1, <1>6, <1>7 DEF IsFold

\* The second begins as the first.
Begins(s, u) == Len(s) <= Len(u) /\ \A k \in 1..Len(s) : s[k] = u[k]

LEMMA FoldsAgree ==
  ASSUME NEW V, NEW base, NEW op, NEW s, NEW u, Len(s) \in Nat, Len(u) \in Nat,
         NEW f, IsFold(f, s, V, base, op), NEW g, IsFold(g, u, V, base, op),
         Begins(s, u)
  PROVE  f[Len(s)] = g[Len(s)]
<1>1. PICK n, m : n = Len(s) /\ m = Len(u)
  OBVIOUS
<1>2. n \in Nat /\ m \in Nat /\ n <= m /\ \A k \in 1..n : s[k] = u[k]
  BY <1>1 DEF Begins
<1>3. /\ f[0] = base /\ g[0] = base
      /\ \A k \in 1..n : f[k] = op[s[k]][f[k - 1]]
      /\ \A k \in 1..m : g[k] = op[u[k]][g[k - 1]]
  BY <1>1 DEF IsFold
<1> DEFINE T == {k \in 0..n : f[k] = g[k]}
<1>4. 0 \in T
  BY <1>2, <1>3
<1>5. \A k \in 1..n : k - 1 \in T => k \in T
  <2> TAKE k \in 1..n
  <2> HAVE k - 1 \in T
  <2>1. k \in 1..m /\ k \in 0..n /\ s[k] = u[k]
    BY <1>1, <1>2
  <2>2. f[k - 1] = g[k - 1]
    OBVIOUS
  <2> QED BY <2>1, <2>2, <1>3
<1>6. \A k \in 0..n : k \in T
  <2> HIDE DEF T
  <2> QED BY <1>2, <1>4, <1>5, Throughout
<1>7. n \in 0..n
  BY <1>2
<1> QED
  BY <1>1, <1>6, <1>7

LEMMA FoldIs ==
  ASSUME NEW V, NEW base, NEW op, NEW s, Len(s) \in Nat, NEW f, IsFold(f, s, V, base, op)
  PROVE  FoldOf(s, V, base, op) = f[Len(s)]
<1>1. \A v : (\E g : IsFold(g, s, V, base, op) /\ v = g[Len(s)]) => v = f[Len(s)]
  <2> TAKE v
  <2> HAVE \E g : IsFold(g, s, V, base, op) /\ v = g[Len(s)]
  <2>1. PICK g : IsFold(g, s, V, base, op) /\ v = g[Len(s)]
    OBVIOUS
  <2>2. Begins(s, s)
    BY DEF Begins
  <2>3. g[Len(s)] = f[Len(s)]
    BY <2>1, <2>2, FoldsAgree
  <2> QED BY <2>1, <2>3
<1>2. \E v : \E g : IsFold(g, s, V, base, op) /\ v = g[Len(s)]
  OBVIOUS
<1> QED
  BY <1>1, <1>2 DEF FoldOf

LEMMA FoldFacts ==
  ASSUME NEW S, NEW V, NEW base \in V, NEW op \in [S -> [V -> V]]
  PROVE  /\ FoldOf(<<>>, V, base, op) = base
         /\ \A s \in Seq(S) : FoldOf(s, V, base, op) \in V
         /\ \A s \in Seq(S) : \A t \in S : FoldOf(Append(s, t), V, base, op) = op[t][FoldOf(s, V, base, op)]
<1>1. FoldOf(<<>>, V, base, op) = base
  <2>1. PICK e : e = <<>>
    OBVIOUS
  <2>2. e \in Seq(S) /\ Len(e) = 0
    BY <2>1
  <2>3. PICK f : IsFold(f, e, V, base, op)
    BY <2>2, FoldExists
  <2>4. FoldOf(e, V, base, op) = f[Len(e)]
    BY <2>2, <2>3, FoldIs
  <2>5. f[0] = base
    BY <2>3 DEF IsFold
  <2> QED BY <2>1, <2>2, <2>4, <2>5
<1>2. \A s \in Seq(S) : FoldOf(s, V, base, op) \in V
  <2> TAKE s \in Seq(S)
  <2>1. PICK f : IsFold(f, s, V, base, op)
    BY FoldExists
  <2>3. Len(s) \in Nat /\ Len(s) \in 0..Len(s)
    OBVIOUS
  <2>2. FoldOf(s, V, base, op) = f[Len(s)]
    BY <2>1, <2>3, FoldIs
  <2> QED BY <2>1, <2>2, <2>3 DEF IsFold
<1>3. \A s \in Seq(S) : \A t \in S : FoldOf(Append(s, t), V, base, op) = op[t][FoldOf(s, V, base, op)]
  <2> TAKE s \in Seq(S)
  <2> TAKE t \in S
  <2>1. PICK u, n : u = Append(s, t) /\ n = Len(s)
    OBVIOUS
  <2>2. u \in Seq(S) /\ n \in Nat /\ Len(u) = n + 1 /\ u[n + 1] = t /\ \A k \in 1..n : u[k] = s[k]
    BY <2>1
  <2>3. PICK f : IsFold(f, s, V, base, op)
    BY FoldExists
  <2>4. PICK g : IsFold(g, u, V, base, op)
    BY <2>2, FoldExists
  <2>5. FoldOf(s, V, base, op) = f[n] /\ FoldOf(u, V, base, op) = g[n + 1]
    <3>1. Len(s) \in Nat /\ Len(u) \in Nat
      BY <2>1, <2>2
    <3>2. FoldOf(s, V, base, op) = f[Len(s)]
      BY <3>1, <2>3, FoldIs
    <3>3. FoldOf(u, V, base, op) = g[Len(u)]
      BY <3>1, <2>4, FoldIs
    <3> QED BY <3>2, <3>3, <2>1, <2>2
  <2>6. f[n] = g[n]
    <3>1. Len(s) \in Nat /\ Len(u) \in Nat /\ Begins(s, u)
      BY <2>1, <2>2 DEF Begins
    <3> QED BY <3>1, <2>1, <2>2, <2>3, <2>4, FoldsAgree
  <2>7. n + 1 \in 1..Len(u) /\ (n + 1) - 1 = n
    BY <2>2
  <2>8. g[n + 1] = op[t][g[n]]
    BY <2>2, <2>4, <2>7 DEF IsFold
  <2> QED BY <2>1, <2>5, <2>6, <2>8
<1> QED
  BY <1>1, <1>2, <1>3

\* A token of a text.
TokenSet == [space : BOOLEAN, width : Nat]

LEMMA MeasureFacts ==
  /\ measureText(<<>>) = 0
  /\ \A s \in Seq(TokenSet) : measureText(s) \in Nat
  /\ \A s \in Seq(TokenSet) : \A t \in TokenSet : measureText(Append(s, t)) = measureText(s) + t.width
<1>1. PICK op : op = [t \in TokenSet |-> [v \in Nat |-> v + t.width]]
  OBVIOUS
<1>2. op \in [TokenSet -> [Nat -> Nat]] /\ \A t \in TokenSet : \A v \in Nat : op[t][v] = v + t.width
  BY <1>1 DEF TokenSet
<1>3. \A s \in Seq(TokenSet) : measureText(s) = FoldOf(s, Nat, 0, op)
  <2> TAKE s \in Seq(TokenSet)
  <2>1. PICK n : n = Len(s)
    OBVIOUS
  <2>2. n \in Nat /\ \A k \in 1..n : s[k] \in TokenSet
    BY ONLY <2>1, s \in Seq(TokenSet)
  <2> DEFINE Solution(h) == h = [k \in 0..n |-> IF k = 0 THEN 0 ELSE h[k - 1] + s[k].width]
  <2>3. \A h : Solution(h) => IsFold(h, s, Nat, 0, op) /\ h[n] \in Nat
    <3> TAKE h
    <3> HAVE Solution(h)
    <3>1. h[0] = 0 /\ DOMAIN h = 0..n /\ \A k \in 1..n : h[k] = h[k - 1] + s[k].width
      <4>1. h = [k \in 0..n |-> IF k = 0 THEN 0 ELSE h[k - 1] + s[k].width]
        OBVIOUS
      <4>2. 0 \in 0..n /\ \A k \in 1..n : k \in 0..n /\ k # 0
        BY ONLY <2>2
      <4> QED BY ONLY <4>1, <4>2
    <3> DEFINE T == {k \in 0..n : h[k] \in Nat}
    <3>2. 0 \in T /\ \A k \in 1..n : k - 1 \in T => k \in T
      <4>1. \A k \in 1..n : s[k].width \in Nat /\ k \in 0..n
        BY <2>2 DEF TokenSet
      <4>2. 0 \in T
        BY <2>2, <3>1
      <4>3. ASSUME NEW k \in 1..n, k - 1 \in T PROVE k \in T
        <5>1. h[k - 1] \in Nat
          BY <4>3
        <5>2. h[k - 1] + s[k].width \in Nat
          BY <5>1, <4>1
        <5> QED BY <5>2, <4>1, <3>1
      <4> QED BY <4>2, <4>3
    <3>3. \A k \in 0..n : k \in T
      <4> HIDE DEF T
      <4> QED BY <3>2, <2>2, Throughout
    <3>4. h = [k \in 0..n |-> h[k]]
      OBVIOUS
    <3>5. h \in [0..n -> Nat]
      BY <3>3, <3>4
    <3>6. \A k \in 1..n : h[k] = op[s[k]][h[k - 1]]
      <4> TAKE k \in 1..n
      <4>1. k - 1 \in 0..n
        BY <2>2
      <4>2. h[k - 1] \in Nat /\ s[k] \in TokenSet
        BY <4>1, <3>3, <2>2
      <4>3. op[s[k]][h[k - 1]] = h[k - 1] + s[k].width
        BY <4>2, <1>2
      <4>4. h[k] = h[k - 1] + s[k].width
        BY <3>1
      <4> QED BY <4>3, <4>4
    <3>7. 0 \in 0..n /\ n \in 0..n
      BY <2>2
    <3> HIDE DEF Solution
    <3>8. h[n] \in Nat
      BY <3>5, <3>7
    <3> QED BY <3>1, <3>5, <3>6, <3>8, <2>1 DEF IsFold
  <2>4. \E h : Solution(h)
    <3>1. PICK f : IsFold(f, s, Nat, 0, op)
      BY <1>2, FoldExists
    <3>2. f \in [0..n -> Nat] /\ f[0] = 0 /\ \A k \in 1..n : f[k] = op[s[k]][f[k - 1]]
      BY <3>1, <2>1 DEF IsFold
    <3>3. \A k \in 0..n : f[k] = IF k = 0 THEN 0 ELSE f[k - 1] + s[k].width
      <4> TAKE k \in 0..n
      <4>1. k = 0 => f[k] = 0
        BY <3>2
      <4>2. ASSUME k # 0 PROVE f[k] = f[k - 1] + s[k].width
        <5>1. k \in 1..n /\ k - 1 \in 0..n
          BY <4>2, <2>2
        <5>2. f[k - 1] \in Nat /\ s[k] \in TokenSet
          BY <5>1, <3>2, <2>2
        <5>3. op[s[k]][f[k - 1]] = f[k - 1] + s[k].width
          BY <5>2, <1>2
        <5> QED BY <5>1, <5>3, <3>2
      <4> QED BY <4>1, <4>2
    <3>4. f = [k \in 0..n |-> f[k]]
      BY <3>2
    <3>5. f = [k \in 0..n |-> IF k = 0 THEN 0 ELSE f[k - 1] + s[k].width]
      BY <3>3, <3>4
    <3> QED BY <3>5
  <2>5. PICK h : h = CHOOSE g : Solution(g)
    OBVIOUS
  <2>6. measureText(s) = h[n]
    BY <2>1, <2>5 DEF measureText
  <2>7. IsFold(h, s, Nat, 0, op)
    BY <2>3, <2>4, <2>5
  <2>8. FoldOf(s, Nat, 0, op) = h[Len(s)]
    BY <2>1, <2>2, <2>7, FoldIs
  <2> QED BY <2>1, <2>6, <2>8
<1>4. 0 \in Nat
  OBVIOUS
<1>5. PICK N, zero : N = Nat /\ zero = 0
  OBVIOUS
<1>6. zero \in N /\ op \in [TokenSet -> [N -> N]]
  BY <1>2, <1>5
<1>7. /\ FoldOf(<<>>, N, zero, op) = zero
      /\ \A s \in Seq(TokenSet) : FoldOf(s, N, zero, op) \in N
      /\ \A s \in Seq(TokenSet) : \A t \in TokenSet : FoldOf(Append(s, t), N, zero, op) = op[t][FoldOf(s, N, zero, op)]
  BY <1>6, FoldFacts
<1>8. <<>> \in Seq(TokenSet) /\ \A s \in Seq(TokenSet) : \A t \in TokenSet : Append(s, t) \in Seq(TokenSet)
  OBVIOUS
<1>9. \A s \in Seq(TokenSet) : measureText(s) = FoldOf(s, N, zero, op)
  BY <1>3, <1>5
<1>10. measureText(<<>>) = 0
  BY <1>5, <1>7, <1>8, <1>9
<1>11. \A s \in Seq(TokenSet) : measureText(s) \in Nat
  BY <1>5, <1>7, <1>9
<1>12. \A s \in Seq(TokenSet) : \A t \in TokenSet : measureText(Append(s, t)) = measureText(s) + t.width
  <2> TAKE s \in Seq(TokenSet)
  <2> TAKE t \in TokenSet
  <2>1. Append(s, t) \in Seq(TokenSet)
    OBVIOUS
  <2>2. measureText(Append(s, t)) = op[t][measureText(s)]
    BY <2>1, <1>5, <1>7, <1>9
  <2>3. PICK v \in Nat : v = measureText(s)
    BY <1>11
  <2> QED BY <2>2, <2>3, <1>2
<1> QED
  BY <1>10, <1>11, <1>12

\* The words of a text, and those of its first k tokens.
IsWording(f, s) ==
    /\ f \in [0..Len(s) -> Seq(TokenSet)] /\ f[0] = <<>>
    /\ \A k \in 1..Len(s) : f[k] = IF s[k].space THEN f[k - 1] ELSE Append(f[k - 1], s[k])

LEMMA WordsFacts ==
  /\ Words(<<>>) = <<>>
  /\ \A s \in Seq(TokenSet) : Words(s) \in Seq(TokenSet)
  /\ \A s \in Seq(TokenSet) : \A t \in TokenSet :
       Words(Append(s, t)) = IF t.space THEN Words(s) ELSE Append(Words(s), t)
  /\ \A s \in Seq(TokenSet) : \E f : IsWording(f, s) /\ f[Len(s)] = Words(s)
<1>1. PICK X, none : X = Seq(TokenSet) /\ none = <<>>
  OBVIOUS
<1> DEFINE More(v, t) == IF t.space THEN v ELSE Append(v, t)
<1>2. none \in X /\ \A t \in TokenSet : \A v \in X : More(v, t) \in X
  BY <1>1
<1> HIDE DEF More
<1>3. PICK op : op = [t \in TokenSet |-> [v \in X |-> More(v, t)]]
  OBVIOUS
<1>4. op \in [TokenSet -> [X -> X]] /\ \A t \in TokenSet : \A v \in X : op[t][v] = More(v, t)
  <2>1. \A t \in TokenSet : [v \in X |-> More(v, t)] \in [X -> X]
    BY <1>2
  <2> QED BY <2>1, <1>3
<1>5. ASSUME NEW s \in Seq(TokenSet)
      PROVE  \E h : Words(s) = h[Len(s)] /\ IsFold(h, s, X, none, op)
  <2>1. PICK n : n = Len(s)
    OBVIOUS
  <2>2. n \in Nat /\ \A k \in 1..n : s[k] \in TokenSet
    BY <2>1
  <2> DEFINE Solution(h) == h = [k \in 0..n |-> IF k = 0 THEN none ELSE More(h[k - 1], s[k])]
  <2>3. \A h : Solution(h) => IsFold(h, s, X, none, op)
    <3> TAKE h
    <3> HAVE Solution(h)
    <3>1. h[0] = none /\ DOMAIN h = 0..n /\ \A k \in 1..n : h[k] = More(h[k - 1], s[k])
      BY <2>2
    <3>2. h = [k \in 0..n |-> h[k]]
      BY <3>1
    <3> HIDE DEF Solution
    <3> DEFINE T == {k \in 0..n : h[k] \in X}
    <3>3. 0 \in T /\ \A k \in 1..n : k - 1 \in T => k \in T
      BY <1>2, <2>2, <3>1
    <3>4. \A k \in 0..n : k \in T
      <4> HIDE DEF T
      <4> QED BY <3>3, <2>2, Throughout
    <3>5. h \in [0..n -> X]
      BY <3>2, <3>4
    <3>6. \A k \in 1..n : h[k] = op[s[k]][h[k - 1]]
      <4> TAKE k \in 1..n
      <4>1. k - 1 \in 0..n
        BY <2>2
      <4>2. h[k - 1] \in X /\ s[k] \in TokenSet
        BY <4>1, <3>4, <2>2
      <4>3. op[s[k]][h[k - 1]] = More(h[k - 1], s[k])
        BY <4>2, <1>4
      <4> QED BY <4>3, <3>1
    <3> QED BY <3>1, <3>5, <3>6, <2>1 DEF IsFold
  <2>4. \E h : Solution(h)
    <3>1. PICK f : IsFold(f, s, X, none, op)
      BY <1>2, <1>4, FoldExists
    <3>2. f \in [0..n -> X] /\ f[0] = none /\ \A k \in 1..n : f[k] = op[s[k]][f[k - 1]]
      BY <3>1, <2>1 DEF IsFold
    <3>3. \A k \in 0..n : f[k] = IF k = 0 THEN none ELSE More(f[k - 1], s[k])
      <4> TAKE k \in 0..n
      <4>1. k = 0 => f[k] = none
        BY <3>2
      <4>2. ASSUME k # 0 PROVE f[k] = More(f[k - 1], s[k])
        <5>1. k \in 1..n /\ k - 1 \in 0..n
          BY <4>2, <2>2
        <5>2. f[k - 1] \in X /\ s[k] \in TokenSet
          BY <5>1, <3>2, <2>2
        <5>3. op[s[k]][f[k - 1]] = More(f[k - 1], s[k])
          BY <5>2, <1>4
        <5> QED BY <5>1, <5>3, <3>2
      <4> QED BY <4>1, <4>2
    <3>4. f = [k \in 0..n |-> f[k]]
      BY <3>2
    <3>5. f = [k \in 0..n |-> IF k = 0 THEN none ELSE More(f[k - 1], s[k])]
      BY <3>3, <3>4
    <3> QED BY <3>5
  <2>5. PICK h : h = CHOOSE g : Solution(g)
    OBVIOUS
  <2>6. Words(s) = h[n]
    BY <2>1, <2>5, <1>1 DEF Words, More
  <2>7. IsFold(h, s, X, none, op)
    BY <2>3, <2>4, <2>5
  <2> QED BY <2>1, <2>6, <2>7
<1>6. \A s \in Seq(TokenSet) : Words(s) = FoldOf(s, X, none, op)
  <2> TAKE s \in Seq(TokenSet)
  <2>1. PICK h : Words(s) = h[Len(s)] /\ IsFold(h, s, X, none, op)
    BY <1>5
  <2>2. Len(s) \in Nat
    OBVIOUS
  <2> QED BY <2>1, <2>2, FoldIs
<1>7. /\ FoldOf(<<>>, X, none, op) = none
      /\ \A s \in Seq(TokenSet) : FoldOf(s, X, none, op) \in X
      /\ \A s \in Seq(TokenSet) : \A t \in TokenSet : FoldOf(Append(s, t), X, none, op) = op[t][FoldOf(s, X, none, op)]
  <2>1. none \in X /\ op \in [TokenSet -> [X -> X]]
    BY <1>2, <1>4
  <2> QED BY <2>1, FoldFacts
<1>8. <<>> \in Seq(TokenSet) /\ \A s \in Seq(TokenSet) : \A t \in TokenSet : Append(s, t) \in Seq(TokenSet)
  OBVIOUS
<1>9. Words(<<>>) = <<>>
  BY <1>1, <1>6, <1>7, <1>8
<1>10. \A s \in Seq(TokenSet) : Words(s) \in X
  BY <1>6, <1>7
<1>11. \A s \in Seq(TokenSet) : \A t \in TokenSet : Words(Append(s, t)) = More(Words(s), t)
  <2> TAKE s \in Seq(TokenSet)
  <2> TAKE t \in TokenSet
  <2>1. Append(s, t) \in Seq(TokenSet)
    OBVIOUS
  <2>2. Words(Append(s, t)) = op[t][Words(s)]
    BY <2>1, <1>6, <1>7
  <2> QED BY <2>2, <1>4, <1>10
<1>12. \A s \in Seq(TokenSet) : \E f : IsWording(f, s) /\ f[Len(s)] = Words(s)
  <2> TAKE s \in Seq(TokenSet)
  <2>1. PICK h : Words(s) = h[Len(s)] /\ IsFold(h, s, X, none, op)
    BY <1>5
  <2>2. Len(s) \in Nat /\ \A k \in 1..Len(s) : s[k] \in TokenSet /\ k - 1 \in 0..Len(s)
    OBVIOUS
  <2>3. h \in [0..Len(s) -> X] /\ h[0] = none /\ \A k \in 1..Len(s) : h[k] = op[s[k]][h[k - 1]]
    BY <2>1 DEF IsFold
  <2>4. \A k \in 1..Len(s) : h[k] = More(h[k - 1], s[k])
    BY <2>2, <2>3, <1>4
  <2>5. IsWording(h, s)
    BY <2>3, <2>4, <1>1 DEF IsWording, More
  <2> QED BY <2>1, <2>5
<1> QED
  BY <1>1, <1>9, <1>10, <1>11, <1>12 DEF More

LEMMA WordsOfFacts ==
  /\ WordsOf(<<>>) = <<>>
  /\ \A s \in Seq(Seq(TokenSet)) : WordsOf(s) \in Seq(TokenSet)
  /\ \A s \in Seq(Seq(TokenSet)) : \A t \in Seq(TokenSet) :
       WordsOf(Append(s, t)) = WordsOf(s) \o Words(t)
<1>1. PICK X, none : X = Seq(TokenSet) /\ none = <<>>
  OBVIOUS
<1> DEFINE More(v, t) == v \o Words(t)
<1>2. none \in X /\ \A t \in X : \A v \in X : More(v, t) \in X
  <2>1. \A t \in X : \A v \in X : v \o Words(t) \in X
    <3> TAKE t \in X
    <3> TAKE v \in X
    <3>1. PICK w : w = Words(t)
      OBVIOUS
    <3>2. w \in Seq(TokenSet) /\ v \in Seq(TokenSet)
      BY <3>1, <1>1, WordsFacts
    <3>3. v \o w \in Seq(TokenSet)
      BY <3>2, Concatenated
    <3> QED BY <3>1, <3>3, <1>1
  <2> QED BY <2>1, <1>1
<1> HIDE DEF More
<1>3. PICK op : op = [t \in X |-> [v \in X |-> More(v, t)]]
  OBVIOUS
<1>4. op \in [X -> [X -> X]] /\ \A t \in X : \A v \in X : op[t][v] = More(v, t)
  <2>1. \A t \in X : [v \in X |-> More(v, t)] \in [X -> X]
    BY <1>2
  <2> QED BY <2>1, <1>3
<1>5. ASSUME NEW s \in Seq(X)
      PROVE  \E h : WordsOf(s) = h[Len(s)] /\ IsFold(h, s, X, none, op)
  <2>1. PICK n : n = Len(s)
    OBVIOUS
  <2>2. n \in Nat /\ \A k \in 1..n : s[k] \in X
    BY <2>1
  <2> DEFINE Solution(h) == h = [k \in 0..n |-> IF k = 0 THEN none ELSE More(h[k - 1], s[k])]
  <2>3. \A h : Solution(h) => IsFold(h, s, X, none, op)
    <3> TAKE h
    <3> HAVE Solution(h)
    <3>1. h[0] = none /\ DOMAIN h = 0..n /\ \A k \in 1..n : h[k] = More(h[k - 1], s[k])
      BY <2>2
    <3>2. h = [k \in 0..n |-> h[k]]
      BY <3>1
    <3> HIDE DEF Solution
    <3> DEFINE T == {k \in 0..n : h[k] \in X}
    <3>3. 0 \in T /\ \A k \in 1..n : k - 1 \in T => k \in T
      BY <1>2, <2>2, <3>1
    <3>4. \A k \in 0..n : k \in T
      <4> HIDE DEF T
      <4> QED BY <3>3, <2>2, Throughout
    <3>5. h \in [0..n -> X]
      BY <3>2, <3>4
    <3>6. \A k \in 1..n : h[k] = op[s[k]][h[k - 1]]
      <4> TAKE k \in 1..n
      <4>1. k - 1 \in 0..n
        BY <2>2
      <4>2. h[k - 1] \in X /\ s[k] \in X
        BY <4>1, <3>4, <2>2
      <4>3. op[s[k]][h[k - 1]] = More(h[k - 1], s[k])
        BY <4>2, <1>4
      <4> QED BY <4>3, <3>1
    <3> QED BY <3>1, <3>5, <3>6, <2>1 DEF IsFold
  <2>4. \E h : Solution(h)
    <3>1. PICK f : IsFold(f, s, X, none, op)
      BY <1>2, <1>4, FoldExists
    <3>2. f \in [0..n -> X] /\ f[0] = none /\ \A k \in 1..n : f[k] = op[s[k]][f[k - 1]]
      BY <3>1, <2>1 DEF IsFold
    <3>3. \A k \in 0..n : f[k] = IF k = 0 THEN none ELSE More(f[k - 1], s[k])
      <4> TAKE k \in 0..n
      <4>1. k = 0 => f[k] = none
        BY <3>2
      <4>2. ASSUME k # 0 PROVE f[k] = More(f[k - 1], s[k])
        <5>1. k \in 1..n /\ k - 1 \in 0..n
          BY <4>2, <2>2
        <5>2. f[k - 1] \in X /\ s[k] \in X
          BY <5>1, <3>2, <2>2
        <5>3. op[s[k]][f[k - 1]] = More(f[k - 1], s[k])
          BY <5>2, <1>4
        <5> QED BY <5>1, <5>3, <3>2
      <4> QED BY <4>1, <4>2
    <3>4. f = [k \in 0..n |-> f[k]]
      BY <3>2
    <3>5. f = [k \in 0..n |-> IF k = 0 THEN none ELSE More(f[k - 1], s[k])]
      BY <3>3, <3>4
    <3> QED BY <3>5
  <2>5. PICK h : h = CHOOSE g : Solution(g)
    OBVIOUS
  <2>6. WordsOf(s) = h[n]
    BY <2>1, <2>5, <1>1 DEF WordsOf, More
  <2>7. IsFold(h, s, X, none, op)
    BY <2>3, <2>4, <2>5
  <2> QED BY <2>1, <2>6, <2>7
<1>6. \A s \in Seq(X) : WordsOf(s) = FoldOf(s, X, none, op)
  <2> TAKE s \in Seq(X)
  <2>1. PICK h : WordsOf(s) = h[Len(s)] /\ IsFold(h, s, X, none, op)
    BY <1>5
  <2>2. Len(s) \in Nat
    OBVIOUS
  <2> QED BY <2>1, <2>2, FoldIs
<1>7. /\ FoldOf(<<>>, X, none, op) = none
      /\ \A s \in Seq(X) : FoldOf(s, X, none, op) \in X
      /\ \A s \in Seq(X) : \A t \in X : FoldOf(Append(s, t), X, none, op) = op[t][FoldOf(s, X, none, op)]
  <2>1. none \in X /\ op \in [X -> [X -> X]]
    BY <1>2, <1>4
  <2> QED BY <2>1, FoldFacts
<1>8. <<>> \in Seq(X) /\ \A s \in Seq(X) : \A t \in X : Append(s, t) \in Seq(X)
  OBVIOUS
<1>9. WordsOf(<<>>) = <<>>
  BY <1>1, <1>6, <1>7, <1>8
<1>10. \A s \in Seq(X) : WordsOf(s) \in X
  BY <1>6, <1>7
<1>11. \A s \in Seq(X) : \A t \in X : WordsOf(Append(s, t)) = More(WordsOf(s), t)
  <2> TAKE s \in Seq(X)
  <2> TAKE t \in X
  <2>1. Append(s, t) \in Seq(X)
    OBVIOUS
  <2>2. WordsOf(Append(s, t)) = op[t][WordsOf(s)]
    BY <2>1, <1>6, <1>7
  <2> QED BY <2>2, <1>4, <1>10
<1> QED
  BY <1>1, <1>9, <1>10, <1>11 DEF More

LEMMA AppendJoined ==
  ASSUME NEW T, NEW s \in Seq(T), NEW u \in Seq(T), NEW t \in T
  PROVE  s \o Append(u, t) = Append(s \o u, t)
<1>1. PICK a, o, m, n : a = Append(u, t) /\ o = s \o u /\ m = Len(s) /\ n = Len(u)
  OBVIOUS
<1>2. /\ a \in Seq(T) /\ m \in Nat /\ n \in Nat /\ Len(a) = n + 1 /\ a[n + 1] = t
      /\ \A k \in 1..n : a[k] = u[k]
  BY <1>1
<1>3. /\ o \in Seq(T) /\ Len(o) = m + n /\ (\A x \in 1..m : o[x] = s[x])
      /\ \A k \in 1..n : o[m + k] = u[k]
  BY <1>1, Concatenated
<1>4. PICK x, y : x = s \o a /\ y = Append(o, t)
  OBVIOUS
<1>5. /\ x \in Seq(T) /\ Len(x) = m + (n + 1) /\ (\A i \in 1..m : x[i] = s[i])
      /\ \A k \in 1..(n + 1) : x[m + k] = a[k]
  BY <1>1, <1>2, <1>4, Concatenated
<1>6. y \in Seq(T) /\ Len(y) = m + n + 1 /\ y[m + n + 1] = t /\ \A i \in 1..(m + n) : y[i] = o[i]
  BY <1>2, <1>3, <1>4
<1>7. \A i \in 1..(m + n + 1) : x[i] = y[i]
  <2> TAKE i \in 1..(m + n + 1)
  <2>1. CASE i \in 1..m
    <3>1. i \in 1..(m + n)
      BY <2>1, <1>2
    <3> QED BY <2>1, <3>1, <1>3, <1>5, <1>6
  <2>2. CASE i = m + n + 1
    <3>1. n + 1 \in 1..(n + 1) /\ i = m + (n + 1)
      BY <2>2, <1>2
    <3>2. x[i] = a[n + 1]
      BY <3>1, <1>5
    <3> QED BY <2>2, <3>2, <1>2, <1>6
  <2>3. CASE i \notin 1..m /\ i # m + n + 1
    <3>1. PICK k : k = i - m
      OBVIOUS
    <3>2. k \in 1..n /\ k \in 1..(n + 1) /\ i = m + k /\ i \in 1..(m + n)
      BY <2>3, <3>1, <1>2
    <3>3. x[i] = a[k] /\ o[i] = u[k] /\ y[i] = o[i] /\ a[k] = u[k]
      BY <3>2, <1>2, <1>3, <1>5, <1>6
    <3> QED BY <3>3
  <2> QED BY <2>1, <2>2, <2>3
<1>8. m + (n + 1) = m + n + 1
  BY <1>2
<1>9. x = [i \in 1..(m + n + 1) |-> x[i]] /\ y = [i \in 1..(m + n + 1) |-> y[i]]
  BY <1>5, <1>6, <1>8
<1>10. x = y
  BY <1>7, <1>9
<1> QED
  BY <1>1, <1>4, <1>10

\* Words and spaces in turn.
IsText(tokens) ==
    /\ tokens \in Seq(TokenSet)
    /\ \A i \in 1..(Len(tokens) - 1) : tokens[i].space # tokens[i + 1].space

IsGood(line, maximum) == measureText(line) > maximum => Len(Words(line)) = 1

LEMMA Trimming ==
  /\ TrimmedEnd(<<>>) = <<>>
  /\ \A b \in Seq(TokenSet) : \A t \in TokenSet :
       /\ TrimmedEnd(Append(b, t)) = IF t.space THEN b ELSE Append(b, t)
       /\ Words(TrimmedEnd(Append(b, t))) = Words(Append(b, t))
<1>1. TrimmedEnd(<<>>) = <<>>
  BY DEF TrimmedEnd
<1>2. ASSUME NEW b \in Seq(TokenSet), NEW t \in TokenSet
      PROVE  TrimmedEnd(Append(b, t)) = IF t.space THEN b ELSE Append(b, t)
  <2>1. PICK c, n : c = Append(b, t) /\ n = Len(b)
    OBVIOUS
  <2>2. c \in Seq(TokenSet) /\ n \in Nat /\ Len(c) = n + 1 /\ c[n + 1] = t /\ c # <<>>
    BY <2>1
  <2>3. \A k \in 1..n : c[k] = b[k]
    BY <2>1
  <2>4. (n + 1) - 1 = n
    BY <2>2
  <2>5. SubSeq(c, 1, n) = b
    <3>1. PICK d : d = SubSeq(c, 1, n)
      OBVIOUS
    <3>2. d \in Seq(TokenSet) /\ Len(d) = n /\ \A k \in 1..n : d[k] = c[k]
      BY <3>1, <2>2
    <3>3. d = [k \in 1..n |-> d[k]] /\ b = [k \in 1..n |-> b[k]]
      BY <3>2, <2>1
    <3>4. \A k \in 1..n : d[k] = b[k]
      BY <3>2, <2>3
    <3> QED BY <3>1, <3>3, <3>4
  <2>6. TrimmedEnd(c) = IF t.space THEN b ELSE c
    BY <2>2, <2>4, <2>5 DEF TrimmedEnd
  <2> QED BY <2>1, <2>6
<1>3. ASSUME NEW b \in Seq(TokenSet), NEW t \in TokenSet
      PROVE  Words(TrimmedEnd(Append(b, t))) = Words(Append(b, t))
  <2>1. CASE t.space
    <3>1. TrimmedEnd(Append(b, t)) = b
      BY <2>1, <1>2
    <3>2. Words(Append(b, t)) = Words(b)
      BY <2>1, WordsFacts
    <3> QED BY <3>1, <3>2
  <2>2. CASE ~t.space
    <3>1. TrimmedEnd(Append(b, t)) = Append(b, t)
      BY <2>2, <1>2
    <3> QED BY <3>1
  <2> QED BY <2>1, <2>2
<1> QED
  BY <1>1, <1>2, <1>3

\* One token makes one word or none, of a width that is its own.
LEMMA OneToken ==
  ASSUME NEW t \in TokenSet, NEW c, c = <<t>>
  PROVE  /\ c \in Seq(TokenSet) /\ c = Append(<<>>, t) /\ Len(c) = 1 /\ c[1] = t
         /\ ~t.space => TrimmedEnd(c) = c /\ Words(c) = c
         /\ t.space => TrimmedEnd(c) = <<>> /\ Words(c) = <<>>
<1>1. PICK none : none = <<>>
  OBVIOUS
<1>2. none \in Seq(TokenSet) /\ c \in Seq(TokenSet) /\ c = Append(none, t) /\ Len(c) = 1 /\ c[1] = t
  BY <1>1
<1>3. TrimmedEnd(c) = IF t.space THEN none ELSE c
  BY <1>2, Trimming
<1>4. Words(c) = IF t.space THEN Words(none) ELSE Append(Words(none), t)
  <2>1. Words(Append(none, t)) = IF t.space THEN Words(none) ELSE Append(Words(none), t)
    BY <1>2, WordsFacts
  <2> QED BY <2>1, <1>2
<1>5. Words(none) = none
  BY <1>1, WordsFacts
<1> QED
  BY <1>1, <1>2, <1>3, <1>4, <1>5

Lettering == [lines : Seq(Seq(TokenSet)), current : Seq(TokenSet)]

\* After k tokens of the text, whose words are W: the words are there, the
\* lines are good, also that under way when its end is trimmed, and only the
\* first of them can be empty.
IsWrapped(v, W, k, tokens, maximum) ==
    /\ v \in Lettering
    /\ WordsOf(v.lines) \o Words(v.current) = W[k]
    /\ \A i \in DOMAIN v.lines : IsGood(v.lines[i], maximum) /\ (v.lines[i] = <<>> => i = 1 /\ tokens[1].space)
    /\ k = 0 => v.current = <<>> /\ v.lines = <<>>
    /\ k > 0 => \E b \in Seq(TokenSet) : v.current = Append(b, tokens[k])
    /\ k > 0 => IF v.lines = <<>> THEN v.current[1] = tokens[1] ELSE ~v.current[1].space
    /\ IsGood(TrimmedEnd(v.current), maximum)

HasWords(lines, words) == WordsOf(lines) = words

IsEnded(lines, v) == lines = Append(v.lines, TrimmedEnd(v.current))

\* What ends a line is a good one, with its words, and empty only if it is
\* the first and begins with a space.
LEMMA LineEnds ==
  ASSUME NEW v, NEW W, NEW k \in Nat \ {0}, NEW tokens, NEW maximum, IsWrapped(v, W, k, tokens, maximum),
         tokens \in Seq(TokenSet), k \in 1..Len(tokens), NEW lines, IsEnded(lines, v)
  PROVE  /\ lines \in Seq(Seq(TokenSet)) /\ lines # <<>>
         /\ HasWords(lines, W[k])
         /\ \A i \in DOMAIN lines : IsGood(lines[i], maximum) /\ (lines[i] = <<>> => i = 1 /\ tokens[1].space)
<1>1. PICK X : X = Seq(TokenSet)
  OBVIOUS
<1>2. PICK old, c, T : old = v.lines /\ c = v.current /\ T = TrimmedEnd(v.current)
  OBVIOUS
<1>3. old \in Seq(X) /\ c \in X
  BY <1>1, <1>2 DEF IsWrapped, Lettering
<1>4. PICK b \in Seq(TokenSet) : c = Append(b, tokens[k])
  BY <1>2 DEF IsWrapped
<1>5. tokens[k] \in TokenSet /\ tokens[1] \in TokenSet
  OBVIOUS
<1>6. T = (IF tokens[k].space THEN b ELSE c) /\ Words(T) = Words(c) /\ T \in X
  BY <1>1, <1>2, <1>3, <1>4, <1>5, Trimming
<1>7. PICK n : n = Len(old)
  OBVIOUS
<1>8. /\ lines \in Seq(X) /\ n \in Nat /\ Len(lines) = n + 1 /\ lines[n + 1] = T
      /\ DOMAIN lines = 1..(n + 1) /\ DOMAIN old = 1..n /\ \A i \in 1..n : lines[i] = old[i]
  <2>1. lines = Append(old, T)
    BY <1>2 DEF IsEnded
  <2> QED BY <2>1, <1>3, <1>6, <1>7
<1>9. WordsOf(lines) = WordsOf(old) \o Words(T)
  <2>1. lines = Append(old, T)
    BY <1>2 DEF IsEnded
  <2> QED BY <2>1, <1>1, <1>3, <1>6, WordsOfFacts
<1>10. WordsOf(lines) = W[k]
  BY <1>2, <1>6, <1>9 DEF IsWrapped
<1>11. \A i \in 1..n : IsGood(lines[i], maximum) /\ (lines[i] = <<>> => i = 1 /\ tokens[1].space)
  BY <1>2, <1>8 DEF IsWrapped
<1>12. IsGood(T, maximum)
  BY <1>2 DEF IsWrapped
<1>13. T = <<>> => n = 0 /\ tokens[1].space
  <2> HAVE T = <<>>
  <2>1. tokens[k].space /\ b = <<>>
    <3>1. c # <<>>
      BY <1>4, <1>5
    <3> QED BY <3>1, <1>6
  <2>2. c[1] = tokens[k]
    BY <2>1, <1>4, <1>5
  <2>3. IF old = <<>> THEN c[1] = tokens[1] ELSE ~c[1].space
    BY <1>2 DEF IsWrapped
  <2>4. old = <<>> /\ tokens[1].space
    BY <2>1, <2>2, <2>3
  <2> QED BY <2>4, <1>7
<1>14. \A i \in 1..(n + 1) : i \in 1..n \/ (i = n + 1 /\ (n = 0 => i = 1))
  BY <1>8
<1>15. lines # <<>>
  BY <1>8
<1> QED
  BY <1>1, <1>8, <1>10, <1>11, <1>12, <1>13, <1>14, <1>15 DEF HasWords

LEMMA PlacedIsWrapped ==
  ASSUME NEW tokens, IsText(tokens), NEW maximum \in Nat, NEW W, IsWording(W, tokens),
         NEW k \in 1..Len(tokens), NEW v, IsWrapped(v, W, k - 1, tokens, maximum),
         NEW w, w = PlaceToken(v, tokens[k], maximum)
  PROVE  IsWrapped(w, W, k, tokens, maximum)
<1>1. PICK X, n, t, old, c : X = Seq(TokenSet) /\ n = Len(tokens) /\ t = tokens[k] /\ old = v.lines /\ c = v.current
  OBVIOUS
<1>2. /\ n \in Nat /\ t \in TokenSet /\ t.space \in BOOLEAN /\ t.width \in Nat /\ k \in Nat \ {0} /\ k - 1 \in Nat
      /\ k \in 1..n /\ tokens \in Seq(TokenSet)
  <2>1. n \in Nat /\ t \in TokenSet /\ k \in 1..n /\ tokens \in Seq(TokenSet)
    BY <1>1 DEF IsText
  <2> QED BY <2>1 DEF TokenSet
<1>3. old \in Seq(X) /\ c \in X
  BY <1>1 DEF IsWrapped, Lettering
<1>4. WordsOf(old) \o Words(c) = W[k - 1]
  BY <1>1 DEF IsWrapped
<1>5. W[k] = (IF t.space THEN W[k - 1] ELSE Append(W[k - 1], t)) /\ W[k - 1] \in X
  <2>1. k - 1 \in 0..n
    BY <1>2
  <2> QED BY <2>1, <1>1, <1>2 DEF IsWording
<1>6. k > 0 /\ k # 0
  BY <1>2
<1>7. WordsOf(old) \in X /\ Words(c) \in X
  BY <1>1, <1>3, WordsFacts, WordsOfFacts
<1>8. c = <<>> <=> k = 1
  <2>1. k - 1 = 0 => c = <<>>
    BY <1>1 DEF IsWrapped
  <2>2. k - 1 > 0 => \E b \in Seq(TokenSet) : c = Append(b, tokens[k - 1])
    BY <1>1 DEF IsWrapped
  <2>3. k - 1 > 0 => k - 1 \in 1..n /\ tokens[k - 1] \in TokenSet
    BY <1>2
  <2>4. k - 1 > 0 => c # <<>>
    BY <2>2, <2>3
  <2> QED BY <2>1, <2>4, <1>2
<1>9. k = 1 => old = <<>>
  BY <1>1, <1>2 DEF IsWrapped
<1>10. CASE c # <<>> /\ ~t.space /\ measureText(Append(c, t)) > maximum
  <2>1. PICK one, lines : one = <<t>> /\ lines = Append(v.lines, TrimmedEnd(v.current))
    OBVIOUS
  <2>2. w = [lines |-> lines, current |-> one]
    BY <2>1, <1>1, <1>10 DEF PlaceToken
  <2>3. k - 1 \in Nat \ {0} /\ k - 1 \in 1..Len(tokens)
    BY <1>1, <1>2, <1>8, <1>10
  <2>4. /\ lines \in Seq(Seq(TokenSet)) /\ lines # <<>> /\ WordsOf(lines) = W[k - 1]
        /\ \A i \in DOMAIN lines : IsGood(lines[i], maximum) /\ (lines[i] = <<>> => i = 1 /\ tokens[1].space)
    <3>1. IsEnded(lines, v) /\ tokens \in Seq(TokenSet)
      BY <2>1, <1>2 DEF IsEnded
    <3>2. lines \in Seq(Seq(TokenSet)) /\ lines # <<>>
      BY <3>1, <2>3, LineEnds
    <3>3. WordsOf(lines) = W[k - 1]
      <4>1. PICK j : j = k - 1
        OBVIOUS
      <4>2. j \in Nat \ {0} /\ IsWrapped(v, W, j, tokens, maximum) /\ j \in 1..Len(tokens)
        BY <4>1, <2>3
      <4>3. HasWords(lines, W[j])
        BY <3>1, <4>2, LineEnds
      <4> QED BY <4>1, <4>3 DEF HasWords
    <3>4. \A i \in DOMAIN lines : IsGood(lines[i], maximum) /\ (lines[i] = <<>> => i = 1 /\ tokens[1].space)
      BY <3>1, <2>3, LineEnds
    <3> QED BY <3>2, <3>3, <3>4
  <2>5. /\ one \in Seq(TokenSet) /\ one = Append(<<>>, t) /\ Len(one) = 1 /\ one[1] = t
        /\ TrimmedEnd(one) = one /\ Words(one) = one
    BY <2>1, <1>2, <1>10, OneToken
  <2>6. WordsOf(lines) \o Words(one) = W[k]
    <3>1. PICK s, u : s = W[k - 1] /\ u = one
      OBVIOUS
    <3>2. s \in Seq(TokenSet) /\ u = <<t>>
      BY <3>1, <2>1, <1>1, <1>5
    <3>3. s \o <<t>> = Append(s, t)
      BY <3>2, <1>2
    <3> QED BY <3>1, <3>2, <3>3, <2>4, <2>5, <1>5, <1>10
  <2>7. IsGood(TrimmedEnd(one), maximum)
    BY <2>5 DEF IsGood
  <2>8. w.lines = lines /\ w.current = one
    BY <2>2
  <2>9. w \in Lettering
    <3>1. PICK XX : XX = Seq(Seq(TokenSet))
      OBVIOUS
    <3>2. lines \in XX /\ one \in X
      BY <3>1, <2>4, <2>5, <1>1
    <3>3. w \in [lines : XX, current : X]
      BY <3>2, <2>2
    <3> QED BY <3>1, <3>3, <1>1 DEF Lettering
  <2>10. \E b \in Seq(TokenSet) : one = Append(b, tokens[k])
    <3>1. <<>> \in Seq(TokenSet)
      OBVIOUS
    <3> QED BY <3>1, <2>5, <1>1
  <2>11. ~one[1].space
    BY <2>5, <1>10
  <2> QED BY <2>4, <2>6, <2>7, <2>8, <2>9, <2>10, <2>11, <1>6 DEF IsWrapped
<1>11. CASE ~(c # <<>> /\ ~t.space /\ measureText(Append(c, t)) > maximum)
  <2>1. PICK more : more = Append(c, t)
    OBVIOUS
  <2>2. w = [lines |-> old, current |-> more]
    BY <2>1, <1>1, <1>11 DEF PlaceToken
  <2>3. more \in X /\ Words(more) = IF t.space THEN Words(c) ELSE Append(Words(c), t)
    <3>1. c \in Seq(TokenSet) /\ more \in X
      BY <2>1, <1>1, <1>2, <1>3
    <3>2. Words(Append(c, t)) = IF t.space THEN Words(c) ELSE Append(Words(c), t)
      BY <3>1, <1>2, WordsFacts
    <3> QED BY <3>1, <3>2, <2>1
  <2>4. w.lines = old /\ w.current = more
    BY <2>2
  <2>5. w \in Lettering
    <3>1. PICK XX : XX = Seq(X)
      OBVIOUS
    <3>2. old \in XX /\ more \in X
      BY <3>1, <2>3, <1>3
    <3>3. w \in [lines : XX, current : X]
      BY <3>2, <2>2
    <3> QED BY <3>1, <3>3, <1>1 DEF Lettering
  <2>6. WordsOf(old) \o Words(more) = W[k]
    <3>1. PICK s, u : s = WordsOf(old) /\ u = Words(c)
      OBVIOUS
    <3>2. s \o u = W[k - 1]
      BY <3>1, <1>4
    <3>5. s \in Seq(TokenSet) /\ u \in Seq(TokenSet)
      BY <3>1, <1>1, <1>7
    <3>3. CASE t.space
      BY <3>1, <3>2, <3>3, <2>3, <1>5
    <3>4. CASE ~t.space
      <4>1. s \o Append(u, t) = Append(s \o u, t)
        BY ONLY <3>5, <1>2, AppendJoined, SMTT(30)
      <4> QED BY <3>1, <3>2, <3>4, <4>1, <2>3, <1>5
    <3> QED BY <3>3, <3>4
  <2>7. IsGood(TrimmedEnd(more), maximum)
    <3>1. CASE t.space
      <4>1. TrimmedEnd(more) = c
        BY <3>1, <2>1, <1>1, <1>2, <1>3, Trimming
      <4>2. CASE k = 1
        <5>1. measureText(c) = 0
          BY <4>2, <1>8, MeasureFacts
        <5> QED BY <5>1, <4>1 DEF IsGood
      <4>3. CASE k # 1
        <5>1. k - 1 \in 1..(n - 1) /\ (k - 1) + 1 = k /\ k - 1 > 0
          BY <4>3, <1>2
        <5>2. ~tokens[k - 1].space
          <6>1. tokens[k - 1].space # tokens[(k - 1) + 1].space
            BY <5>1, <1>1 DEF IsText
          <6>2. tokens[k - 1].space # tokens[k].space
            BY <6>1, <5>1
          <6>3. tokens[k - 1].space \in BOOLEAN /\ tokens[k].space
            <7>1. tokens[k - 1] \in TokenSet
              BY <5>1, <1>2
            <7> QED BY <7>1, <3>1, <1>1 DEF TokenSet
          <6> QED BY <6>2, <6>3
        <5>3. PICK b \in Seq(TokenSet) : c = Append(b, tokens[k - 1])
          BY <5>1, <1>1 DEF IsWrapped
        <5>4. tokens[k - 1] \in TokenSet
          BY <5>1, <1>2
        <5>5. TrimmedEnd(c) = c
          BY <5>2, <5>3, <5>4, Trimming
        <5>6. IsGood(TrimmedEnd(c), maximum)
          BY <1>1 DEF IsWrapped
        <5> QED BY <5>5, <5>6, <4>1
      <4> QED BY <4>2, <4>3
    <3>2. CASE ~t.space
      <4>1. TrimmedEnd(more) = more
        BY <3>2, <2>1, <1>1, <1>2, <1>3, Trimming
      <4>2. CASE c = <<>>
        <5>1. more = <<t>>
          BY <4>2, <2>1
        <5>2. Words(more) = more /\ Len(more) = 1
          BY <5>1, <3>2, <1>2, OneToken
        <5> QED BY <5>2, <4>1 DEF IsGood
      <4>3. CASE c # <<>>
        <5>1. ~(measureText(more) > maximum)
          BY <4>3, <3>2, <2>1, <1>11
        <5> QED BY <5>1, <4>1 DEF IsGood
      <4> QED BY <4>2, <4>3
    <3> QED BY <3>1, <3>2
  <2>8. \E b \in Seq(TokenSet) : more = Append(b, tokens[k])
    BY <2>1, <1>1, <1>3
  <2>9. IF old = <<>> THEN more[1] = tokens[1] ELSE ~more[1].space
    <3>1. CASE k = 1
      <4>1. c = <<>> /\ old = <<>>
        BY <3>1, <1>8, <1>9
      <4>2. more[1] = t
        BY <4>1, <2>1, <1>2
      <4> QED BY <4>1, <4>2, <3>1, <1>1
    <3>2. CASE k # 1
      <4>1. k - 1 > 0 /\ c # <<>>
        BY <3>2, <1>2, <1>8
      <4>2. IF old = <<>> THEN c[1] = tokens[1] ELSE ~c[1].space
        BY <4>1, <1>1 DEF IsWrapped
      <4>3. more[1] = c[1]
        <5>1. c \in Seq(TokenSet) /\ 1 \in 1..Len(c)
          BY <4>1, <1>1, <1>3
        <5> QED BY <5>1, <2>1, <1>2
      <4> QED BY <4>2, <4>3
    <3> QED BY <3>1, <3>2
  <2>10. \A i \in DOMAIN old : IsGood(old[i], maximum) /\ (old[i] = <<>> => i = 1 /\ tokens[1].space)
    BY <1>1 DEF IsWrapped
  <2> QED BY <2>4, <2>5, <2>6, <2>7, <2>8, <2>9, <2>10, <1>6 DEF IsWrapped
<1> QED
  BY <1>10, <1>11

LEMMA EmptyOnly ==
  ASSUME NEW T, NEW s \in Seq(T), Len(s) = 0
  PROVE  s = <<>>
OBVIOUS

LEMMA PlacedIsLettering ==
  ASSUME NEW v \in Lettering, NEW t \in TokenSet, NEW maximum
  PROVE  PlaceToken(v, t, maximum) \in Lettering
<1>1. PICK X, XX : X = Seq(TokenSet) /\ XX = Seq(X)
  OBVIOUS
<1>2. PICK old, c, T : old = v.lines /\ c = v.current /\ T = TrimmedEnd(v.current)
  OBVIOUS
<1>3. old \in Seq(X) /\ c \in X
  BY <1>1, <1>2 DEF Lettering
<1>4. T \in X
  <2>1. CASE c = <<>>
    <3>1. T = TrimmedEnd(c)
      BY <1>2
    <3>2. TrimmedEnd(c) = c
      BY <2>1, Trimming
    <3> QED BY <3>1, <3>2, <1>3
  <2>2. CASE c # <<>>
    <3>1. PICK n : n = Len(c)
      OBVIOUS
    <3>2. n \in Nat /\ n - 1 \in 0..n /\ c[n] \in TokenSet /\ c \in Seq(TokenSet)
      BY <2>2, <3>1, <1>1, <1>3
    <3>3. SubSeq(c, 1, n - 1) \in Seq(TokenSet)
      BY <3>1, <3>2
    <3>4. T = IF c[n].space THEN SubSeq(c, 1, n - 1) ELSE c
      BY <2>2, <3>1, <1>2 DEF TrimmedEnd
    <3> QED BY <3>2, <3>3, <3>4, <1>1
  <2> QED BY <2>1, <2>2
<1>5. PICK ended, more, one : ended = Append(old, T) /\ more = Append(c, t) /\ one = <<t>>
  OBVIOUS
<1>6. ended \in XX /\ old \in XX /\ more \in X /\ one \in X
  BY <1>1, <1>3, <1>4, <1>5
<1>7. PlaceToken(v, t, maximum) \in {[lines |-> ended, current |-> one], [lines |-> old, current |-> more]}
  BY <1>2, <1>5 DEF PlaceToken
<1>8. PlaceToken(v, t, maximum) \in [lines : XX, current : X]
  BY <1>6, <1>7
<1> QED
  BY <1>1, <1>8 DEF Lettering

\* wrapLine: of a text it keeps the words, in lines that are good.
LEMMA WrapLineIs ==
  ASSUME NEW tokens, IsText(tokens), NEW maximum \in Nat, NEW lines, lines = wrapLine(tokens, maximum)
  PROVE  /\ lines \in Seq(Seq(TokenSet)) /\ lines # <<>>
         /\ WordsOf(lines) = Words(tokens)
         /\ \A i \in DOMAIN lines : /\ IsGood(lines[i], maximum)
                                    /\ lines[i] = <<>> => i = 1 /\ (tokens = <<>> \/ tokens[1].space)
<1>1. PICK n, V, start : n = Len(tokens) /\ V = Lettering /\ start = [lines |-> <<>>, current |-> <<>>]
  OBVIOUS
<1>2. n \in Nat /\ tokens \in Seq(TokenSet) /\ \A k \in 1..n : tokens[k] \in TokenSet
  BY <1>1 DEF IsText
<1>3. PICK X, XX, none : X = Seq(TokenSet) /\ XX = Seq(X) /\ none = <<>>
  OBVIOUS
<1>4. start \in V /\ start.lines = none /\ start.current = none /\ none \in X /\ none \in XX
  <2>1. none \in X /\ none \in XX
    BY <1>3
  <2>2. start = [lines |-> none, current |-> none]
    BY <1>1, <1>3
  <2>3. start \in [lines : XX, current : X]
    BY <2>1, <2>2
  <2> QED BY <2>1, <2>2, <2>3, <1>1, <1>3 DEF Lettering
<1>5. PICK W : IsWording(W, tokens) /\ W[n] = Words(tokens)
  BY <1>1, <1>2, WordsFacts
<1>6. IsWrapped(start, W, 0, tokens, maximum)
  <2>1. WordsOf(none) \o Words(none) = W[0]
    <3>1. W[0] = none /\ WordsOf(none) = none /\ Words(none) = none
      BY <1>3, <1>5, WordsFacts, WordsOfFacts DEF IsWording
    <3>2. none \o none = none
      BY <1>3
    <3> QED BY <3>1, <3>2
  <2>2. IsGood(TrimmedEnd(none), maximum)
    <3>1. TrimmedEnd(none) = none /\ measureText(none) = 0
      BY <1>3, Trimming, MeasureFacts
    <3> QED BY <3>1 DEF IsGood
  <2>3. DOMAIN none = {}
    BY <1>3
  <2> QED BY <2>1, <2>2, <2>3, <1>1, <1>3, <1>4 DEF IsWrapped
<1> DEFINE More(v, k) == PlaceToken(v, tokens[k], maximum)
           Solution(h) == h = [k \in 0..n |-> IF k = 0 THEN start ELSE More(h[k - 1], k)]
<1>7. \A k \in 1..n : \A v \in V : More(v, k) \in V
  BY <1>1, <1>2, PlacedIsLettering
<1> HIDE DEF More
<1>8. PICK step : step = [k \in 1..n |-> [v \in V |-> More(v, k)]]
  OBVIOUS
<1>9. step \in [1..n -> [V -> V]]
  <2>1. \A k \in 1..n : [v \in V |-> More(v, k)] \in [V -> V]
    BY <1>7
  <2> QED BY <2>1, <1>8
<1>10. PICK f : IsRun(f, V, n, start, step)
  BY <1>2, <1>4, <1>9, Runs
<1>11. f \in [0..n -> V] /\ f[0] = start /\ \A k \in 1..n : f[k] = More(f[k - 1], k)
  <2>1. f \in [0..n -> V] /\ f[0] = start /\ \A k \in 1..n : f[k] = step[k][f[k - 1]]
    BY <1>10 DEF IsRun
  <2>2. \A k \in 1..n : f[k - 1] \in V
    <3> TAKE k \in 1..n
    <3>1. k - 1 \in 0..n
      BY <1>2
    <3> QED BY <3>1, <2>1
  <2> QED BY <2>1, <2>2, <1>8
<1>12. Solution(f)
  <2>1. \A k \in 0..n : f[k] = IF k = 0 THEN start ELSE More(f[k - 1], k)
    <3> TAKE k \in 0..n
    <3>1. k = 0 \/ k \in 1..n
      BY <1>2
    <3> QED BY <3>1, <1>11
  <2>2. f = [k \in 0..n |-> f[k]]
    BY <1>11
  <2> QED BY <2>1, <2>2
<1>13. PICK done : done = CHOOSE h : Solution(h)
  OBVIOUS
<1>14. Solution(done)
  BY <1>12, <1>13
<1>15. wrapLine(tokens, maximum) = Append(done[n].lines, TrimmedEnd(done[n].current))
  BY <1>1, <1>13 DEF wrapLine, More
<1>16. done[0] = start /\ \A k \in 1..n : done[k] = More(done[k - 1], k)
  <2>1. 0 \in 0..n /\ \A k \in 1..n : k \in 0..n /\ k # 0
    BY <1>2
  <2> QED BY <2>1, <1>14
<1> HIDE DEF Solution
<1> DEFINE Good(k) == IsWrapped(done[k], W, k, tokens, maximum)
           S == {k \in 0..n : Good(k)}
<1>17. ASSUME NEW k \in 1..n, Good(k - 1) PROVE Good(k)
  <2>1. PICK v, w : v = done[k - 1] /\ w = done[k]
    OBVIOUS
  <2>2. w = PlaceToken(v, tokens[k], maximum) /\ k \in 1..Len(tokens)
    BY <2>1, <1>1, <1>16 DEF More
  <2>3. IsWrapped(v, W, k - 1, tokens, maximum)
    BY <2>1, <1>17
  <2>4. IsWrapped(w, W, k, tokens, maximum)
    BY <2>2, <2>3, <1>5, PlacedIsWrapped
  <2> QED BY <2>1, <2>4
<1>18. \A k \in 0..n : k \in S
  <2>1. 0 \in S /\ \A k \in 1..n : k - 1 \in S => k \in S
    <3>1. 0 \in 0..n /\ \A k \in 1..n : k \in 0..n
      BY <1>2
    <3> QED BY <3>1, <1>6, <1>16, <1>17
  <2> HIDE DEF S
  <2> QED BY <2>1, <1>2, Throughout
<1>19. PICK end : end = done[n]
  OBVIOUS
<1>20. IsWrapped(end, W, n, tokens, maximum)
  <2>1. n \in 0..n
    BY <1>2
  <2> QED BY <2>1, <1>18, <1>19
<1>21. IsEnded(lines, end)
  BY <1>15, <1>19 DEF IsEnded
<1>22. CASE n = 0
  <2>1. end = start
    BY <1>16, <1>19, <1>22
  <2>2. lines = <<none>>
    <3>1. TrimmedEnd(none) = none
      BY <1>3, Trimming
    <3>2. Append(none, none) = <<none>>
      BY <1>3
    <3> QED BY <2>1, <3>1, <3>2, <1>4, <1>21 DEF IsEnded
  <2>3. lines \in Seq(X) /\ DOMAIN lines = 1..1 /\ lines[1] = none /\ lines # <<>>
    BY <2>2, <1>4
  <2>4. tokens = <<>>
    <3>1. Len(tokens) = 0 /\ tokens \in Seq(TokenSet)
      BY <1>1, <1>2, <1>22
    <3> QED BY <3>1, EmptyOnly
  <2>5. WordsOf(lines) = Words(tokens)
    <3>1. none \in Seq(Seq(TokenSet)) /\ none \in Seq(TokenSet)
      BY <1>3
    <3>2. WordsOf(Append(none, none)) = WordsOf(none) \o Words(none)
      BY <3>1, WordsOfFacts
    <3>3. Append(none, none) = lines
      BY <2>2, <1>3
    <3>4. WordsOf(none) = none /\ Words(none) = none /\ none \o none = none /\ Words(tokens) = none
      BY <2>4, <1>3, WordsFacts, WordsOfFacts
    <3> QED BY <3>2, <3>3, <3>4
  <2>6. IsGood(none, maximum)
    <3>1. measureText(none) = 0
      BY <1>3, MeasureFacts
    <3> QED BY <3>1 DEF IsGood
  <2> QED BY <2>3, <2>4, <2>5, <2>6, <1>3
<1>23. CASE n # 0
  <2>1. n \in Nat \ {0} /\ n \in 1..Len(tokens)
    BY <1>1, <1>2, <1>23
  <2>2. lines \in Seq(Seq(TokenSet)) /\ lines # <<>>
    BY <2>1, <1>2, <1>20, <1>21, LineEnds
  <2>3. HasWords(lines, W[n])
    BY <2>1, <1>2, <1>20, <1>21, LineEnds
  <2>4. \A i \in DOMAIN lines : IsGood(lines[i], maximum) /\ (lines[i] = <<>> => i = 1 /\ tokens[1].space)
    BY <2>1, <1>2, <1>20, <1>21, LineEnds
  <2> QED BY <2>2, <2>3, <2>4, <1>5 DEF HasWords
<1> QED
  BY <1>22, <1>23

\* The widest line has a width.
LEMMA Widest ==
  ASSUME NEW lines \in Seq(Seq(TokenSet)), lines # <<>>
  PROVE  Max({measureText(lines[i]) : i \in DOMAIN lines}) \in Nat
<1>1. PICK n, M : n = Len(lines) /\ M = {measureText(lines[i]) : i \in DOMAIN lines}
  OBVIOUS
<1>2. n \in Nat \ {0} /\ DOMAIN lines = 1..n /\ \A i \in 1..n : lines[i] \in Seq(TokenSet)
  <2>1. PICK X : X = Seq(TokenSet)
    OBVIOUS
  <2>2. lines \in Seq(X)
    BY <2>1
  <2> QED BY <2>1, <2>2, <1>1
<1>3. \A i \in 1..n : measureText(lines[i]) \in Nat
  BY <1>2, MeasureFacts
<1>4. M \in SUBSET Int /\ M # {} /\ \A x \in M : x \in Nat
  <2>1. 1 \in DOMAIN lines
    BY <1>2
  <2> QED BY <2>1, <1>1, <1>2, <1>3
<1> DEFINE S == {k \in 0..n : \E b \in Int : \A i \in 1..k : measureText(lines[i]) <= b}
<1>5. 0 \in S
  BY <1>2
<1>6. \A k \in 1..n : k - 1 \in S => k \in S
  <2> TAKE k \in 1..n
  <2> HAVE k - 1 \in S
  <2>1. PICK b \in Int : \A i \in 1..(k - 1) : measureText(lines[i]) <= b
    OBVIOUS
  <2>2. PICK m \in Nat : m = measureText(lines[k])
    BY <1>3
  <2>3. PICK c \in Int : b <= c /\ m <= c
    <3>1. CASE b <= m
      <4>1. m \in Int /\ m <= m
        OBVIOUS
      <4> QED BY <3>1, <4>1
    <3>2. CASE m <= b
      <4>1. b <= b
        OBVIOUS
      <4> QED BY <3>2, <4>1
    <3> QED BY <3>1, <3>2
  <2>4. \A i \in 1..k : i \in 1..(k - 1) \/ i = k
    BY <1>2
  <2>5. \A i \in 1..k : measureText(lines[i]) <= c
    <3> TAKE i \in 1..k
    <3>1. i \in 1..n
      BY <1>2
    <3>2. PICK x \in Nat : x = measureText(lines[i])
      BY <3>1, <1>3
    <3>3. x <= b \/ x = m
      BY <2>1, <2>2, <2>4, <3>2
    <3> QED BY <2>3, <3>2, <3>3
  <2>6. k \in 0..n
    BY <1>2
  <2> QED BY <2>5, <2>6
<1>7. n \in S
  <2>1. n \in 0..n
    BY <1>2
  <2> HIDE DEF S
  <2> QED BY <2>1, <1>2, <1>5, <1>6, Throughout
<1>8. PICK b \in Int : \A i \in 1..n : measureText(lines[i]) <= b
  BY <1>7
<1>9. \A x \in M : x <= b
  BY <1>1, <1>2, <1>8
<1>10. \E x \in M : \A y \in M : y <= x
  BY <1>4, <1>9, Greatest
<1>11. \A x, y \in M : y <= x <=> x >= y
  BY <1>4
<1>12. Max(M) \in M
  BY <1>10, <1>11 DEF Max
<1> QED
  BY <1>1, <1>4, <1>12

\* An area of a canvas, and one inside it.
Edges == [left : Int, right : Int, top : Int, bottom : Int]

Within(inner, outer) ==
    /\ outer.left <= inner.left /\ inner.right <= outer.right
    /\ outer.top <= inner.top /\ inner.bottom <= outer.bottom

\* layoutCue and the warnings of analyze: whatever the text, the width, the
\* place and the areas are, the words stay, in order; a line that is too
\* wide has one word and a warning; only the first line can be empty; and
\* what leaves the canvas is warned of for the safe area too.
THEOREM CaptionsAlwaysWrapped ==
  ASSUME NEW tokens, IsText(tokens), NEW maximum \in Nat, NEW at \in [x : Int, y : Int],
         NEW canvas \in Edges, NEW safe \in Edges, Within(safe, canvas)
  PROVE  WrappingIsSound(tokens, maximum, at, canvas, safe)
<1>1. PICK lines : lines = wrapLine(tokens, maximum)
  OBVIOUS
<1>2. lines \in Seq(Seq(TokenSet)) /\ lines # <<>>
  BY <1>1, WrapLineIs
<1>3. WordsOf(lines) = Words(tokens)
  BY <1>1, WrapLineIs
<1>4. \A i \in DOMAIN lines : /\ IsGood(lines[i], maximum)
                              /\ lines[i] = <<>> => i = 1 /\ (tokens = <<>> \/ tokens[1].space)
  BY <1>1, WrapLineIs
<1>5. PICK width, height : /\ width = Max({measureText(lines[i]) : i \in DOMAIN lines}) + 2
                           /\ height = Len(lines) + 2
  OBVIOUS
<1>6. width \in Int /\ height \in Int
  <2>1. Max({measureText(lines[i]) : i \in DOMAIN lines}) \in Nat
    BY <1>2, Widest
  <2>2. Len(lines) \in Nat
    BY <1>2
  <2> QED BY <2>1, <2>2, <1>5
<1>7. PICK layout : layout = layoutCue(tokens, maximum, at)
  OBVIOUS
<1>8. layout = [lines |-> lines, left |-> 2 * at.x - width, right |-> 2 * at.x + width,
                top |-> 2 * at.y - height, bottom |-> 2 * at.y + height]
  BY <1>1, <1>5, <1>7 DEF layoutCue
<1>9. PICK l, r, t, b : l = layout.left /\ r = layout.right /\ t = layout.top /\ b = layout.bottom
  OBVIOUS
<1>10. l \in Int /\ r \in Int /\ t \in Int /\ b \in Int /\ layout.lines = lines
  <2>1. PICK x, y \in Int : x = at.x /\ y = at.y
    OBVIOUS
  <2> QED BY <2>1, <1>6, <1>8, <1>9
<1>11. Crosses(layout, canvas) => Crosses(layout, safe)
  <2>1. PICK cl, cr, ct, cb \in Int : cl = canvas.left /\ cr = canvas.right /\ ct = canvas.top /\ cb = canvas.bottom
    BY DEF Edges
  <2>2. PICK sl, sr, st, sb \in Int : sl = safe.left /\ sr = safe.right /\ st = safe.top /\ sb = safe.bottom
    BY DEF Edges
  <2>3. cl <= sl /\ sr <= cr /\ ct <= st /\ sb <= cb
    BY <2>1, <2>2 DEF Within
  <2>4. Crosses(layout, canvas) <=> l < 2 * cl \/ r > 2 * cr \/ t < 2 * ct \/ b > 2 * cb
    BY <2>1, <1>9 DEF Crosses
  <2>5. Crosses(layout, safe) <=> l < 2 * sl \/ r > 2 * sr \/ t < 2 * st \/ b > 2 * sb
    BY <2>2, <1>9 DEF Crosses
  <2> QED BY <2>3, <2>4, <2>5, <1>10
<1>12. \A i \in DOMAIN lines : measureText(lines[i]) > maximum =>
         Len(Words(lines[i])) = 1 /\ "CAPTION_OVERFLOW" \in LayoutWarnings(layout, maximum, canvas, safe)
  BY <1>4, <1>10 DEF IsGood, LayoutWarnings
<1>13. Crosses(layout, canvas) =>
         LayoutWarnings(layout, maximum, canvas, safe) = {"CAPTION_OVERFLOW", "CAPTION_SAFE_AREA"}
  BY <1>11 DEF LayoutWarnings
<1> QED
  BY <1>3, <1>4, <1>7, <1>10, <1>12, <1>13 DEF WrappingIsSound

-----------------------------------------------------------------------------
LEMMA BeginningsAreLines ==
  ASSUME NEW line \in Seq(TokenSet), NEW q \in Beginnings(line)
  PROVE  /\ q \in Seq(TokenSet)
         /\ q = <<>> \/ \E b \in Seq(TokenSet) : \E t \in TokenSet : q = Append(b, t)
<1>1. CASE q = <<>>
  BY <1>1
<1>2. CASE q # <<>>
  <2>1. PICK k \in DOMAIN line : \E w \in 1..line[k].width : q = Append(SubSeq(line, 1, k - 1), [line[k] EXCEPT !.width = w])
    BY <1>2 DEF Beginnings
  <2>2. PICK w \in 1..line[k].width : q = Append(SubSeq(line, 1, k - 1), [line[k] EXCEPT !.width = w])
    BY <2>1
  <2>3. PICK u, t, b : u = line[k] /\ t = [u EXCEPT !.width = w] /\ b = SubSeq(line, 1, k - 1) /\ q = Append(b, t)
    BY <2>2
  <2>4. u \in TokenSet
    BY <2>3
  <2>5. w \in Nat
    BY <2>3, <2>4 DEF TokenSet
  <2>6. t \in TokenSet
    BY <2>3, <2>4, <2>5 DEF TokenSet
  <2>7. b \in Seq(TokenSet)
    <3>1. PICK T : T = TokenSet
      OBVIOUS
    <3>2. line \in Seq(T) /\ k \in 1..Len(line)
      BY <3>1
    <3>3. \A i \in 1..(k - 1) : line[i] \in T
      BY <3>2
    <3>4. SubSeq(line, 1, k - 1) \in Seq(T)
      BY <3>2, <3>3
    <3> QED BY <3>1, <3>4, <2>3
  <2>8. q \in Seq(TokenSet)
    BY <2>3, <2>6, <2>7
  <2> QED BY <2>3, <2>6, <2>7, <2>8
<1> QED
  BY <1>1, <1>2

\* The loop that shortens a line ends with what fits beside the ellipsis, or
\* with nothing.
LEMMA ShortenedFits ==
  ASSUME NEW line \in Seq(TokenSet), NEW maximum \in Nat
  PROVE  /\ Shortened(line, maximum) \in Beginnings(line)
         /\ FitsWithEllipsis(Shortened(line, maximum), maximum)
<1> DEFINE F == {q \in Beginnings(line) : FitsWithEllipsis(q, maximum)}
           W == {measureText(q) : q \in F}
<1>1. <<>> \in F
  BY DEF Beginnings, FitsWithEllipsis
<1>2. \A q \in F : measureText(q) \in Nat /\ measureText(q) <= maximum
  <2> TAKE q \in F
  <2>1. q \in Seq(TokenSet) /\ FitsWithEllipsis(q, maximum)
    BY BeginningsAreLines
  <2>2. PICK v : v = measureText(q)
    OBVIOUS
  <2>3. v \in Nat
    BY <2>1, <2>2, MeasureFacts
  <2>4. v = 0 \/ v + 1 <= maximum
    <3>1. CASE q = <<>>
      BY <3>1, <2>2, MeasureFacts
    <3>2. CASE q # <<>>
      <4>1. measureText(q) + Ellipsis.width <= maximum /\ Ellipsis.width = 1
        BY <2>1, <3>2 DEF FitsWithEllipsis, Ellipsis
      <4> QED BY <4>1, <2>2
    <3> QED BY <3>1, <3>2
  <2> QED BY <2>2, <2>3, <2>4
<1> HIDE DEF F
<1>3. W \in SUBSET Int /\ W # {} /\ (\A x \in W : x <= maximum) /\ maximum \in Int
  BY <1>1, <1>2
<1> HIDE DEF W
<1>4. PICK x \in W : \A y \in W : y <= x
  <2>1. \E x \in W : \A y \in W : y <= x
    BY ONLY <1>3, Greatest
  <2> QED BY <2>1
<1>5. PICK p \in F : x = measureText(p)
  BY <1>4 DEF W
<1>6. \A q \in F : measureText(q) <= measureText(p)
  <2> TAKE q \in F
  <2>1. measureText(q) \in W
    BY DEF W
  <2> QED BY <2>1, <1>4, <1>5
<1>7. /\ p \in Beginnings(line) /\ FitsWithEllipsis(p, maximum)
      /\ \A q \in Beginnings(line) : FitsWithEllipsis(q, maximum) => measureText(q) <= measureText(p)
  BY <1>5, <1>6 DEF F
<1> QED
  BY <1>7 DEF Shortened

\* What is drawn in place of a line that does not fit.
LEMMA CutFits ==
  ASSUME NEW line \in Seq(TokenSet), NEW maximum \in Nat, NEW cut,
         cut = Append(TrimmedEnd(Shortened(line, maximum)), Ellipsis)
  PROVE  measureText(cut) <= maximum \/ cut = <<Ellipsis>>
<1>1. PICK p : p = Shortened(line, maximum)
  OBVIOUS
<1>2. p \in Beginnings(line) /\ FitsWithEllipsis(p, maximum)
  BY <1>1, ShortenedFits
<1>3. PICK h : h = TrimmedEnd(p)
  OBVIOUS
<1>4. cut = Append(h, Ellipsis)
  BY <1>1, <1>3
<1>5. Ellipsis \in TokenSet /\ Ellipsis.width = 1
  BY DEF Ellipsis, TokenSet
<1>6. CASE p = <<>>
  <2>1. h = <<>>
    BY <1>3, <1>6, Trimming
  <2>2. Append(<<>>, Ellipsis) = <<Ellipsis>>
    OBVIOUS
  <2> QED BY <1>4, <2>1, <2>2
<1>7. CASE p # <<>>
  <2>1. PICK b \in Seq(TokenSet) : \E t \in TokenSet : p = Append(b, t)
    BY <1>2, <1>7, BeginningsAreLines
  <2>2. PICK t \in TokenSet : p = Append(b, t)
    BY <2>1
  <2>3. h = b \/ h = p
    <3>1. TrimmedEnd(Append(b, t)) = IF t.space THEN b ELSE Append(b, t)
      BY Trimming
    <3> QED BY <3>1, <2>2, <1>3
  <2>4. p \in Seq(TokenSet)
    BY <1>2, BeginningsAreLines
  <2>5. PICK m, u, v : m = measureText(p) /\ u = measureText(b) /\ v = t.width
    OBVIOUS
  <2>6. m = u + v /\ u \in Nat /\ v \in Nat
    <3>1. measureText(Append(b, t)) = measureText(b) + t.width /\ measureText(b) \in Nat
      BY MeasureFacts
    <3>2. t.width \in Nat
      BY DEF TokenSet
    <3> QED BY <3>1, <3>2, <2>2, <2>5
  <2>7. m + 1 <= maximum
    <3>1. measureText(p) + Ellipsis.width <= maximum
      BY <1>2, <1>7 DEF FitsWithEllipsis
    <3> QED BY <3>1, <2>5, <1>5
  <2>8. h \in Seq(TokenSet) /\ measureText(h) <= m
    <3>1. h \in Seq(TokenSet)
      BY <2>3, <2>4
    <3>2. measureText(h) = u \/ measureText(h) = m
      BY <2>3, <2>5
    <3> QED BY <3>1, <3>2, <2>6
  <2>9. measureText(Append(h, Ellipsis)) = measureText(h) + Ellipsis.width /\ measureText(h) \in Nat
    BY <2>8, <1>5, MeasureFacts
  <2>10. PICK g : g = measureText(h)
    OBVIOUS
  <2>11. measureText(cut) = g + 1 /\ g \in Nat /\ g <= m
    BY <2>8, <2>9, <2>10, <1>4, <1>5
  <2> QED BY <2>6, <2>7, <2>11
<1> QED
  BY <1>6, <1>7

TextStyle == [maxLines : Nat \ {0}, overflow : {"clip", "ellipsis"}, wrap : BOOLEAN]

\* textLayerFilter, for any text, width and style: something is drawn, in no
\* more lines than allowed; what fits is drawn as it is; and with an ellipsis
\* the last line fits unless the ellipsis is all that is left.
THEOREM TextLayersAlwaysFit ==
  ASSUME NEW tokens, IsText(tokens), NEW maximum \in Nat, NEW style \in TextStyle
  PROVE  TextLayerIsSound(tokens, maximum, style)
<1>1. PICK layout, X : layout = layoutInterTextLines(tokens, maximum, style.wrap) /\ X = Seq(TokenSet)
  OBVIOUS
<1>2. /\ layout \in Seq(X) /\ Len(layout) \in Nat \ {0}
      /\ \A i \in 1..(Len(layout) - 1) : IsGood(layout[i], maximum)
  <2>1. CASE style.wrap
    <3>1. layout = wrapLine(tokens, maximum)
      BY <1>1, <2>1 DEF layoutInterTextLines
    <3>2. layout \in Seq(X) /\ layout # <<>> /\ \A i \in DOMAIN layout : IsGood(layout[i], maximum)
      BY <3>1, <1>1, WrapLineIs
    <3> QED BY <3>2
  <2>2. CASE ~style.wrap
    <3>1. layout = <<tokens>> /\ tokens \in X
      BY <1>1, <2>2 DEF layoutInterTextLines, IsText
    <3> QED BY <3>1
  <2> QED BY <2>1, <2>2
<1>3. PICK n, most, shown : /\ n = Len(layout) /\ most = style.maxLines
                            /\ shown = IF n > most THEN most ELSE n
  OBVIOUS
<1>4. n \in Nat \ {0} /\ most \in Nat \ {0} /\ shown \in 1..most /\ shown \in 1..n /\ (n <= most => shown = n)
  BY <1>2, <1>3 DEF TextStyle
<1>5. PICK lines : lines = SubSeq(layout, 1, shown)
  OBVIOUS
<1>6. /\ lines \in Seq(X) /\ Len(lines) = shown /\ DOMAIN lines = 1..shown
      /\ \A i \in 1..shown : lines[i] = layout[i] /\ layout[i] \in X
  <2>1. \A i \in 1..shown : layout[i] \in X
    BY <1>2, <1>3, <1>4
  <2> QED BY <2>1, <1>2, <1>3, <1>4, <1>5
<1>7. PICK cut : cut = Append(TrimmedEnd(Shortened(layout[shown], maximum)), Ellipsis)
  OBVIOUS
<1>8. measureText(cut) <= maximum \/ cut = <<Ellipsis>>
  <2>1. layout[shown] \in Seq(TokenSet)
    BY <1>1, <1>4, <1>6
  <2> QED BY <2>1, <1>7, CutFits
<1>9. PICK drawn : drawn = textLayerFilter(tokens, maximum, style)
  OBVIOUS
<1>10. drawn = IF style.overflow = "ellipsis" /\ (n > most \/ measureText(layout[shown]) > maximum)
               THEN [lines EXCEPT ![shown] = cut] ELSE lines
  <2>1. lines[shown] = layout[shown]
    BY <1>4, <1>6
  <2> QED BY <2>1, <1>1, <1>3, <1>5, <1>7, <1>9 DEF textLayerFilter
<1>11. /\ Len(drawn) = shown /\ \A i \in 1..(shown - 1) : drawn[i] = layout[i]
       /\ style.overflow = "ellipsis" => drawn[shown] = cut \/ measureText(drawn[shown]) <= maximum
  <2>1. CASE drawn = lines /\ ~(style.overflow = "ellipsis" /\ (n > most \/ measureText(layout[shown]) > maximum))
    <3>1. measureText(layout[shown]) \in Nat
      BY <1>1, <1>4, <1>6, MeasureFacts
    <3> QED BY <2>1, <3>1, <1>4, <1>6
  <2>2. CASE drawn = [lines EXCEPT ![shown] = cut]
    <3>1. DOMAIN drawn = 1..shown /\ drawn[shown] = cut /\ \A i \in 1..(shown - 1) : drawn[i] = lines[i]
      BY <2>2, <1>4, <1>6
    <3>2. drawn = [i \in 1..shown |-> drawn[i]]
      BY <2>2, <3>1, <1>6
    <3>3. Len(drawn) = shown
      BY <3>2, <1>4
    <3> QED BY <3>1, <3>3, <1>4, <1>6
  <2> QED BY <2>1, <2>2, <1>10
<1>12. \A i \in 1..(shown - 1) : measureText(drawn[i]) > maximum => Len(Words(drawn[i])) = 1
  <2> TAKE i \in 1..(shown - 1)
  <2>1. drawn[i] = layout[i] /\ i \in 1..(n - 1)
    BY <1>4, <1>11
  <2>2. IsGood(layout[i], maximum)
    BY <2>1, <1>2, <1>3
  <2> QED BY <2>1, <2>2 DEF IsGood
<1>13. ASSUME n <= most, \A i \in DOMAIN layout : measureText(layout[i]) <= maximum
       PROVE  drawn = layout
  <2>1. shown = n /\ DOMAIN layout = 1..n
    BY <1>13, <1>2, <1>3, <1>4
  <2>2. lines = layout
    BY <2>1, <1>2, <1>3, <1>5
  <2>3. measureText(layout[shown]) <= maximum /\ measureText(layout[shown]) \in Nat
    BY <1>13, <2>1, <1>1, <1>4, <1>6, MeasureFacts
  <2>4. ~(n > most \/ measureText(layout[shown]) > maximum)
    BY <2>3, <1>4, <1>13
  <2> QED BY <2>2, <2>4, <1>10
<1>14. style.overflow = "ellipsis" => measureText(drawn[shown]) <= maximum \/ drawn[shown] = <<Ellipsis>>
  BY <1>8, <1>11
<1> QED
  BY <1>1, <1>3, <1>4, <1>9, <1>11, <1>12, <1>13, <1>14 DEF TextLayerIsSound

=============================================================================
