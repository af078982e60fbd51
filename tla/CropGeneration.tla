---------------------------- MODULE CropGeneration ----------------------------
(***************************************************************************)
(* The automatic crop track of a video layer (crops.ts): the detections of *)
(* each sample united, padded, brought to the shape of the layer and       *)
(* smoothed over time; or one frame for the whole track, where there are   *)
(* none.  Samples at their output times are Timeline's.                    *)
(*                                                                         *)
(* Rectangles are [x, y, w, h] in units of 1/Unit of the source.  A shape  *)
(* is the width over the height of a crop, in those units, as a fraction   *)
(* [over, under].  Quotients are rounded down to whole units.              *)
(* A layer of another source, or a source of unknown size, has no samples. *)
(***************************************************************************)
EXTENDS Integers, Sequences, FiniteSets, SequencesExt, FiniteSetsExt

CONSTANT Unit               \* how finely the source is measured

ASSUME UnitAssumption == Unit \in Nat \ {0}

Rectangle(x, y, w, h) == [x |-> x, y |-> y, w |-> w, h |-> h]

Whole == Rectangle(0, 0, Unit, Unit)

\* A layer for the screen or for persons shows these; any other prefers the screen.
selectObservations(sample, target) ==
    IF target = "screen" \/ (target = "auto" /\ sample.screens # {}) THEN sample.screens
    ELSE sample.people

unionRectangles(S) ==
    LET x == Min({r.x : r \in S})
        y == Min({r.y : r \in S})
    IN  Rectangle(x, y, Max({r.x + r.w : r \in S}) - x, Max({r.y + r.h : r \in S}) - y)

AtMost(a, b)  == IF a < b THEN a ELSE b
AtLeast(a, b) == IF a > b THEN a ELSE b

\* Into the source, moved rather than cut where it can be.
clamp(r) ==
    LET w == AtMost(Unit, r.w)
        h == AtMost(Unit, r.h)
    IN  Rectangle(AtMost(Unit - w, AtLeast(0, r.x)), AtMost(Unit - h, AtLeast(0, r.y)), w, h)

\* 15 % on each side
pad(r) ==
    LET dx == (r.w * 3) \div 20
        dy == (r.h * 3) \div 20
    IN  clamp(Rectangle(r.x - dx, r.y - dy, r.w + 2 * dx, r.h + 2 * dy))

WidthFor(h, shape)  == (h * shape.over) \div shape.under
HeightFor(w, shape) == (w * shape.under) \div shape.over

\* The width and height the crop grows to, and is then held to the source.
Grown(r, shape) ==
    IF r.w * shape.under < r.h * shape.over
    THEN [w |-> WidthFor(r.h, shape), h |-> r.h]
    ELSE [w |-> r.w, h |-> HeightFor(r.w, shape)]

Held(size, shape) ==
    LET narrow == IF size.w > Unit THEN [w |-> Unit, h |-> HeightFor(Unit, shape)] ELSE size
    IN  IF narrow.h > Unit THEN [w |-> WidthFor(Unit, shape), h |-> Unit] ELSE narrow

aspectCorrect(r, shape) ==
    LET size == Held(Grown(r, shape), shape)
    IN  clamp(Rectangle(r.x + (r.w - size.w) \div 2, r.y + (r.h - size.h) \div 2, size.w, size.h))

\* 35 % of the way
mix(left, right) == left + ((right - left) * 7) \div 20

Mixed(p, r) == Rectangle(mix(p.x, r.x), mix(p.y, r.y), mix(p.w, r.w), mix(p.h, r.h))

smoothFrames(rectangles) ==
    LET track[i \in DOMAIN rectangles] ==
            IF i = 1 THEN rectangles[1] ELSE clamp(Mixed(track[i - 1], rectangles[i]))
    IN  track

\* In their order.
Seen(samples, target) ==
    LET hits == {i \in DOMAIN samples : selectObservations(samples[i], target) # {}}
    IN  [k \in 1..Cardinality(hits) |->
            samples[CHOOSE i \in hits : Cardinality({j \in hits : j < i}) = k - 1]]

fallbackTrack(fit, shape) == IF fit = "fit" THEN <<Whole>> ELSE <<aspectCorrect(Whole, shape)>>

\* Samples without a detection for the layer leave no frame.
generateAutomaticCropTrack(samples, target, fit, shape) ==
    LET seen == Seen(samples, target)
        cropped(s) == aspectCorrect(pad(unionRectangles(selectObservations(s, target))), shape)
    IN  IF seen = <<>> THEN fallbackTrack(fit, shape)
        ELSE smoothFrames([i \in DOMAIN seen |-> cropped(seen[i])])
-----------------------------------------------------------------------------
InSource(r) == r.x >= 0 /\ r.y >= 0 /\ r.w > 0 /\ r.h > 0 /\ r.x + r.w <= Unit /\ r.y + r.h <= Unit

\* But for the rounding of both sides, which smoothing does not add up.
HasShape(r, shape) ==
    LET error == r.w * shape.under - r.h * shape.over
        bound == 4 * AtLeast(shape.over, shape.under)
    IN  -bound <= error /\ error <= bound

Covers(r, s) == r.x <= s.x /\ r.y <= s.y /\ r.x + r.w >= s.x + s.w /\ r.y + r.h >= s.y + s.h

\* Every frame is in the source and undistorted in the layer, unless the layer
\* fits the whole frame in; and before the smoothing a crop has all that was
\* detected, unless it is as large as the source allows.
CropsAreSound(samples, target, fit, shape) ==
    LET track == generateAutomaticCropTrack(samples, target, fit, shape)
        seen  == Seen(samples, target)
    IN  /\ \A i \in DOMAIN track :
             InSource(track[i]) /\ (HasShape(track[i], shape) \/ (seen = <<>> /\ fit = "fit"))
        /\ seen # <<>> =>
             \/ Covers(track[1], unionRectangles(selectObservations(seen[1], target)))
             \/ track[1].w = Unit \/ track[1].h = Unit
==============================================================================
