------------------------------ MODULE CropTracks ------------------------------
(***************************************************************************)
(* Three readings of one crop: resolveEffectiveCrop (crops.ts), which says *)
(* what automatic frames and manual controls mean together, effectiveCrop  *)
(* (editor-state.ts), which the preview draws, and the piecewise linear    *)
(* expression that the Render evaluates (render-composition.ts).           *)
(*                                                                         *)
(* A frame is [at, value], a control [at, mode, value]; a track is ordered *)
(* by strictly increasing times.  The value stands for one side of the     *)
(* rectangle and is a multiple of Scale, so that nothing is rounded.       *)
(***************************************************************************)
EXTENDS Integers, Sequences, FiniteSets, SequencesExt

CONSTANTS CropTimes,        \* 0..n
          Scale             \* a multiple of every time span

ASSUME CropAssumption ==
    /\ CropTimes \subseteq Nat /\ 0 \in CropTimes
    /\ Scale \in Nat \ {0}
    /\ \A s, t \in CropTimes : s < t => Scale % (t - s) = 0

FullFrame == 0              \* no crop at all

Between(left, right, at) ==
    left.value + ((right.value - left.value) * (at - left.at)) \div (right.at - left.at)

UpTo(track, at) == {i \in DOMAIN track : track[i].at <= at}
LastUpTo(track, at) == CHOOSE i \in UpTo(track, at) : \A j \in UpTo(track, at) : j <= i

interpolateCropFrames(frames, at) ==
    IF frames = <<>> THEN FullFrame
    ELSE IF UpTo(frames, at) = {} THEN Head(frames).value
    ELSE LET i == LastUpTo(frames, at)
         IN  IF i = Len(frames) THEN Last(frames).value
             ELSE Between(frames[i], frames[i + 1], at)

\* The control in force is a manual crop.
Overridden(controls, at) ==
    UpTo(controls, at) # {} /\ controls[LastUpTo(controls, at)].mode = "crop"

IsCrop(controls, i) == i \in DOMAIN controls /\ controls[i].mode = "crop"

resolveEffectiveCrop(frames, controls, at) ==
    IF Overridden(controls, at)
    THEN LET i == LastUpTo(controls, at)
         IN  IF IsCrop(controls, i + 1) THEN Between(controls[i], controls[i + 1], at)
             ELSE controls[i].value
    ELSE interpolateCropFrames(frames, at)

\* The preview holds a manual crop.
effectiveCrop(frames, controls, at) ==
    IF Overridden(controls, at) THEN controls[LastUpTo(controls, at)].value
    ELSE interpolateCropFrames(frames, at)
-----------------------------------------------------------------------------
\* The knots of the expression.
Knots(frames, controls) ==
    {0} \cup {frames[i].at : i \in DOMAIN frames} \cup {controls[i].at : i \in DOMAIN controls}

\* The value at a knot.
valueAt(frames, controls, at) ==
    LET later  == {i \in DOMAIN controls : controls[i].at > at}
        active == Len(controls) - Cardinality(later)
    IN  CASE ~IsCrop(controls, active)    -> interpolateCropFrames(frames, at)
          [] IsCrop(controls, active) /\ IsCrop(controls, active + 1) ->
               Between(controls[active], controls[active + 1], at)
          [] OTHER                        -> controls[active].value

\* Mutant: between two knots the left value is held.
LinearNowhere(controls, knot) == FALSE

\* Whether the piece that begins at a knot is linear, or else holds its value.
Linear(controls, knot) ==
    \/ ~Overridden(controls, knot)
    \/ IsCrop(controls, LastUpTo(controls, knot) + 1)

PieceAt(knots, at) == CHOOSE k \in knots : k <= at /\ \A l \in knots : l <= at => l <= k

NextKnot(knots, knot) == CHOOSE k \in knots : knot < k /\ \A l \in knots : knot < l => k <= l

\* effectiveExpression, evaluated at an instant.
Rendered(frames, controls, at) ==
    LET knots == Knots(frames, controls)
        knot  == PieceAt(knots, at)
        left  == [at |-> knot, value |-> valueAt(frames, controls, knot)]
    IN  IF (\A k \in knots : k <= knot) \/ ~Linear(controls, knot)
        THEN left.value
        ELSE LET end == NextKnot(knots, knot)
             IN  Between(left, [at |-> end, value |-> valueAt(frames, controls, end)], at)
-----------------------------------------------------------------------------
\* The Render glides from the automatic crop into a manual one, from the last
\* knot before it; the other two jump when its time has come.
GlidesIntoControl(frames, controls, at) ==
    LET knots == Knots(frames, controls)
        knot  == PieceAt(knots, at)
    IN  /\ knot # at
        /\ ~Overridden(controls, knot)
        /\ \E k \in knots : k > knot
        /\ Overridden(controls, NextKnot(knots, knot))

\* The preview holds what the Render moves between two manual crops.
HeldInPreview(controls, at) ==
    Overridden(controls, at) /\ IsCrop(controls, LastUpTo(controls, at) + 1)

CropsAgree(frames, controls) ==
    \A at \in CropTimes :
        /\ ~GlidesIntoControl(frames, controls, at)
             => Rendered(frames, controls, at) = resolveEffectiveCrop(frames, controls, at)
        /\ ~GlidesIntoControl(frames, controls, at) /\ ~HeldInPreview(controls, at)
             => Rendered(frames, controls, at) = effectiveCrop(frames, controls, at)
=============================================================================
