------------------------- MODULE MCRenderLifecycle --------------------------
(* RenderLifecycle on small instances. *)
EXTENDS RenderLifecycle, TLC

CONSTANTS episode, short, r1, r2

MCEpisodeOf == [s \in Shorts |-> episode]

RenderSymmetry == Permutations(Renders)
=============================================================================
