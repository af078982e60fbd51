---------------------------- MODULE MCEpisodeSource ----------------------------
(* EpisodeSource on a small instance: files that only a full hash can tell *)
(* apart.                                                                   *)
EXTENDS EpisodeSource

CONSTANTS p, q, x, y, print, e1, e2, i1, i2, r1, c1, c2, t1

MCFingerprintOf == [c \in Contents |-> print]

=============================================================================
