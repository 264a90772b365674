------------------------- MODULE MCVolumeExpansion -------------------------
(* Model checking VolumeExpansion: sizes below 20, a "GiB" of 4 blocks,     *)
(* two calls of Resize at a time.                                           *)
EXTENDS VolumeExpansion

CONSTANTS g1, g2

MCGoroutines == {g1, g2}
=============================================================================
