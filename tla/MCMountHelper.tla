--------------------------- MODULE MCMountHelper ---------------------------
(* Model checking MountHelper: three calls, two target paths. *)
EXTENDS MountHelper, TLC

CONSTANTS r1, r2, r3, t1, t2

MCRequests == {r1, r2, r3}
MCTargets  == {t1, t2}
============================================================================
