--------------------------- MODULE MCFakeRecorder ---------------------------
(* Model checking FakeRecorder: three goroutines share FakeNodeInfo. *)
EXTENDS FakeRecorder

CONSTANTS g1, g2, g3

MCGoroutines == {g1, g2, g3}
=============================================================================
