---------------------------- MODULE MCNodePaths ----------------------------
(* Model checking NodePaths: two goroutines, a path and its parent. *)
EXTENDS NodePaths

CONSTANTS g1, g2

MCGoroutines == {g1, g2}
MCNames      == {"pod", "mount"}
MCPaths      == {<<"pod">>, <<"pod", "mount">>}
MCNoPaths    == {}
=============================================================================
