---------------------------- MODULE MCPVWatcher ----------------------------
(* Model checking PVWatcher on small instances. *)
EXTENDS PVWatcher, TLC

CONSTANTS p1, p2

MCOnePV  == {p1}
MCTwoPVs == {p1, p2}

(* p2 is another provisioner's. *)
MCOwn      == (p1 :> "vpc.block")
MCOwnOther == (p1 :> "vpc.block" @@ p2 :> "vpc.file")

MCThree    == (p1 :> 3)
MCFour     == (p1 :> 4)
MCThreeOne == (p1 :> 3 @@ p2 :> 1)

MCFaults   == {"session", "update"}
MCNoFaults == {}
=============================================================================
