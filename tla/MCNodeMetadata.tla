-------------------------- MODULE MCNodeMetadata ---------------------------
(* Model checking NodeMetadata with ProviderIDs good and bad. *)
EXTENDS NodeMetadata

(* ibm://a1///c1/w1 *)
MCGood == {<<"ibm:", "", "a1", "", "", "c1", w>> : w \in {"w1", "w2"}}

(* Not set, the form of other clouds, too short, no worker, too long, and   *)
(* seven parts in another order, which NewNodeMetadata takes too.           *)
MCBad == {<<"">>,
          <<"aws:", "", "", "z1", "i1">>,
          <<"ibm:", "", "a1", "", "c1", "w1">>,
          <<"ibm:", "", "a1", "", "", "c1", "">>,
          <<"ibm:", "", "a1", "", "", "c1", "w1", "">>,
          <<"ibm:", "", "", "", "a1", "w1", "c1">>}

MCProviderIDs == MCGood \cup MCBad
============================================================================
