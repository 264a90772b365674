---------------------------- MODULE NodeMetadata ----------------------------
(****************************************************************************)
(* pkg/metadata/metadata.go: NewNodeMetadata reads the zone, the region and *)
(* the IDs of the node once, when the driver starts, from a Node object     *)
(* that others are still filling in.                                        *)
(*                                                                          *)
(* External: the cloud controller that labels the node and sets its         *)
(* ProviderID, the vpc-node-label-updater init container, which sets the    *)
(* instance label of a satellite host, the API server, and the restart of a *)
(* driver that got an error.  That the init container has ended when the    *)
(* driver starts is up to the pod, and is not assumed: a driver that reads  *)
(* the label too early runs without a worker ID.                            *)
(****************************************************************************)
EXTENDS Naturals, Sequences

CONSTANTS
    ProviderIDs,  \* the ProviderIDs a node may have, split at "/"
    WellFormed    \* those that are ibm://<account>///<cluster>/<worker>

ASSUME ProviderIDsAssumption == WellFormed \subseteq ProviderIDs

VARIABLES
    upi,         \* the machine-type label is "upi": a satellite host
    labels,      \* which of the labels "zone", "region", "instance" are set
    providerID,  \* the node's ProviderID, split at "/"
    meta         \* the nodeMetadataManager, or NoMeta

nodeVars == <<upi, labels, providerID, meta>>

(* zone and region are set or not; IDs are strings, "" when unknown. *)
NoMeta == [zone |-> FALSE, region |-> FALSE, workerID |-> "", accountID |-> ""]

NodeInit ==
    /\ upi \in BOOLEAN
    /\ labels \in SUBSET ({"zone", "region"} \cup IF upi THEN {"instance"} ELSE {})
    /\ providerID \in ProviderIDs
    /\ meta = NoMeta

(****************************************************************************)
(* The environment of the driver                                            *)
(****************************************************************************)
SetLabel(l) ==
    /\ l \notin labels
    /\ labels' = labels \cup {l}
    /\ UNCHANGED <<upi, providerID, meta>>

SetProviderID ==
    /\ providerID \notin WellFormed
    /\ providerID' \in ProviderIDs
    /\ UNCHANGED <<upi, labels, meta>>

UpdateNodeLabels ==
    /\ upi /\ "instance" \notin labels
    /\ labels' = labels \cup {"instance"}
    /\ UNCHANGED <<upi, providerID, meta>>

(****************************************************************************)
(* NewNodeMetadata                                                          *)
(****************************************************************************)
(* Mutant: one part too few is expected. *)
fetchOffByOne(s) == IF Len(s) # 6 THEN <<"", "">> ELSE <<s[6], s[3]>>

(* s[6] and s[2], counted from 0. *)
fetchInstanceAndAccountID(s) ==
    IF Len(s) # 7 THEN <<"", "">> ELSE <<s[7], s[3]>>

RequiredLabels == {"zone", "region"} \subseteq labels

(* The worker ID and the account ID. *)
NodeIDs ==
    IF upi THEN <<IF "instance" \in labels THEN "instance" ELSE "", "">>
    ELSE fetchInstanceAndAccountID(providerID)

(* A node that is not ready, like a failing call of the API server, is an   *)
(* error: nothing is kept, and the driver will be restarted.                *)
NewNodeMetadata ==
    /\ meta = NoMeta
    /\ RequiredLabels
    /\ upi \/ NodeIDs[1] # ""
    /\ meta' = [zone |-> "zone" \in labels, region |-> "region" \in labels,
                workerID |-> NodeIDs[1], accountID |-> NodeIDs[2]]
    /\ UNCHANGED <<upi, labels, providerID>>

NodeNext ==
    \/ \E l \in {"zone", "region"} : SetLabel(l)
    \/ SetProviderID
    \/ UpdateNodeLabels
    \/ NewNodeMetadata

NodeSpec == NodeInit /\ [][NodeNext]_nodeVars

(* Zone, region and ProviderID are set in the end, and a driver that failed *)
(* is restarted.                                                            *)
FairNodeSpec ==
    /\ NodeSpec
    /\ \A l \in {"zone", "region"} : WF_nodeVars(SetLabel(l))
    /\ SF_nodeVars(SetProviderID /\ providerID' \in WellFormed)
    /\ WF_nodeVars(NewNodeMetadata)

-----------------------------------------------------------------------------
(****************************************************************************)
(* Once the node is set up, in whatever order, the driver gets its          *)
(* metadata: NewNodeMetadata does not refuse a node for good.               *)
(****************************************************************************)
EventuallyIdentified == <>(meta # NoMeta)
=============================================================================
