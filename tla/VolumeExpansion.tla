-------------------------- MODULE VolumeExpansion --------------------------
(****************************************************************************)
(* The expansion of a volume from the request to the file system: the       *)
(* controller rounds the size it is asked for with RoundUpBytes and orders  *)
(* it in GiB with BytesToGiB (VolumeSizes), the device grows, and Resize on *)
(* the node makes the file system follow (ResizeFs), while further requests *)
(* and retries of Resize overlap.                                           *)
(*                                                                          *)
(* External: the driver's ControllerExpandVolume, which calls the two       *)
(* functions and leaves a volume alone that is large enough, and the cloud, *)
(* which makes a volume of the GiB it is told, of at most MaxSize.  The     *)
(* sizes of both modules are in one unit.                                   *)
(****************************************************************************)
EXTENDS ResizeFs, VolumeSizes

(* A volume of one GiB is one of the sizes. *)
ASSUME UnitAssumption == GiB <= MaxSize /\ MaxSize < Half

VARIABLES
    wanted,    \* the size last granted to a request
    promised   \* promised[g]: what was granted when g called Resize

expansionVars == <<vars, wanted, promised>>

ExpansionInit ==
    /\ Init
    /\ device = GiB
    /\ wanted = GiB
    /\ promised = [g \in Goroutines |-> GiB]

(* The GiB ordered for a request. *)
Ordered(request) == BytesToGiB(RoundUpBytes(request))

ExpandVolume(request) ==
    LET new == Ordered(request) * GiB
    IN  /\ new > device
        /\ new <= MaxSize
        /\ device' = new
        /\ wanted' = request
        /\ UNCHANGED <<resizable, fsize, pc, size, asked, result, promised>>

(* Resize; promised is noted when the call begins. *)
Resize(g) ==
    \/ /\ Begin(g)
       /\ promised' = [promised EXCEPT ![g] = wanted]
       /\ UNCHANGED wanted
    \/ /\ \/ ReadDevice(g) \/ NeedsNone(g) \/ NeedResize(g)
          \/ ResizeGrows(g) \/ Fails(g)
       /\ UNCHANGED <<wanted, promised>>

ExpansionNext ==
    \/ \E request \in Int64 : ExpandVolume(request)
    \/ \E g \in Goroutines : Resize(g)

ExpansionSpec == ExpansionInit /\ [][ExpansionNext]_expansionVars

-----------------------------------------------------------------------------
(****************************************************************************)
(* Every expansion is exact: the device becomes the least multiple of GiB   *)
(* that covers the request it is made for, up to the largest size an int64  *)
(* has room to round, and telling it in GiB loses nothing.  A request whose *)
(* rounding overflows, like a negative one, expands nothing ("Check         *)
(* division by zero and int overflow" is left to the caller).               *)
(****************************************************************************)
ExpansionIsExact ==
    [][device' # device =>
         /\ Fits(wanted')
         /\ wanted' <= device' /\ device' < wanted' + GiB
         /\ device' = BytesToGiB(device') * GiB]_expansionVars

(****************************************************************************)
(* What was granted is there: once a Resize has returned true, the file     *)
(* system has the size a request was granted before that call, but for the  *)
(* one block NeedResize tolerates, whatever was requested and resized       *)
(* meanwhile.                                                               *)
(****************************************************************************)
RequestHonoured == \A g \in Goroutines :
    resizable /\ result[g] = "true" => fsize + 1 >= promised[g]

(****************************************************************************)
(* The inductive form: the device covers what was granted, and what a call  *)
(* found when it began covers what was granted by then.                     *)
(****************************************************************************)
GrantsAreCovered ==
    /\ wanted \in Int64 /\ wanted <= device
    /\ promised \in [Goroutines -> Int64]
    /\ \A g \in Goroutines : promised[g] <= asked[g]

ExpansionInv == IndInv /\ GrantsAreCovered
=============================================================================
