------------------------------ MODULE ResizeFs ------------------------------
(****************************************************************************)
(* pkg/mountmanager/mount_linux.go: Resize asks mount-utils whether the     *)
(* file system is smaller than its device (NeedResize), and grows it if so, *)
(* while the device itself may be expanded by the controller and other      *)
(* calls (retries of NodeExpandVolume) resize the same file system.         *)
(*                                                                          *)
(* External, modelled from how the code uses it: the device, and NeedResize *)
(* and Resize of mount-utils, each of which may fail.  NeedResize says no   *)
(* to a read-only or unformatted device and tolerates one block.            *)
(****************************************************************************)
EXTENDS Naturals

CONSTANTS
    Goroutines,  \* the callers
    MaxSize      \* bound: the largest size of the device, in blocks

ASSUME MaxSizeAssumption == MaxSize \in Nat \ {0}

VARIABLES
    resizable,   \* the device is writable and has a file system
    device,      \* the size of the device
    fsize,       \* the size of its file system
    pc,          \* where each goroutine is
    size,        \* size[g]: what NeedResize read as the device's size
    asked,       \* asked[g]: the device's size when the call began
    result       \* result[g]: what Resize returned last

vars == <<resizable, device, fsize, pc, size, asked, result>>

Sizes == 1 .. MaxSize

Init ==
    /\ resizable \in BOOLEAN
    /\ device \in Sizes
    /\ fsize = device
    /\ pc = [g \in Goroutines |-> "idle"]
    /\ size = [g \in Goroutines |-> device]
    /\ asked = [g \in Goroutines |-> device]
    /\ result = [g \in Goroutines |-> "none"]

Goto(g, from, to) ==
    /\ pc[g] = from
    /\ pc' = [pc EXCEPT ![g] = to]

(* The controller expands the volume. *)
Expand ==
    /\ \E s \in Sizes : s > device /\ device' = s
    /\ UNCHANGED <<resizable, fsize, pc, size, asked, result>>

Begin(g) ==
    /\ Goto(g, "idle", "deviceSize")
    /\ asked' = [asked EXCEPT ![g] = device]
    /\ result' = [result EXCEPT ![g] = "none"]
    /\ UNCHANGED <<resizable, device, fsize, size>>

Leave(g, from, how) ==
    /\ Goto(g, from, "idle")
    /\ result' = [result EXCEPT ![g] = how]

(* NeedResize: is it resizable, and how large is the device? *)
ReadDevice(g) ==
    /\ resizable
    /\ Goto(g, "deviceSize", "fsSize")
    /\ size' = [size EXCEPT ![g] = device]
    /\ UNCHANGED <<resizable, device, fsize, asked, result>>

NeedsNone(g) ==
    /\ ~resizable
    /\ Leave(g, "deviceSize", "true")
    /\ UNCHANGED <<resizable, device, fsize, size, asked>>

needResize(g) == size[g] > fsize + 1

(* NeedResize: how large is the file system?  Resize goes on or returns. *)
NeedResize(g) ==
    /\ \/ /\ needResize(g)
          /\ Goto(g, "fsSize", "resize")
          /\ UNCHANGED result
       \/ /\ ~needResize(g)
          /\ Leave(g, "fsSize", "true")
    /\ UNCHANGED <<resizable, device, fsize, size, asked>>

(* Mutant: grown to the size that was read, which may be old. *)
GrowsToRead(g) ==
    /\ Leave(g, "resize", "true")
    /\ fsize' = size[g]
    /\ UNCHANGED <<resizable, device, size, asked>>

(* resize2fs or xfs_growfs: up to what the device is by then. *)
ResizeGrows(g) ==
    /\ Leave(g, "resize", "true")
    /\ fsize' = device
    /\ UNCHANGED <<resizable, device, size, asked>>

(* Mutant: the error of Resize is dropped. *)
FailsSilently(g) ==
    /\ \E at \in {"deviceSize", "fsSize", "resize"} :
         Leave(g, at, IF at = "resize" THEN "true" ELSE "error")
    /\ UNCHANGED <<resizable, device, fsize, size, asked>>

(* NeedResize or Resize fails: (false, err). *)
Fails(g) ==
    /\ \E at \in {"deviceSize", "fsSize", "resize"} : Leave(g, at, "error")
    /\ UNCHANGED <<resizable, device, fsize, size, asked>>

Next ==
    \/ Expand
    \/ \E g \in Goroutines :
         \/ Begin(g) \/ ReadDevice(g) \/ NeedsNone(g) \/ NeedResize(g)
         \/ ResizeGrows(g) \/ Fails(g)

Spec == Init /\ [][Next]_vars

-----------------------------------------------------------------------------
(* The type of every variable. *)
TypeOK ==
    /\ resizable \in BOOLEAN
    /\ device \in Sizes
    /\ fsize \in Sizes
    /\ pc \in [Goroutines -> {"idle", "deviceSize", "fsSize", "resize"}]
    /\ size \in [Goroutines -> Sizes]
    /\ asked \in [Goroutines -> Sizes]
    /\ result \in [Goroutines -> {"none", "true", "error"}]

(****************************************************************************)
(* Resize that returned true left a file system that covers the device as   *)
(* it was when Resize was called, up to the one block NeedResize tolerates, *)
(* although the sizes were read one after the other while the device grew   *)
(* and other calls resized too.                                             *)
(****************************************************************************)
ResizeCovers == \A g \in Goroutines :
    resizable /\ result[g] = "true" => fsize + 1 >= asked[g]

(****************************************************************************)
(* The inductive form: what a call has read is between what the device was  *)
(* when it began and what it is, and the file system fits its device.       *)
(****************************************************************************)
SizesInOrder ==
    /\ fsize <= device
    /\ \A g \in Goroutines :
         /\ asked[g] <= device
         /\ pc[g] \in {"fsSize", "resize"} => asked[g] <= size[g] /\ size[g] <= device

IndInv == TypeOK /\ SizesInOrder /\ ResizeCovers

(****************************************************************************)
(* The file system never shrinks: it is in use while it is resized.         *)
(****************************************************************************)
NeverShrinks == [][fsize' >= fsize]_vars
=============================================================================
