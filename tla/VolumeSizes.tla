----------------------------- MODULE VolumeSizes -----------------------------
(****************************************************************************)
(* pkg/utils/utils.go: sizes of volumes in int64 arithmetic.  RoundUpBytes  *)
(* rounds a requested size up to GiB; BytesToGiB says how many GiB a size   *)
(* has (the size a volume is ordered with, the capacity PVWatcher saves).   *)
(****************************************************************************)
EXTENDS Integers

CONSTANTS
    Half,    \* 2^63: an int64 is at least -Half and less than Half
    GiB      \* the bytes of a GiB

ASSUME HalfAssumption == Half \in Nat \ {0}
ASSUME GiBAssumption == GiB \in Nat \ {0} /\ GiB <= Half

Int64 == -Half .. Half - 1

(* Two's complement: the result of an operation, brought into range. *)
Wrap(x) == ((x + Half) % (2 * Half)) - Half

(* Go's division is towards zero. *)
Quo(x, y) == IF x >= 0 THEN x \div y ELSE -((-x) \div y)

(* Mutant: one byte too many before the division. *)
roundUpOneMore(volumeSizeBytes, allocationUnitBytes) ==
    Quo(Wrap(volumeSizeBytes + allocationUnitBytes), allocationUnitBytes)

(* Mutant: the unit is not added before the division. *)
roundDownSize(volumeSizeBytes, allocationUnitBytes) ==
    Quo(volumeSizeBytes, allocationUnitBytes)

roundUpSize(volumeSizeBytes, allocationUnitBytes) ==
    Quo(Wrap(volumeSizeBytes + allocationUnitBytes - 1), allocationUnitBytes)

RoundUpBytes(volumeSizeBytes) == Wrap(roundUpSize(volumeSizeBytes, GiB) * GiB)

(* The conversion to int loses nothing where int has 64 bits; with 32 bits  *)
(* it would cut sizes of 2^61 bytes and more.                               *)
BytesToGiB(volumeSizeBytes) == Quo(volumeSizeBytes, GiB)

(* The sizes whose rounding stays below Half before it is divided. *)
Fits(size) == size >= 0 /\ size + GiB - 1 < Half
=============================================================================
