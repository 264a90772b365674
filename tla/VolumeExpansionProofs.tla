----------------------- MODULE VolumeExpansionProofs -----------------------
(****************************************************************************)
(* VolumeExpansion, and the two parts it composes: VolumeSizes for every    *)
(* width of the integers and every unit, ResizeFs for any number of         *)
(* concurrent calls and any size of the device, and their composition.      *)
(****************************************************************************)
EXTENDS VolumeExpansion, TLAPS

(****************************************************************************)
(* Euclidean division of a non-negative number.                             *)
(****************************************************************************)
LEMMA DivMod ==
  ASSUME NEW a \in Nat, NEW b \in Nat \ {0}
  PROVE  /\ a \div b \in Nat
         /\ a = b * (a \div b) + (a % b)
         /\ a % b \in 0 .. b - 1
  OBVIOUS

(****************************************************************************)
(* An operation whose exact result is in range does not wrap.               *)
(****************************************************************************)
LEMMA WrapInRange ==
  ASSUME NEW x \in Int64
  PROVE  Wrap(x) = x
  <1> DEFINE m == 2 * Half
             y == x + Half
  <1>1. y \in Nat /\ m \in Nat \ {0} /\ y < m
    BY HalfAssumption DEF Int64
  <1>2. y % m = y
    <2> HIDE DEF m, y
    <2> QED
      BY <1>1
  <1>3. QED
    BY <1>2, HalfAssumption DEF Wrap, Int64

(****************************************************************************)
(* What RoundUpBytes computes for a size that fits.                         *)
(****************************************************************************)
LEMMA RoundUpExact ==
  ASSUME NEW n \in Int64, Fits(n)
  PROVE  \E q \in Nat : /\ RoundUpBytes(n) = q * GiB
                        /\ q * GiB \in Nat
                        /\ n <= q * GiB
                        /\ q * GiB < n + GiB
                        /\ BytesToGiB(RoundUpBytes(n)) = q
  <1> DEFINE a == n + GiB - 1
             q == a \div GiB
  <1>1. n \in Nat /\ a \in Nat /\ a \in Int64
    BY HalfAssumption, GiBAssumption DEF Fits, Int64
  <1>2. Wrap(a) = a
    BY <1>1, WrapInRange
  <1>3. q \in Nat /\ a = GiB * q + (a % GiB) /\ a % GiB \in 0 .. GiB - 1
    BY <1>1, DivMod, GiBAssumption
  <1>4. q * GiB \in Nat /\ q * GiB = GiB * q
    BY <1>3, GiBAssumption
  <1>5. n <= q * GiB /\ q * GiB < n + GiB /\ q * GiB <= a
    BY <1>1, <1>3, <1>4, GiBAssumption
  <1>6. roundUpSize(n, GiB) = q
    BY <1>1, <1>2 DEF roundUpSize, Quo
  <1>7. RoundUpBytes(n) = q * GiB
    <2>1. q * GiB \in Int64
      BY <1>1, <1>4, <1>5, HalfAssumption DEF Int64
    <2>2. QED
      BY <1>6, <2>1, WrapInRange DEF RoundUpBytes
  <1>8. BytesToGiB(RoundUpBytes(n)) = q
    <2>1. (q * GiB) \div GiB = q
      BY <1>3, GiBAssumption
    <2>2. QED
      BY <1>4, <1>7, <2>1 DEF BytesToGiB, Quo
  <1>9. QED
    BY <1>3, <1>4, <1>5, <1>7, <1>8

(****************************************************************************)
(* Division towards zero of a number that is not positive.                  *)
(****************************************************************************)
LEMMA QuoNegative ==
  ASSUME NEW x \in Int, x <= 0
  PROVE  /\ Quo(x, GiB) \in Int /\ Quo(x, GiB) <= 0
         /\ Quo(x, GiB) * GiB \in Int
         /\ x <= Quo(x, GiB) * GiB /\ Quo(x, GiB) * GiB <= 0
  <1> DEFINE a == -x
             q == a \div GiB
  <1>1. a \in Nat
    OBVIOUS
  <1>2. q \in Nat /\ a = GiB * q + (a % GiB) /\ a % GiB \in 0 .. GiB - 1
    BY <1>1, DivMod, GiBAssumption
  <1>3. GiB * q \in Nat /\ q * GiB = GiB * q /\ (-q) * GiB = -(GiB * q)
    BY <1>2, GiBAssumption
  <1>4. Quo(x, GiB) = -q
    <2>1. CASE x < 0
      BY <2>1 DEF Quo
    <2>2. CASE x = 0
      <3>1. q = 0
        BY <1>2, <1>3, <2>2, GiBAssumption
      <3>2. QED
        BY <2>2, <3>1 DEF Quo
    <2>3. QED
      BY <2>1, <2>2
  <1>5. GiB * q <= a
    BY <1>2, <1>3, GiBAssumption
  <1>6. QED
    BY <1>2, <1>3, <1>4, <1>5

(****************************************************************************)
(* A size that does not fit, negative or too large, is rounded to nothing   *)
(* or less: the overflow shows.                                             *)
(****************************************************************************)
LEMMA RoundUpOverflow ==
  ASSUME NEW n \in Int64, ~Fits(n)
  PROVE  /\ BytesToGiB(RoundUpBytes(n)) \in Int
         /\ BytesToGiB(RoundUpBytes(n)) * GiB \in Int
         /\ BytesToGiB(RoundUpBytes(n)) * GiB <= 0
  <1> DEFINE a == n + GiB - 1
             w == Wrap(a)
             q == Quo(w, GiB)
  <1>1. n \in Int /\ a \in Int /\ -Half <= n /\ n < Half /\ GiB <= Half
    BY HalfAssumption, GiBAssumption DEF Int64
  <1>2. CASE a < Half
    <2>1. a \in Int64 /\ n < 0
      BY <1>1, <1>2, HalfAssumption, GiBAssumption DEF Int64, Fits
    <2>2. w = a
      BY <2>1, WrapInRange
    <2>3. CASE a <= 0
      <3>1. q * GiB \in Int64 /\ q * GiB <= 0 /\ roundUpSize(n, GiB) = q
        BY <1>1, <2>1, <2>2, <2>3, QuoNegative, HalfAssumption DEF Int64, roundUpSize
      <3>2. RoundUpBytes(n) = q * GiB
        BY <3>1, WrapInRange DEF RoundUpBytes
      <3>3. QED
        BY <3>1, <3>2, QuoNegative, HalfAssumption DEF BytesToGiB, Int64
    <2>4. CASE a > 0
      <3>1. a \in Nat /\ a < GiB
        BY <1>1, <2>1, <2>4, GiBAssumption
      <3>2. a \div GiB = 0
        BY <3>1, GiBAssumption
      <3>3. roundUpSize(n, GiB) = 0
        BY <2>2, <3>1, <3>2 DEF roundUpSize, Quo
      <3>4. 0 \in Int64 /\ 0 * GiB = 0
        BY HalfAssumption, GiBAssumption DEF Int64
      <3>5. RoundUpBytes(n) = 0
        BY <3>3, <3>4, WrapInRange DEF RoundUpBytes
      <3>6. QED
        BY <3>5, QuoNegative DEF BytesToGiB
    <2>5. QED
      BY <1>1, <2>3, <2>4
  <1>3. CASE a >= Half
    <2>1. a + Half - 2 * Half \in Nat /\ a + Half - 2 * Half < 2 * Half
      BY <1>1, <1>3, HalfAssumption, GiBAssumption
    <2>2. (a + Half) % (2 * Half) = a - Half
      <3> DEFINE m == 2 * Half
                 y == a + Half
      <3>1. y \in Nat /\ m \in Nat \ {0} /\ m <= y /\ y < 2 * m /\ y - m = a - Half
        BY <1>1, <1>3, <2>1, HalfAssumption
      <3>2. y % m = y - m
        <4> HIDE DEF m, y
        <4> QED
          BY <3>1
      <3>3. QED
        BY <3>1, <3>2
    <2>3. w = a - 2 * Half /\ w \in Int64 /\ w <= 0
      BY <1>1, <1>3, <2>2, HalfAssumption, GiBAssumption DEF Wrap, Int64
    <2>4. q * GiB \in Int64 /\ q * GiB <= 0 /\ roundUpSize(n, GiB) = q
      BY <2>3, QuoNegative, HalfAssumption DEF Int64, roundUpSize
    <2>5. RoundUpBytes(n) = q * GiB
      BY <2>4, WrapInRange DEF RoundUpBytes
    <2>6. QED
      BY <2>4, <2>5, QuoNegative, HalfAssumption DEF BytesToGiB, Int64
  <1>4. QED
    BY <1>1, <1>2, <1>3, HalfAssumption

-----------------------------------------------------------------------------
(****************************************************************************)
(* Before the first call the file system fills its device.                  *)
(****************************************************************************)
LEMMA InitResize == Init => IndInv
  BY MaxSizeAssumption DEF Init, IndInv, TypeOK, SizesInOrder, ResizeCovers, Sizes

(****************************************************************************)
(* Expansions of the device and every step of every call keep the sizes in  *)
(* order, and what a call has promised.                                     *)
(****************************************************************************)
LEMMA NextResize == IndInv /\ [Next]_vars => IndInv'
  <1> SUFFICES ASSUME IndInv, [Next]_vars PROVE IndInv'
    OBVIOUS
  <1> USE DEF IndInv, TypeOK, SizesInOrder, ResizeCovers, Sizes, Goto, Leave
  <1>1. CASE Expand
    BY <1>1 DEF Expand
  <1>2. ASSUME NEW g \in Goroutines, Begin(g) PROVE IndInv'
    BY <1>2 DEF Begin
  <1>3. ASSUME NEW g \in Goroutines, ReadDevice(g) PROVE IndInv'
    BY <1>3 DEF ReadDevice
  <1>4. ASSUME NEW g \in Goroutines, NeedsNone(g) PROVE IndInv'
    BY <1>4 DEF NeedsNone
  <1>5. ASSUME NEW g \in Goroutines, NeedResize(g) PROVE IndInv'
    BY <1>5 DEF NeedResize, needResize
  <1>6. ASSUME NEW g \in Goroutines, ResizeGrows(g) PROVE IndInv'
    BY <1>6 DEF ResizeGrows
  <1>7. ASSUME NEW g \in Goroutines, Fails(g) PROVE IndInv'
    BY <1>7 DEF Fails
  <1>8. CASE UNCHANGED vars
    BY <1>8 DEF vars
  <1>9. QED
    BY <1>1, <1>2, <1>3, <1>4, <1>5, <1>6, <1>7, <1>8 DEF Next

(****************************************************************************)
(* A Resize that returns true covers the device as it was when the call was *)
(* made, however expansions and other calls interleave with its reads.      *)
(****************************************************************************)
THEOREM ResizeIsComplete == Spec => []ResizeCovers
  <1>1. IndInv => ResizeCovers
    BY DEF IndInv
  <1>2. QED
    BY <1>1, InitResize, NextResize, PTL DEF Spec

(****************************************************************************)
(* No step of any call shrinks the file system.                             *)
(****************************************************************************)
THEOREM ResizeNeverShrinks == Spec => NeverShrinks
  <1>1. IndInv /\ [Next]_vars => [fsize' >= fsize]_vars
    BY DEF IndInv, TypeOK, SizesInOrder, Sizes, Next, Expand, Begin, ReadDevice,
       NeedsNone, NeedResize, ResizeGrows, Fails
  <1>2. QED
    BY <1>1, InitResize, NextResize, PTL DEF Spec, NeverShrinks

-----------------------------------------------------------------------------
(****************************************************************************)
(* An order that makes the device grow is exact and was made for a request  *)
(* that fits.                                                               *)
(****************************************************************************)
LEMMA OrderIsExact ==
  ASSUME NEW r \in Int64, NEW d \in Nat, Ordered(r) * GiB > d
  PROVE  /\ Fits(r)
         /\ Ordered(r) * GiB \in Nat
         /\ r <= Ordered(r) * GiB
         /\ Ordered(r) * GiB < r + GiB
         /\ Ordered(r) * GiB = BytesToGiB(Ordered(r) * GiB) * GiB
  <1>1. Fits(r)
    BY RoundUpOverflow DEF Ordered
  <1>2. PICK q \in Nat : /\ RoundUpBytes(r) = q * GiB
                         /\ q * GiB \in Nat
                         /\ r <= q * GiB
                         /\ q * GiB < r + GiB
                         /\ BytesToGiB(RoundUpBytes(r)) = q
    BY <1>1, RoundUpExact
  <1>3. Ordered(r) = q
    BY <1>2 DEF Ordered
  <1>4. Ordered(r) * GiB = RoundUpBytes(r)
    BY <1>2, <1>3
  <1>5. BytesToGiB(Ordered(r) * GiB) = q
    BY <1>2, <1>4
  <1>6. QED
    BY <1>1, <1>2, <1>3, <1>5

(****************************************************************************)
(* The first volume has the unit's size, if the cloud offers that.          *)
(****************************************************************************)
LEMMA InitExpansion == ExpansionInit => ExpansionInv
  <1> SUFFICES ASSUME ExpansionInit PROVE ExpansionInv
    OBVIOUS
  <1>1. IndInv
    BY InitResize DEF ExpansionInit
  <1>2. GrantsAreCovered
    <2>1. GiB \in Int64
      BY HalfAssumption, GiBAssumption, UnitAssumption, MaxSizeAssumption DEF Int64
    <2>2. QED
      BY <2>1, GiBAssumption DEF ExpansionInit, Init, GrantsAreCovered
  <1>3. QED
    BY <1>1, <1>2 DEF ExpansionInv

(****************************************************************************)
(* A step of the expansion is a step of ResizeFs, or changes nothing of it. *)
(****************************************************************************)
LEMMA StepsOfResize == ExpansionInv /\ [ExpansionNext]_expansionVars => [Next]_vars
  <1> SUFFICES ASSUME ExpansionInv, [ExpansionNext]_expansionVars PROVE [Next]_vars
    OBVIOUS
  <1>1. ASSUME NEW r \in Int64, ExpandVolume(r) PROVE Expand
    <2>1. device \in Nat /\ MaxSize \in Nat
      BY MaxSizeAssumption DEF ExpansionInv, IndInv, TypeOK, Sizes
    <2>2. device' \in Nat /\ device' > device /\ device' <= MaxSize
      BY <1>1, <2>1, OrderIsExact DEF ExpandVolume
    <2>3. device' \in Sizes
      BY <2>1, <2>2 DEF Sizes
    <2>4. QED
      BY <1>1, <2>2, <2>3 DEF ExpandVolume, Expand
  <1>2. ASSUME NEW g \in Goroutines, Resize(g) PROVE Next
    BY <1>2 DEF Resize, Next
  <1>3. CASE UNCHANGED expansionVars
    BY <1>3 DEF expansionVars
  <1>4. QED
    BY <1>1, <1>2, <1>3 DEF ExpansionNext, Next

(****************************************************************************)
(* Expansions and calls of Resize keep the device ahead of what is granted. *)
(****************************************************************************)
LEMMA NextExpansion ==
  ExpansionInv /\ [ExpansionNext]_expansionVars => ExpansionInv'
  <1> SUFFICES ASSUME ExpansionInv, [ExpansionNext]_expansionVars
               PROVE  ExpansionInv'
    OBVIOUS
  <1>1. IndInv'
    BY StepsOfResize, NextResize DEF ExpansionInv
  <1> USE DEF ExpansionInv, GrantsAreCovered
  <1>2. ASSUME NEW r \in Int64, ExpandVolume(r) PROVE GrantsAreCovered'
    <2>1. device \in Nat
      BY DEF IndInv, TypeOK, Sizes
    <2>2. r <= device'
      BY <1>2, <2>1, OrderIsExact DEF ExpandVolume
    <2>3. QED
      BY <1>2, <2>2 DEF ExpandVolume
  <1>3. ASSUME NEW g \in Goroutines, Begin(g), UNCHANGED wanted,
               promised' = [promised EXCEPT ![g] = wanted]
        PROVE  GrantsAreCovered'
    BY <1>3 DEF Begin, IndInv, TypeOK
  <1>4. ASSUME NEW g \in Goroutines, UNCHANGED <<wanted, promised>>,
               ReadDevice(g) \/ NeedsNone(g) \/ NeedResize(g)
                 \/ ResizeGrows(g) \/ Fails(g)
        PROVE  GrantsAreCovered'
    BY <1>4 DEF ReadDevice, NeedsNone, NeedResize, ResizeGrows, Fails
  <1>5. ASSUME UNCHANGED expansionVars PROVE GrantsAreCovered'
    BY <1>5 DEF expansionVars, vars
  <1>6. GrantsAreCovered'
    BY <1>2, <1>3, <1>4, <1>5 DEF ExpansionNext, Resize
  <1>7. QED
    BY <1>1, <1>6

(****************************************************************************)
(* Every expansion is the least multiple of GiB that covers a request that  *)
(* fits: for the real int64 and the real GiB too.                           *)
(****************************************************************************)
THEOREM ExpansionsAreExact == ExpansionSpec => ExpansionIsExact
  <1>1. ASSUME ExpansionInv, [ExpansionNext]_expansionVars, device' # device
        PROVE  /\ Fits(wanted')
               /\ wanted' <= device' /\ device' < wanted' + GiB
               /\ device' = BytesToGiB(device') * GiB
    <2>1. device \in Nat
      BY <1>1 DEF ExpansionInv, IndInv, TypeOK, Sizes
    <2>2. ASSUME NEW g \in Goroutines, Resize(g) PROVE device' = device
      BY <2>2 DEF Resize, Begin, ReadDevice, NeedsNone, NeedResize, ResizeGrows, Fails
    <2>3. PICK r \in Int64 : ExpandVolume(r)
      BY <1>1, <2>2 DEF ExpansionNext, expansionVars, vars
    <2>4. QED
      BY <2>1, <2>3, OrderIsExact DEF ExpandVolume
  <1>2. ExpansionInv /\ [ExpansionNext]_expansionVars
          => [device' # device =>
                /\ Fits(wanted')
                /\ wanted' <= device' /\ device' < wanted' + GiB
                /\ device' = BytesToGiB(device') * GiB]_expansionVars
    BY <1>1
  <1>3. QED
    BY <1>2, InitExpansion, NextExpansion, PTL DEF ExpansionSpec, ExpansionIsExact

(****************************************************************************)
(* The device covers what was granted, what a call found covers what had    *)
(* been granted when it began, and the sizes a call has read are in order.  *)
(****************************************************************************)
THEOREM GrantsStayCovered == ExpansionSpec => []ExpansionInv
  BY InitExpansion, NextExpansion, PTL DEF ExpansionSpec

(****************************************************************************)
(* A Resize that returns true leaves the file system with what was granted  *)
(* before the call.                                                         *)
(****************************************************************************)
THEOREM RequestsAreHonoured == ExpansionSpec => []RequestHonoured
  <1>1. ExpansionInv => RequestHonoured
    <2> SUFFICES ASSUME ExpansionInv, NEW g \in Goroutines, resizable,
                        result[g] = "true"
                 PROVE  fsize + 1 >= promised[g]
      BY DEF RequestHonoured
    <2>1. fsize + 1 >= asked[g] /\ promised[g] <= asked[g]
      BY DEF ExpansionInv, IndInv, ResizeCovers, GrantsAreCovered
    <2>2. fsize \in Nat /\ asked[g] \in Nat /\ promised[g] \in Int
      BY HalfAssumption DEF ExpansionInv, IndInv, TypeOK, Sizes, GrantsAreCovered, Int64
    <2>3. QED
      BY <2>1, <2>2
  <1>2. QED
    BY <1>1, GrantsStayCovered, PTL
=============================================================================
