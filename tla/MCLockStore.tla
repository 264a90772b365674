---------------------------- MODULE MCLockStore ----------------------------
(* Model checking LockStore on small instances. *)
EXTENDS LockStore

CONSTANTS g1, g2, g3, s1, s2, n1

MCGoroutines == {g1, g2, g3}
MCStores     == {s1, s2}
MCNames      == {n1}
============================================================================
