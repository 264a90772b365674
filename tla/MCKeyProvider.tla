--------------------------- MODULE MCKeyProvider ---------------------------
(* Model checking KeyProvider: two sessions that dial up to twice, and two *)
(* callers.                                                                *)
EXTENDS KeyProvider

CONSTANTS s1, s2, k1, k2

MCSessions == {s1, s2}
MCCallers  == {k1, k2}
============================================================================
