----------------------------- MODULE NamedLocks -----------------------------
(****************************************************************************)
(* What LockStore promises its callers, with no store, no mutex object and  *)
(* no lockstoremux: a lock per key that one process at a time may hold      *)
(* while locking is enabled, and calls that do nothing while it is not.     *)
(****************************************************************************)
CONSTANTS
    Procs,    \* the callers
    Keys,     \* the locks
    None      \* "no request pending"

VARIABLES
    enabled,  \* is locking enabled?  Fixed when the process starts
    want,     \* want[p]: the lock p is blocked on, or None
    holds     \* holds[p]: the locks p holds

avars == <<enabled, want, holds>>

AbsInit ==
    /\ enabled \in BOOLEAN
    /\ want = [p \in Procs |-> None]
    /\ holds = [p \in Procs |-> {}]

Free(k) == \A p \in Procs : k \notin holds[p]

Request(p, k) ==
    /\ enabled
    /\ want[p] = None
    /\ k \notin holds[p]
    /\ want' = [want EXCEPT ![p] = k]
    /\ UNCHANGED <<enabled, holds>>

Grant(p) ==
    /\ want[p] # None
    /\ Free(want[p])
    /\ holds' = [holds EXCEPT ![p] = @ \cup {want[p]}]
    /\ want' = [want EXCEPT ![p] = None]
    /\ UNCHANGED enabled

(* With locking disabled Lock returns at once, whoever holds the lock. *)
Pass(p, k) ==
    /\ ~enabled
    /\ k \notin holds[p]
    /\ holds' = [holds EXCEPT ![p] = @ \cup {k}]
    /\ UNCHANGED <<enabled, want>>

Release(p, k) ==
    /\ k \in holds[p]
    /\ want[p] = None
    /\ holds' = [holds EXCEPT ![p] = @ \ {k}]
    /\ UNCHANGED <<enabled, want>>

AbsNext == \E p \in Procs :
    \/ Grant(p)
    \/ \E k \in Keys : Request(p, k) \/ Pass(p, k) \/ Release(p, k)

AbsSafety == AbsInit /\ [][AbsNext]_avars

(* Every blocked caller is served if the lock it wants keeps being freed. *)
AbsSpec == AbsSafety /\ \A p \in Procs : SF_avars(Grant(p))
=============================================================================
