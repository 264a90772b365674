------------------------------ MODULE LockStore ------------------------------
(****************************************************************************)
(* pkg/utils/lock_store.go: named mutexes, created on first use.            *)
(*                                                                          *)
(* A LockStore maps a name to a *sync.Mutex.  getLock makes the map and     *)
(* fills it lazily, under the one package-level mutex lockstoremux that all *)
(* LockStores of the process share; Lock and Unlock then lock or unlock the *)
(* mutex getLock returned, with lockstoremux released.  Goroutines call     *)
(* Lock and Unlock concurrently, and every access of getLock to the shared  *)
(* map is a step of its own.                                                *)
(****************************************************************************)
EXTENDS Naturals, FiniteSets

CONSTANTS
    Goroutines,   \* the goroutines of the driver
    Stores,       \* the LockStore values of the process
    Names,        \* the lock names (volume IDs) in use
    MaxHeld,      \* how many locks one goroutine holds at a time, at most
    Nobody        \* "no goroutine" and "no call"

ASSUME NobodyAssumption == Nobody \notin Goroutines

(* s.store[name] is addressed by a store and a name. *)
Keys == Stores \X Names

(* The nil pointer; the mutexes getLock allocates are 1, 2, ... *)
Nil == 0

VARIABLES
    LockEnabled,   \* *LockEnabled, the lock_enabled flag
    lockstoremux,  \* the goroutine that holds lockstoremux, or Nobody
    made,          \* the stores whose map is non-nil
    store,         \* store[k]: the mutex s.store[name] points to, or Nil
    heap,          \* how many mutexes have been allocated
    locked,        \* the mutexes that are locked
    pc,            \* where each goroutine is
    call,          \* the call it is executing, or Nobody
    ref,           \* the *sync.Mutex getLock returned to it
    held           \* held[g]: the locks g took and has not released

vars == <<LockEnabled, lockstoremux, made, store, heap, locked,
          pc, call, ref, held>>

Calls == [op : {"Lock", "Unlock"}, key : Keys]

ASSUME NoCallAssumption == Nobody \notin Keys /\ Nobody \notin Calls

(* The statements of getLock that run with lockstoremux held. *)
InGetLock == {"init", "lookup", "create", "fetch"}

PCs == {"idle", "getLock", "mutex"} \cup InGetLock

Init ==
    /\ LockEnabled \in BOOLEAN
    /\ lockstoremux = Nobody
    /\ made = {}
    /\ store = [k \in Keys |-> Nil]
    /\ heap = 0
    /\ locked = {}
    /\ pc = [g \in Goroutines |-> "idle"]
    /\ call = [g \in Goroutines |-> Nobody]
    /\ ref = [g \in Goroutines |-> Nil]
    /\ held = [g \in Goroutines |-> {}]

Goto(g, from, to) ==
    /\ pc[g] = from
    /\ pc' = [pc EXCEPT ![g] = to]

(****************************************************************************)
(* Lock(name) and Unlock(name) are called.  The callers are disciplined:    *)
(* they unlock only what they hold and never lock what they hold already.   *)
(****************************************************************************)
Begin(g, c) ==
    /\ LockEnabled
    /\ Goto(g, "idle", "getLock")
    /\ call' = [call EXCEPT ![g] = c]
    /\ UNCHANGED <<LockEnabled, lockstoremux, made, store, heap, locked,
                   ref, held>>

(* With the flag off the calls return without touching the store. *)
Skip(g, locks) ==
    /\ ~LockEnabled
    /\ pc[g] = "idle"
    /\ held' = [held EXCEPT ![g] = locks]
    /\ UNCHANGED <<LockEnabled, lockstoremux, made, store, heap, locked,
                   pc, call, ref>>

Lock(g, k) ==
    /\ k \notin held[g]
    /\ Cardinality(held[g]) < MaxHeld
    /\ \/ Begin(g, [op |-> "Lock", key |-> k])
       \/ Skip(g, held[g] \cup {k})

Unlock(g, k) ==
    /\ k \in held[g]
    /\ \/ Begin(g, [op |-> "Unlock", key |-> k])
       \/ Skip(g, held[g] \ {k})

(****************************************************************************)
(* getLock                                                                  *)
(****************************************************************************)
(* Mutant: getLock without lockstoremux.Lock(). *)
EnterGetLockUnguarded(g) ==
    /\ Goto(g, "getLock", "init")
    /\ lockstoremux' = g
    /\ UNCHANGED <<LockEnabled, made, store, heap, locked, call, ref, held>>

EnterGetLock(g) ==                         \* lockstoremux.Lock()
    /\ Goto(g, "getLock", "init")
    /\ lockstoremux = Nobody
    /\ lockstoremux' = g
    /\ UNCHANGED <<LockEnabled, made, store, heap, locked, call, ref, held>>

(* Mutant: the map is never made. *)
SkipInitLockStore(g) ==
    /\ Goto(g, "init", "lookup")
    /\ UNCHANGED <<LockEnabled, lockstoremux, made, store, heap, locked, call,
                   ref, held>>

CheckAndInitLockStore(g) ==                \* if s.store == nil { make }
    /\ Goto(g, "init", "lookup")
    /\ made' = made \cup {call[g].key[1]}
    /\ UNCHANGED <<LockEnabled, lockstoremux, store, heap, locked, call,
                   ref, held>>

(* Mutants: the check for nil is dropped, and its branch is. *)
LookupAlwaysCreate(g) ==
    /\ Goto(g, "lookup", "create")
    /\ UNCHANGED <<LockEnabled, lockstoremux, made, store, heap, locked,
                   call, ref, held>>

LookupNeverCreate(g) ==
    /\ Goto(g, "lookup", "fetch")
    /\ UNCHANGED <<LockEnabled, lockstoremux, made, store, heap, locked,
                   call, ref, held>>

Lookup(g) ==                               \* if s.store[name] == nil
    /\ \/ /\ Goto(g, "lookup", "create")
          /\ store[call[g].key] = Nil
       \/ /\ Goto(g, "lookup", "fetch")
          /\ store[call[g].key] # Nil
    /\ UNCHANGED <<LockEnabled, lockstoremux, made, store, heap, locked,
                   call, ref, held>>

Create(g) ==                               \* s.store[name] = &sync.Mutex{}
    /\ Goto(g, "create", "fetch")
    /\ heap' = heap + 1
    /\ store' = [store EXCEPT ![call[g].key] = heap + 1]
    /\ UNCHANGED <<LockEnabled, lockstoremux, made, locked, call, ref, held>>

(* Mutant: the deferred lockstoremux.Unlock() is missing. *)
FetchKeepingMux(g) ==
    /\ Goto(g, "fetch", "mutex")
    /\ ref' = [ref EXCEPT ![g] = store[call[g].key]]
    /\ UNCHANGED <<LockEnabled, lockstoremux, made, store, heap, locked, call,
                   held>>

Fetch(g) ==                                \* return s.store[name], deferred
    /\ Goto(g, "fetch", "mutex")           \* lockstoremux.Unlock()
    /\ ref' = [ref EXCEPT ![g] = store[call[g].key]]
    /\ lockstoremux' = Nobody
    /\ UNCHANGED <<LockEnabled, made, store, heap, locked, call, held>>

GetLockStep(g) ==
    CheckAndInitLockStore(g) \/ Lookup(g) \/ Create(g) \/ Fetch(g)

(****************************************************************************)
(* The named mutex                                                          *)
(****************************************************************************)
Return(g) ==
    /\ Goto(g, "mutex", "idle")
    /\ call' = [call EXCEPT ![g] = Nobody]
    /\ ref' = [ref EXCEPT ![g] = Nil]
    /\ UNCHANGED <<LockEnabled, lockstoremux, made, store, heap>>

MutexLock(g) ==                            \* s.getLock(name).Lock()
    /\ Return(g)
    /\ call[g].op = "Lock"
    /\ ref[g] \notin locked
    /\ locked' = locked \cup {ref[g]}
    /\ held' = [held EXCEPT ![g] = @ \cup {call[g].key}]

MutexUnlock(g) ==                          \* s.getLock(name).Unlock()
    /\ Return(g)
    /\ call[g].op = "Unlock"
    /\ locked' = locked \ {ref[g]}
    /\ held' = [held EXCEPT ![g] = @ \ {call[g].key}]

Next == \E g \in Goroutines :
    \/ \E k \in Keys : Lock(g, k) \/ Unlock(g, k)
    \/ EnterGetLock(g)
    \/ GetLockStep(g)
    \/ MutexLock(g)
    \/ MutexUnlock(g)

Spec == Init /\ [][Next]_vars

(****************************************************************************)
(* The scheduler runs every goroutine that can run.  sync.Mutex hands the   *)
(* lock over to a waiter that has starved for 1ms, so a goroutine that      *)
(* waits for a mutex gets it if it keeps being released: strong fairness.   *)
(* Callers release what they hold ("defer mutex.Unlock(name)").             *)
(****************************************************************************)
Fairness == \A g \in Goroutines :
    /\ SF_vars(EnterGetLock(g))
    /\ WF_vars(GetLockStep(g))
    /\ SF_vars(MutexLock(g))
    /\ WF_vars(MutexUnlock(g))
    /\ WF_vars(\E k \in Keys : Unlock(g, k))

FairSpec == Spec /\ Fairness

-----------------------------------------------------------------------------
(* The type of every variable; mutex pointers are Nil or allocated. *)
TypeOK ==
    /\ LockEnabled \in BOOLEAN
    /\ lockstoremux \in Goroutines \cup {Nobody}
    /\ made \subseteq Stores
    /\ heap \in Nat
    /\ store \in [Keys -> 0 .. heap]
    /\ locked \subseteq 1 .. heap
    /\ pc \in [Goroutines -> PCs]
    /\ call \in [Goroutines -> Calls \cup {Nobody}]
    /\ ref \in [Goroutines -> 0 .. heap]
    /\ held \in [Goroutines -> SUBSET Keys]

(****************************************************************************)
(* Two goroutines never hold the same name of the same store, although each *)
(* looked the mutex up, or created it, on its own (getLock's check-then-    *)
(* create), unless locking was disabled by the flag.                        *)
(****************************************************************************)
MutualExclusion ==
    LockEnabled =>
        \A g, h \in Goroutines : g # h => held[g] \cap held[h] = {}

(****************************************************************************)
(* No goroutine is about to kill the process: a write to the nil map        *)
(* (s.store[name] = ... before checkAndInitLockStore) or "unlock of         *)
(* unlocked mutex" (Unlock's own lookup finding another mutex than Lock's). *)
(****************************************************************************)
NeverFatal == \A g \in Goroutines :
    /\ pc[g] = "create" => call[g].key[1] \in made
    /\ pc[g] = "mutex" /\ call[g].op = "Unlock" => ref[g] \in locked

(****************************************************************************)
(* Why these hold.  The parts of the inductive invariant:                   *)
(* - lockstoremux belongs to the goroutine that is inside getLock;          *)
(* - calls are executed only with the flag on, by disciplined callers;      *)
(* - getLock has made the map before it uses it, creates only what is       *)
(*   missing and returns only what is there;                                *)
(* - no two keys share a mutex;                                             *)
(* - a goroutine that left getLock still has the mutex the map has;         *)
(* - the mutex of a key is locked exactly while some goroutine holds it.    *)
(****************************************************************************)
MuxOwner ==
    \A g \in Goroutines : pc[g] \in InGetLock <=> lockstoremux = g

CallsInProgress == \A g \in Goroutines : pc[g] # "idle" =>
    /\ LockEnabled
    /\ call[g] \in Calls
    /\ call[g].op = "Unlock" => call[g].key \in held[g]

LookupsInProgress == \A g \in Goroutines :
    /\ pc[g] \in {"lookup", "create", "fetch"} => call[g].key[1] \in made
    /\ pc[g] = "create" => store[call[g].key] = Nil
    /\ pc[g] = "fetch" => store[call[g].key] # Nil
    /\ pc[g] = "mutex" => /\ ref[g] = store[call[g].key]
                          /\ ref[g] # Nil

DistinctMutexes == \A k, l \in Keys :
    k # l /\ store[k] # Nil => store[k] # store[l]

LockedWhileHeld == LockEnabled => \A k \in Keys :
    store[k] \in locked <=> \E g \in Goroutines : k \in held[g]

(****************************************************************************)
(* The store, the calls in progress and the locks held agree in every       *)
(* reachable state: an inductive invariant of getLock, Lock and Unlock.     *)
(****************************************************************************)
IndInv ==
    /\ TypeOK
    /\ MuxOwner
    /\ CallsInProgress
    /\ LookupsInProgress
    /\ DistinctMutexes
    /\ LockedWhileHeld
    /\ MutualExclusion

(****************************************************************************)
(* Mutexes are allocated at most once per name of a store, however many     *)
(* goroutines ask for the same new name at once ("It should have only 2     *)
(* lock now as well"): the store never forgets a mutex, so its memory is    *)
(* bounded by the names in use only because none is allocated in vain.      *)
(****************************************************************************)
OneMutexPerName == heap = Cardinality({k \in Keys : store[k] # Nil})

(****************************************************************************)
(* Once published in the map, the mutex of a name is never replaced, and a  *)
(* map is never dropped: goroutines that hold or wait for the old mutex     *)
(* would otherwise not exclude those that lock the new one.                 *)
(****************************************************************************)
MutexesAreStable ==
    [][/\ made \subseteq made'
       /\ \A k \in Keys : store[k] # Nil => store'[k] = store[k]]_vars

(****************************************************************************)
(* Unlock always returns, even when the lock holders wait for each other    *)
(* in a cycle: nobody keeps lockstoremux, which Unlock's getLock needs,     *)
(* while it is blocked on a named mutex.                                    *)
(****************************************************************************)
UnlockReturns == \A g \in Goroutines :
    (call[g] # Nobody /\ call[g].op = "Unlock") ~> call[g] = Nobody

(****************************************************************************)
(* Refinement: LockStore implements NamedLocks.  A caller waits from the    *)
(* moment it calls Lock until it owns the named mutex.                      *)
(****************************************************************************)
WantedKey(g) ==
    IF call[g] # Nobody /\ call[g].op = "Lock" THEN call[g].key ELSE Nobody

NL == INSTANCE NamedLocks WITH
    Procs <- Goroutines, None <- Nobody, enabled <- LockEnabled,
    want <- [g \in Goroutines |-> WantedKey(g)], holds <- held

(****************************************************************************)
(* Every step of the store, the lazy initialisation and the lookups         *)
(* included, is a step of an ideal per-name lock or invisible to callers.   *)
(****************************************************************************)
ImplementsNamedLocks == NL!AbsSafety

(****************************************************************************)
(* ... and every Lock call is eventually served if the lock it names keeps  *)
(* being released: the store adds no starvation and no blocking of its own  *)
(* (goroutines that use other names or other stores, sharing lockstoremux,  *)
(* cannot delay it forever).                                                *)
(****************************************************************************)
ImplementsFairNamedLocks == NL!AbsSpec
=============================================================================
