-------------------------- MODULE LockStoreProofs --------------------------
(****************************************************************************)
(* LockStore for any sets of goroutines, stores and names: the inductive    *)
(* invariant, and from it mutual exclusion and freedom from fatal errors.   *)
(****************************************************************************)
EXTENDS LockStore, FiniteSetTheorems, TLAPS

(****************************************************************************)
(* The inductive invariant holds when the process starts: no map is made,   *)
(* no mutex allocated and no goroutine inside Lock or Unlock.               *)
(****************************************************************************)
LEMMA InitIndInv == Init => IndInv
  <1> SUFFICES ASSUME Init PROVE IndInv
    OBVIOUS
  <1>1. TypeOK
    BY DEF Init, TypeOK, PCs, Keys, Nil
  <1>2. MuxOwner
    BY NobodyAssumption DEF Init, MuxOwner, InGetLock
  <1>3. CallsInProgress /\ LookupsInProgress
    BY DEF Init, CallsInProgress, LookupsInProgress
  <1>4. DistinctMutexes /\ LockedWhileHeld /\ MutualExclusion
    BY DEF Init, DistinctMutexes, LockedWhileHeld, MutualExclusion, Nil
  <1>5. QED
    BY <1>1, <1>2, <1>3, <1>4 DEF IndInv

(****************************************************************************)
(* Calling Lock or Unlock, with the flag on or off, preserves it.           *)
(****************************************************************************)
LEMMA CallIndInv ==
  ASSUME IndInv, NEW g \in Goroutines, NEW k \in Keys, Lock(g, k) \/ Unlock(g, k)
  PROVE  IndInv'
  <1> USE DEF IndInv, Goto
  <1>1. CASE \E c \in Calls : Begin(g, c) /\ (c.op = "Unlock" => c.key \in held[g])
    <2> PICK c \in Calls : Begin(g, c) /\ (c.op = "Unlock" => c.key \in held[g])
      BY <1>1
    <2>1. TypeOK'
      BY DEF TypeOK, Begin, PCs
    <2>2. MuxOwner' /\ CallsInProgress' /\ LookupsInProgress'
      BY DEF TypeOK, Begin, MuxOwner, CallsInProgress, LookupsInProgress, InGetLock
    <2>3. DistinctMutexes' /\ LockedWhileHeld' /\ MutualExclusion'
      BY DEF TypeOK, Begin, DistinctMutexes, LockedWhileHeld, MutualExclusion
    <2>4. QED
      BY <2>1, <2>2, <2>3
  <1>2. CASE \E locks \in SUBSET Keys : Skip(g, locks)
    <2> PICK locks \in SUBSET Keys : Skip(g, locks)
      BY <1>2
    <2>1. TypeOK'
      BY DEF TypeOK, Skip
    <2>2. MuxOwner' /\ CallsInProgress' /\ LookupsInProgress'
      BY DEF TypeOK, Skip, MuxOwner, CallsInProgress, LookupsInProgress
    <2>3. DistinctMutexes' /\ LockedWhileHeld' /\ MutualExclusion'
      BY DEF TypeOK, Skip, DistinctMutexes, LockedWhileHeld, MutualExclusion
    <2>4. QED
      BY <2>1, <2>2, <2>3
  <1>3. QED
    BY <1>1, <1>2 DEF Lock, Unlock, Calls, TypeOK

(****************************************************************************)
(* Every step of getLock preserves it: lockstoremux makes the goroutine     *)
(* that is about to create a mutex the only one that reads or writes maps.  *)
(****************************************************************************)
LEMMA GetLockIndInv ==
  ASSUME IndInv, NEW g \in Goroutines, EnterGetLock(g) \/ GetLockStep(g)
  PROVE  IndInv'
  <1> USE DEF IndInv, Goto
  <1>0. call[g] \in Calls /\ call[g].key \in Keys /\ call[g].key[1] \in Stores
    BY DEF EnterGetLock, GetLockStep, CheckAndInitLockStore, Lookup, Create,
           Fetch, CallsInProgress, Calls, Keys
  <1>1. CASE EnterGetLock(g)
    <2>1. TypeOK'
      BY <1>1 DEF TypeOK, EnterGetLock, PCs, InGetLock
    <2>2. MuxOwner'
      BY <1>1, NobodyAssumption DEF TypeOK, EnterGetLock, MuxOwner, InGetLock
    <2>3. CallsInProgress' /\ LookupsInProgress'
      BY <1>1 DEF TypeOK, EnterGetLock, CallsInProgress, LookupsInProgress
    <2>4. DistinctMutexes' /\ LockedWhileHeld' /\ MutualExclusion'
      BY <1>1 DEF EnterGetLock, DistinctMutexes, LockedWhileHeld, MutualExclusion
    <2>5. QED
      BY <2>1, <2>2, <2>3, <2>4
  <1>2. CASE CheckAndInitLockStore(g)
    <2>1. TypeOK'
      BY <1>0, <1>2 DEF TypeOK, CheckAndInitLockStore, PCs, InGetLock
    <2>2. MuxOwner'
      BY <1>2 DEF TypeOK, CheckAndInitLockStore, MuxOwner, InGetLock
    <2>3. CallsInProgress' /\ LookupsInProgress'
      BY <1>2 DEF TypeOK, CheckAndInitLockStore, CallsInProgress, LookupsInProgress
    <2>4. DistinctMutexes' /\ LockedWhileHeld' /\ MutualExclusion'
      BY <1>2 DEF CheckAndInitLockStore, DistinctMutexes, LockedWhileHeld,
                  MutualExclusion
    <2>5. QED
      BY <2>1, <2>2, <2>3, <2>4
  <1>3. CASE Lookup(g)
    <2>1. TypeOK'
      BY <1>3 DEF TypeOK, Lookup, PCs, InGetLock
    <2>2. MuxOwner'
      BY <1>3 DEF TypeOK, Lookup, MuxOwner, InGetLock
    <2>3. CallsInProgress' /\ LookupsInProgress'
      BY <1>3 DEF TypeOK, Lookup, CallsInProgress, LookupsInProgress
    <2>4. DistinctMutexes' /\ LockedWhileHeld' /\ MutualExclusion'
      BY <1>3 DEF Lookup, DistinctMutexes, LockedWhileHeld, MutualExclusion
    <2>5. QED
      BY <2>1, <2>2, <2>3, <2>4
  <1>4. CASE Create(g)
    <2>0. /\ heap + 1 \notin locked
          /\ \A k \in Keys : store[k] # heap + 1
          /\ store[call[g].key] = Nil
          /\ store[call[g].key] \notin locked
      BY <1>4 DEF TypeOK, Create, LookupsInProgress, Nil
    <2>1. TypeOK'
      <3>1. heap' \in Nat /\ 0 .. heap \subseteq 0 .. heap' /\ heap + 1 \in 0 .. heap'
        BY <1>4 DEF TypeOK, Create
      <3>2. store' \in [Keys -> 0 .. heap'] /\ ref' \in [Goroutines -> 0 .. heap']
        BY <1>4, <3>1 DEF TypeOK, Create
      <3>3. locked' \subseteq 1 .. heap'
        BY <1>4, <3>1 DEF TypeOK, Create
      <3>4. pc' \in [Goroutines -> PCs]
        BY <1>4 DEF TypeOK, Create, PCs, InGetLock
      <3>5. QED
        BY <1>4, <3>1, <3>2, <3>3, <3>4 DEF TypeOK, Create
    <2>2. MuxOwner'
      BY <1>4 DEF TypeOK, Create, MuxOwner, InGetLock
    <2>3. CallsInProgress'
      BY <1>4 DEF TypeOK, Create, CallsInProgress
    <2>4. LookupsInProgress'
      <3>1. \A h \in Goroutines : h # g => pc[h] \notin InGetLock
        BY <1>4 DEF Create, MuxOwner, InGetLock
      <3>2. \A h \in Goroutines : pc[h] = "mutex" => call[h].key # call[g].key
        BY <2>0 DEF LookupsInProgress
      <3>3. QED
        BY <1>0, <1>4, <3>1, <3>2 DEF TypeOK, Create, LookupsInProgress,
           InGetLock, Nil, CallsInProgress, Calls
    <2>5. DistinctMutexes'
      BY <1>0, <1>4, <2>0 DEF TypeOK, Create, DistinctMutexes, Nil
    <2>6. LockedWhileHeld' /\ MutualExclusion'
      BY <1>0, <1>4, <2>0 DEF TypeOK, Create, LockedWhileHeld, MutualExclusion
    <2>7. QED
      BY <2>1, <2>2, <2>3, <2>4, <2>5, <2>6
  <1>5. CASE Fetch(g)
    <2>1. TypeOK'
      BY <1>0, <1>5 DEF TypeOK, Fetch, PCs
    <2>2. MuxOwner'
      BY <1>5, NobodyAssumption DEF TypeOK, Fetch, MuxOwner, InGetLock
    <2>3. CallsInProgress' /\ LookupsInProgress'
      BY <1>5 DEF TypeOK, Fetch, CallsInProgress, LookupsInProgress
    <2>4. DistinctMutexes' /\ LockedWhileHeld' /\ MutualExclusion'
      BY <1>5 DEF Fetch, DistinctMutexes, LockedWhileHeld, MutualExclusion
    <2>5. QED
      BY <2>1, <2>2, <2>3, <2>4
  <1>6. QED
    BY <1>1, <1>2, <1>3, <1>4, <1>5 DEF GetLockStep

(****************************************************************************)
(* Locking and unlocking the named mutex preserves it: the mutex is free    *)
(* only if nobody holds the key, and only the key's holder unlocks it.      *)
(****************************************************************************)
LEMMA MutexIndInv ==
  ASSUME IndInv, NEW g \in Goroutines, MutexLock(g) \/ MutexUnlock(g)
  PROVE  IndInv'
  <1> USE DEF IndInv, Goto, Return
  <1>0. /\ call[g] \in Calls /\ call[g].key \in Keys /\ LockEnabled
        /\ ref[g] = store[call[g].key] /\ ref[g] # Nil /\ ref[g] \in 1 .. heap
    BY DEF MutexLock, MutexUnlock, CallsInProgress, LookupsInProgress, Calls,
           TypeOK, Nil
  <1>1. MuxOwner' /\ DistinctMutexes'
    BY DEF TypeOK, MutexLock, MutexUnlock, MuxOwner, DistinctMutexes, InGetLock
  <1>2. TypeOK'
    <2>0. locked' \subseteq 1 .. heap'
      BY <1>0 DEF TypeOK, MutexLock, MutexUnlock
    <2>1. held' \in [Goroutines -> SUBSET Keys]
      <3>1. /\ held[g] \cup {call[g].key} \in SUBSET Keys
            /\ held[g] \ {call[g].key} \in SUBSET Keys
        BY <1>0 DEF TypeOK
      <3>2. QED
        BY <3>1 DEF TypeOK, MutexLock, MutexUnlock
    <2>2. ref' \in [Goroutines -> 0 .. heap']
      BY DEF TypeOK, MutexLock, MutexUnlock, Nil
    <2>3. pc' \in [Goroutines -> PCs] /\ call' \in [Goroutines -> Calls \cup {Nobody}]
      BY DEF TypeOK, MutexLock, MutexUnlock, PCs
    <2>4. QED
      BY <2>0, <2>1, <2>2, <2>3 DEF TypeOK, MutexLock, MutexUnlock
  <1>3. CallsInProgress' /\ LookupsInProgress'
    BY DEF TypeOK, MutexLock, MutexUnlock, CallsInProgress, LookupsInProgress
  <1>4. LockedWhileHeld'
    BY <1>0 DEF TypeOK, MutexLock, MutexUnlock, LockedWhileHeld, MutualExclusion,
       DistinctMutexes, CallsInProgress
  <1>5. MutualExclusion'
    BY <1>0 DEF TypeOK, MutexLock, MutexUnlock, LockedWhileHeld, MutualExclusion
  <1>6. QED
    BY <1>1, <1>2, <1>3, <1>4, <1>5

(****************************************************************************)
(* A step of the system, or a step that changes nothing here, preserves it. *)
(****************************************************************************)
LEMMA NextIndInv == IndInv /\ [Next]_vars => IndInv'
  <1> SUFFICES ASSUME IndInv, [Next]_vars PROVE IndInv'
    OBVIOUS
  <1>1. CASE Next
    BY <1>1, CallIndInv, GetLockIndInv, MutexIndInv DEF Next
  <1>2. CASE UNCHANGED vars
    BY <1>2 DEF vars, IndInv, TypeOK, MuxOwner, CallsInProgress,
       LookupsInProgress, DistinctMutexes, LockedWhileHeld, MutualExclusion
  <1>3. QED
    BY <1>1, <1>2

(****************************************************************************)
(* The store, the calls in progress and the locks held always agree, for    *)
(* any number of goroutines, LockStores and names.                          *)
(****************************************************************************)
THEOREM StoreConsistent == Spec => []IndInv
  BY InitIndInv, NextIndInv, PTL DEF Spec

(****************************************************************************)
(* Lock(name) excludes: with locking enabled two goroutines never hold the  *)
(* same name, however their lazy lookups and creations interleave.          *)
(****************************************************************************)
THEOREM LockStoreExcludes == Spec => []MutualExclusion
  <1>1. IndInv => MutualExclusion
    BY DEF IndInv
  <1>2. QED
    BY <1>1, StoreConsistent, PTL

(****************************************************************************)
(* getLock never writes to a nil map and Unlock never unlocks an unlocked   *)
(* mutex: the library does not kill the driver of a disciplined caller.     *)
(****************************************************************************)
THEOREM LockStoreNeverFatal == Spec => []NeverFatal
  <1>1. IndInv => NeverFatal
    BY DEF IndInv, NeverFatal, CallsInProgress, LookupsInProgress,
       LockedWhileHeld, Calls
  <1>2. QED
    BY <1>1, StoreConsistent, PTL

(****************************************************************************)
(* Every variable keeps its type; in particular every pointer in the map,   *)
(* and every one a goroutine got from getLock, is nil or allocated.         *)
(****************************************************************************)
THEOREM LockStoreTypes == Spec => []TypeOK
  <1>1. IndInv => TypeOK
    BY DEF IndInv
  <1>2. QED
    BY <1>1, StoreConsistent, PTL

(****************************************************************************)
(* The map only grows and the mutex of a name is never replaced.            *)
(****************************************************************************)
THEOREM LockStoreStable == Spec => MutexesAreStable
  <1>1. IndInv /\ [Next]_vars =>
          [/\ made \subseteq made'
           /\ \A k \in Keys : store[k] # Nil => store'[k] = store[k]]_vars
    <2> SUFFICES ASSUME IndInv, Next
                 PROVE  /\ made \subseteq made'
                        /\ \A k \in Keys : store[k] # Nil => store'[k] = store[k]
      OBVIOUS
    <2> PICK g \in Goroutines :
             \/ \E k \in Keys : Lock(g, k) \/ Unlock(g, k)
             \/ EnterGetLock(g) \/ GetLockStep(g)
             \/ MutexLock(g) \/ MutexUnlock(g)
      BY DEF Next
    <2>1. CASE Create(g)
      BY <2>1 DEF Create, Goto, IndInv, LookupsInProgress, TypeOK
    <2>2. CASE CheckAndInitLockStore(g)
      BY <2>2 DEF CheckAndInitLockStore
    <2>3. CASE UNCHANGED <<made, store>>
      BY <2>3
    <2>4. QED
      BY <2>1, <2>2, <2>3 DEF Lock, Unlock, Begin, Skip, EnterGetLock,
         GetLockStep, Lookup, Fetch, MutexLock, MutexUnlock, Return
  <1>2. QED
    BY <1>1, StoreConsistent, PTL DEF Spec, MutexesAreStable

(****************************************************************************)
(* Counting mutexes: the map is finite, and as large as the heap.           *)
(****************************************************************************)
InMap == {k \in Keys : store[k] # Nil}

MutexCount == IsFiniteSet(InMap) /\ heap = Cardinality(InMap)

(****************************************************************************)
(* Only Create allocates, and it publishes what it allocates under a key    *)
(* that had no mutex.                                                       *)
(****************************************************************************)
LEMMA NextMutexCount == IndInv /\ MutexCount /\ [Next]_vars => MutexCount'
  <1> SUFFICES ASSUME IndInv, MutexCount, [Next]_vars PROVE MutexCount'
    OBVIOUS
  <1>1. ASSUME NEW g \in Goroutines, Create(g) PROVE MutexCount'
    <2> DEFINE k == call[g].key
    <2>1. k \in Keys /\ k \notin InMap
      BY <1>1 DEF Create, Goto, IndInv, CallsInProgress, LookupsInProgress, Calls, InMap
    <2>2. InMap' = InMap \cup {k}
      BY <1>1, <2>1 DEF Create, IndInv, TypeOK, InMap, Nil
    <2>3. /\ IsFiniteSet(InMap \cup {k})
          /\ Cardinality(InMap \cup {k}) = Cardinality(InMap) + 1
      BY <2>1, FS_AddElement DEF MutexCount
    <2>4. QED
      BY <1>1, <2>2, <2>3 DEF Create, MutexCount
  <1>2. ASSUME UNCHANGED <<store, heap>> PROVE MutexCount'
    BY <1>2 DEF MutexCount, InMap
  <1>3. QED
    BY <1>1, <1>2 DEF Next, vars, Lock, Unlock, Begin, Skip, EnterGetLock,
       GetLockStep, CheckAndInitLockStore, Lookup, Fetch, MutexLock, MutexUnlock,
       Return

(****************************************************************************)
(* One mutex is allocated per name in use, however many goroutines ask for  *)
(* a new name at once: none is allocated in vain.                           *)
(****************************************************************************)
THEOREM LockStoreFrugal == Spec => []OneMutexPerName
  <1>1. Init => MutexCount
    <2> SUFFICES ASSUME Init PROVE MutexCount
      OBVIOUS
    <2>1. InMap = {}
      BY DEF Init, InMap
    <2>2. QED
      BY <2>1, FS_EmptySet DEF Init, MutexCount
  <1>2. MutexCount => OneMutexPerName
    BY DEF MutexCount, InMap, OneMutexPerName
  <1>3. QED
    BY <1>1, <1>2, NextMutexCount, StoreConsistent, PTL DEF Spec

-----------------------------------------------------------------------------
(****************************************************************************)
(* The refinement of NamedLocks.  A goroutine has a call exactly while it   *)
(* executes one, so that what it wants is what its pending Lock names.      *)
(****************************************************************************)
IdleHasNoCall == \A g \in Goroutines : pc[g] = "idle" => call[g] = Nobody

(****************************************************************************)
(* Lock and Unlock set call when they begin, and reset it when they return. *)
(****************************************************************************)
LEMMA NextIdle == IndInv /\ IdleHasNoCall /\ [Next]_vars => IdleHasNoCall'
  <1> SUFFICES ASSUME IndInv, IdleHasNoCall, [Next]_vars PROVE IdleHasNoCall'
    OBVIOUS
  <1> USE DEF IdleHasNoCall, IndInv, TypeOK, Goto
  <1>1. ASSUME NEW g \in Goroutines, NEW k \in Keys, Lock(g, k) \/ Unlock(g, k)
        PROVE  IdleHasNoCall'
    BY <1>1 DEF Lock, Unlock, Begin, Skip
  <1>2. ASSUME NEW g \in Goroutines, EnterGetLock(g) \/ GetLockStep(g)
        PROVE  IdleHasNoCall'
    BY <1>2 DEF EnterGetLock, GetLockStep, CheckAndInitLockStore, Lookup, Create, Fetch
  <1>3. ASSUME NEW g \in Goroutines, MutexLock(g) \/ MutexUnlock(g)
        PROVE  IdleHasNoCall'
    BY <1>3 DEF MutexLock, MutexUnlock, Return
  <1>4. CASE UNCHANGED vars
    BY <1>4 DEF vars
  <1>5. QED
    BY <1>1, <1>2, <1>3, <1>4 DEF Next

(****************************************************************************)
(* Calling Lock is a request, calling Unlock changes nothing yet, and with  *)
(* locking disabled the calls take and release at once.                     *)
(****************************************************************************)
LEMMA CallRefines ==
  ASSUME IndInv, IdleHasNoCall, NEW g \in Goroutines, NEW k \in Keys,
         Lock(g, k) \/ Unlock(g, k)
  PROVE  [NL!AbsNext]_(NL!avars)
  <1> USE DEF IndInv, TypeOK, Goto
  <1>0. pc[g] = "idle" /\ call[g] = Nobody /\ WantedKey(g) = Nobody
    BY DEF Lock, Unlock, Begin, Skip, IdleHasNoCall, WantedKey
  <1>1. CASE Begin(g, [op |-> "Lock", key |-> k]) /\ k \notin held[g]
    <2>1. [op |-> "Lock", key |-> k] # Nobody
      BY NoCallAssumption DEF Calls
    <2>2. NL!Request(g, k)
      BY <1>0, <1>1, <2>1 DEF NL!Request, Begin, WantedKey
    <2>3. QED
      BY <2>2 DEF NL!AbsNext
  <1>2. CASE Begin(g, [op |-> "Unlock", key |-> k])
    <2>1. UNCHANGED NL!avars
      BY <1>0, <1>2 DEF NL!avars, Begin, WantedKey
    <2>2. QED
      BY <2>1
  <1>3. CASE Skip(g, held[g] \cup {k}) /\ k \notin held[g]
    <2>1. NL!Pass(g, k)
      BY <1>3 DEF NL!Pass, Skip, WantedKey
    <2>2. QED
      BY <2>1 DEF NL!AbsNext
  <1>4. CASE Skip(g, held[g] \ {k}) /\ k \in held[g]
    <2>1. NL!Release(g, k)
      BY <1>0, <1>4 DEF NL!Release, Skip, WantedKey
    <2>2. QED
      BY <2>1 DEF NL!AbsNext
  <1>5. QED
    BY <1>1, <1>2, <1>3, <1>4 DEF Lock, Unlock

(****************************************************************************)
(* Locking the named mutex grants the request: the mutex is free only if    *)
(* nobody holds the key.  Unlocking it releases the key.                    *)
(****************************************************************************)
LEMMA MutexRefines ==
  ASSUME IndInv, NEW g \in Goroutines, MutexLock(g) \/ MutexUnlock(g)
  PROVE  NL!AbsNext
  <1> DEFINE k == call[g].key
  <1>0. /\ call[g] \in Calls /\ k \in Keys /\ call[g] # Nobody /\ k # Nobody
        /\ ref[g] = store[k] /\ LockEnabled
    BY NoCallAssumption DEF MutexLock, MutexUnlock, Return, Goto, IndInv,
       CallsInProgress, LookupsInProgress, Calls
  <1>1. CASE MutexLock(g)
    <2>1. WantedKey(g) = k
      BY <1>0, <1>1 DEF MutexLock, WantedKey
    <2>2. NL!Free(k)
      BY <1>0, <1>1 DEF NL!Free, MutexLock, IndInv, LockedWhileHeld
    <2>3. held' = [held EXCEPT ![g] = @ \cup {k}]
      BY <1>1 DEF MutexLock
    <2>4. NL!Grant(g)
      BY <1>0, <1>1, <2>1, <2>2, <2>3
         DEF NL!Grant, NL!Free, MutexLock, Return, WantedKey, IndInv, TypeOK
    <2>5. QED
      BY <2>4 DEF NL!AbsNext
  <1>2. CASE MutexUnlock(g)
    <2>1. WantedKey(g) = Nobody
      BY <1>0, <1>2 DEF MutexUnlock, WantedKey
    <2>2. k \in held[g]
      BY <1>2 DEF MutexUnlock, Return, Goto, IndInv, CallsInProgress
    <2>3. NL!Release(g, k)
      BY <1>0, <1>2, <2>1, <2>2
         DEF NL!Release, MutexUnlock, Return, WantedKey, IndInv, TypeOK
    <2>4. QED
      BY <1>0, <2>3 DEF NL!AbsNext
  <1>3. QED
    BY <1>1, <1>2

(****************************************************************************)
(* The lazily filled store implements ideal named locks: every step of it   *)
(* is a request, a grant of a free lock, a release, or invisible.           *)
(****************************************************************************)
THEOREM LockStoreRefines == Spec => ImplementsNamedLocks
  <1>1. Init => NL!AbsInit
    BY DEF Init, NL!AbsInit, WantedKey
  <1>2. Init => IdleHasNoCall
    BY DEF Init, IdleHasNoCall
  <1>3. IndInv /\ IdleHasNoCall /\ [Next]_vars => [NL!AbsNext]_(NL!avars)
    <2> SUFFICES ASSUME IndInv, IdleHasNoCall, [Next]_vars
                 PROVE  [NL!AbsNext]_(NL!avars)
      OBVIOUS
    <2>1. ASSUME UNCHANGED <<LockEnabled, call, held>> PROVE UNCHANGED NL!avars
      BY <2>1 DEF NL!avars, WantedKey
    <2>2. ASSUME NEW g \in Goroutines, EnterGetLock(g) \/ GetLockStep(g)
          PROVE  UNCHANGED <<LockEnabled, call, held>>
      BY <2>2 DEF EnterGetLock, GetLockStep, CheckAndInitLockStore, Lookup, Create, Fetch
    <2>3. CASE UNCHANGED vars
      BY <2>1, <2>3 DEF vars
    <2>4. QED
      BY <2>1, <2>2, <2>3, CallRefines, MutexRefines DEF Next
  <1>4. QED
    BY <1>1, <1>2, <1>3, NextIdle, StoreConsistent, PTL
       DEF Spec, ImplementsNamedLocks, NL!AbsSafety
=============================================================================
