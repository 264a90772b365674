-------------------------- MODULE PVWatcherProofs --------------------------
(****************************************************************************)
(* PVWatcher for any set of PVs, any number of writes, relists and crashes, *)
(* and any faults.                                                          *)
(****************************************************************************)
EXTENDS PVWatcher, SequenceTheorems, TLAPS

(****************************************************************************)
(* The revisions a PV may have are revisions, and 0 is one.                 *)
(****************************************************************************)
LEMMA RevsOfPV ==
  ASSUME NEW p \in PVs
  PROVE  0 .. MaxRev[p] \subseteq Revs /\ 0 \in Revs /\ MaxRev[p] \in Nat
  BY BoundsAssumption DEF Revs

(****************************************************************************)
(* A step in the life of a PV leads to a phase.                             *)
(****************************************************************************)
LEMMA LifecycleType ==
  ASSUME NEW v \in Versions, NEW next \in Lifecycle(v)
  PROVE  next[1] \in Phases /\ next[2] \in BOOLEAN
  <1>0. v.phase \in Phases /\ v.claim \in BOOLEAN
    BY DEF Versions
  <1>1. \/ next \in {<<"Pending", TRUE>>, <<"Pending", FALSE>>}
        \/ next \in {<<"Available", v.claim>>, <<"Bound", TRUE>>, <<"Deleted", v.claim>>}
        \/ next \in {<<"Bound", TRUE>>, <<"Released", TRUE>>}
        \/ next \in {<<"Available", FALSE>>, <<"Failed", TRUE>>, <<"Deleted", TRUE>>}
        \/ next = <<"Deleted", TRUE>>
    BY <1>0, Zenon DEF Lifecycle, Phases
  <1>2. \E a \in Phases, b \in BOOLEAN : next = <<a, b>>
    BY <1>0, <1>1, Zenon DEF Phases
  <1>3. QED
    BY <1>2

(****************************************************************************)
(* What updateVolume saves is metadata of a volume.                         *)
(****************************************************************************)
LEMMA getVolumeType ==
  ASSUME NEW p \in PVs, NEW v \in Versions
  PROVE  getVolume(v) \in Volumes
  BY RevsOfPV DEF getVolume, Volumes, Versions

(****************************************************************************)
(* A list has one version of a PV, or none.                                 *)
(****************************************************************************)
LEMMA ListedType ==
  ASSUME TypeOK, NEW p \in PVs
  PROVE  Listed(p) \in Seq(Versions)
  <1>1. pv[p] \in Versions
    BY DEF TypeOK
  <1>2. QED
    BY <1>1 DEF Listed

(****************************************************************************)
(* The API server, the informer's lists and a crash keep the types.         *)
(****************************************************************************)
LEMMA EnvironmentTypes ==
  ASSUME TypeOK, (\E p \in PVs : WritePV(p)) \/ Start \/ Relist \/ Crash
  PROVE  TypeOK'
  <1> USE DEF TypeOK
  <1>1. ASSUME NEW p \in PVs, WritePV(p) PROVE TypeOK'
    <2>1. PICK next \in Lifecycle(pv[p]) :
             LET v == [phase |-> next[1], claim |-> next[2], rev |-> pv[p].rev + 1]
             IN  /\ pv' = [pv EXCEPT ![p] = v]
                 /\ watch' = IF up THEN [watch EXCEPT ![p] = Append(@, v)] ELSE watch
      BY <1>1 DEF WritePV
    <2> DEFINE v == [phase |-> next[1], claim |-> next[2], rev |-> pv[p].rev + 1]
    <2>2. pv[p] \in Versions /\ pv[p].rev < MaxRev[p]
      BY <1>1 DEF WritePV
    <2>3. pv[p].rev \in Nat
      BY <2>2, BoundsAssumption DEF Versions, Revs
    <2>4. pv[p].rev + 1 \in Revs
      <3>1. MaxRev[p] \in Nat /\ 0 .. MaxRev[p] \subseteq Revs
        BY RevsOfPV
      <3>2. pv[p].rev + 1 \in 0 .. MaxRev[p]
        BY <2>2, <2>3, <3>1
      <3>3. QED
        BY <3>1, <3>2
    <2>5. v \in Versions
      BY <2>2, <2>4, LifecycleType DEF Versions
    <2>6. Append(watch[p], v) \in Seq(Versions)
      BY <2>5, AppendProperties
    <2>7. pv' \in [PVs -> Versions] /\ watch' \in [PVs -> Seq(Versions)]
      BY <2>1, <2>5, <2>6
    <2>8. QED
      BY <1>1, <2>7 DEF WritePV, Tasks, Ends
  <1>2. CASE Start
    <2>1. watch' \in [PVs -> Seq(Versions)]
      BY <1>2, ListedType DEF Start
    <2>2. QED
      BY <1>2, <2>1 DEF Start, Tasks, Ends
  <1>3. CASE Relist
    <2>1. \A p \in PVs : watch[p] \o Listed(p) \in Seq(Versions)
      BY ListedType, ConcatProperties
    <2>2. watch' \in [PVs -> Seq(Versions)]
      BY <1>3, <2>1, ListedType DEF Relist
    <2>3. relists' \in 0 .. MaxRelists
      BY <1>3, BoundsAssumption DEF Relist
    <2>4. QED
      BY <1>3, <2>2, <2>3 DEF Relist, Tasks, Ends
  <1>4. CASE Crash
    <2>1. watch' \in [PVs -> Seq(Versions)] /\ up' \in BOOLEAN
      <3>1. <<>> \in Seq(Versions)
        BY EmptySeq
      <3>2. QED
        BY <1>4, <3>1 DEF Crash, Die
    <2>2. cache' \in [PVs -> Versions]
      BY <1>4, RevsOfPV DEF Crash, Die, Absent, Versions, Phases
    <2>3. \A t \in tasks : Ended(t, "killed") \in Ends
      BY DEF Tasks, Ends, Ended
    <2>4. tasks' \subseteq Tasks' /\ log' \subseteq Ends'
      BY <1>4, <2>3 DEF Crash, Die, Ends
    <2>5. crashes' \in 0 .. MaxCrashes
      BY <1>4, BoundsAssumption DEF Crash
    <2>6. QED
      BY <1>4, <2>1, <2>2, <2>4, <2>5 DEF Crash, Die
  <1>5. QED
    BY <1>1, <1>2, <1>3, <1>4

(****************************************************************************)
(* The delivery of a version, handled or not, keeps the types.              *)
(****************************************************************************)
LEMMA HandlerTypes ==
  ASSUME TypeOK, NEW p \in PVs, Ignored(p) \/ updateVolume(p)
  PROVE  TypeOK'
  <1> USE DEF TypeOK
  <1>1. Arrives(p)
    BY DEF Ignored, updateVolume
  <1>2. Head(watch[p]) \in Versions /\ Tail(watch[p]) \in Seq(Versions)
    BY <1>1, HeadTailProperties DEF Arrives
  <1>3. watch' \in [PVs -> Seq(Versions)] /\ cache' \in [PVs -> Versions]
    BY <1>1, <1>2 DEF Arrives
  <1>4. CASE Ignored(p)
    BY <1>3, <1>4 DEF Ignored, Tasks, Ends
  <1>5. CASE updateVolume(p)
    <2> DEFINE alone == \A t \in tasks : t.pv # p
               new == [id |-> spawned + 1, pv |-> p, ver |-> Head(watch[p]),
                       pc |-> "session", alone |-> alone]
    <2>1. spawned' = spawned + 1 /\ tasks' = tasks \cup {new} /\ log' = log
      BY <1>5 DEF updateVolume
    <2>2. 1 .. spawned \subseteq 1 .. spawned' /\ spawned + 1 \in 1 .. spawned'
      BY <2>1
    <2>3. alone \in BOOLEAN
      OBVIOUS
    <2> HIDE DEF alone
    <2>4. new \in Tasks'
      BY <1>2, <2>2, <2>3 DEF Tasks
    <2>5. Tasks \subseteq Tasks' /\ Ends \subseteq Ends'
      BY <2>2 DEF Tasks, Ends
    <2>6. tasks' \subseteq Tasks' /\ log' \subseteq Ends'
      BY <2>1, <2>4, <2>5
    <2>7. QED
      BY <1>3, <1>5, <2>1, <2>6 DEF updateVolume
  <1>6. QED
    BY <1>4, <1>5

(****************************************************************************)
(* Every step of a goroutine of updateVolume keeps the types.               *)
(****************************************************************************)
LEMMA TaskTypes ==
  ASSUME TypeOK, NEW t \in tasks, TaskStep(t)
  PROVE  TypeOK'
  <1> USE DEF TypeOK
  <1>0. t \in Tasks /\ t.pv \in PVs /\ t.ver \in Versions
    BY DEF Tasks
  <1>1. UNCHANGED <<pv, watch, cache, up, spawned, relists, crashes>>
    BY DEF TaskStep, NoSession, GetProviderSession, Panic, UpdateVolume,
       UpdateVolumeFails, Event
  <1>2. ASSUME NEW to \in {"update", "Normal", "Warning"}, Goto(t, to)
        PROVE  tasks' \subseteq Tasks' /\ log' \subseteq Ends'
    <2>1. [t EXCEPT !.pc = to] \in Tasks
      BY <1>0 DEF Tasks
    <2>2. QED
      BY <1>1, <1>2, <2>1 DEF Goto, Tasks, Ends
  <1>3. ASSUME NEW how \in {"nosession", "panicked", "Normal", "Warning"}, End(t, how)
        PROVE  tasks' \subseteq Tasks' /\ log' \subseteq Ends'
    <2>1. Ended(t, how) \in Ends
      BY <1>0 DEF Tasks, Ends, Ended
    <2>2. QED
      BY <1>1, <1>3, <2>1 DEF End, Tasks, Ends
  <1>4. tasks' \subseteq Tasks' /\ log' \subseteq Ends'
    BY <1>2, <1>3 DEF TaskStep, NoSession, GetProviderSession, Panic, UpdateVolume,
       UpdateVolumeFails, Event
  <1>5. backend' \in [PVs -> Volumes \cup {NoVolume}]
    <2>1. getVolume(t.ver) \in Volumes
      BY <1>0, getVolumeType
    <2>2. backend' \in {backend, [backend EXCEPT ![t.pv] = getVolume(t.ver)]}
      BY DEF TaskStep, NoSession, GetProviderSession, Panic, UpdateVolume,
         UpdateVolumeFails, Event
    <2>3. QED
      BY <2>1, <2>2
  <1>6. QED
    BY <1>1, <1>4, <1>5

(****************************************************************************)
(* Every step keeps the types.                                              *)
(****************************************************************************)
LEMMA NextTypes == TypeOK /\ [Next]_vars => TypeOK'
  <1> SUFFICES ASSUME TypeOK, [Next]_vars PROVE TypeOK'
    OBVIOUS
  <1>1. CASE UNCHANGED vars
    BY <1>1 DEF vars, TypeOK, Tasks, Ends
  <1>2. QED
    BY <1>1, EnvironmentTypes, HandlerTypes, TaskTypes DEF Next

(****************************************************************************)
(* Every variable keeps its type: in particular what the watcher is told    *)
(* and what it saves are versions and metadata that exist.                  *)
(****************************************************************************)
THEOREM WatcherTypes == Spec => []TypeOK
  <1>1. Init => TypeOK
    <2> SUFFICES ASSUME Init PROVE TypeOK
      OBVIOUS
    <2>1. \A p \in PVs : Absent \in Versions
      BY RevsOfPV DEF Absent, Versions, Phases
    <2>2. <<>> \in Seq(Versions)
      BY EmptySeq
    <2>3. pv \in [PVs -> Versions] /\ cache \in [PVs -> Versions]
      BY <2>1 DEF Init
    <2>4. watch \in [PVs -> Seq(Versions)]
      BY <2>2 DEF Init
    <2>5. backend \in [PVs -> Volumes \cup {NoVolume}]
      BY DEF Init
    <2>6. tasks \subseteq Tasks /\ log \subseteq Ends /\ up \in BOOLEAN
      BY DEF Init
    <2>7. spawned \in Nat /\ relists \in 0 .. MaxRelists /\ crashes \in 0 .. MaxCrashes
      BY BoundsAssumption DEF Init
    <2>8. QED
      BY <2>3, <2>4, <2>5, <2>6, <2>7 DEF TypeOK
  <1>2. QED
    BY <1>1, NextTypes, PTL DEF Spec
-----------------------------------------------------------------------------
(****************************************************************************)
(* The inductive invariant.  A goroutine belongs to a PV of the provisioner *)
(* and, past getTags, has a claim; no two have the same number; one that    *)
(* was started alone is older than every other one of its PV, running or    *)
(* not ended before it; and one that is about to record "Success" has saved *)
(* its version.                                                             *)
(****************************************************************************)
TasksAreOwn == \A t \in tasks : filter(t.pv) /\ (t.pc # "session" => t.ver.claim)

UniqueIds == \A t, u \in tasks : t.id = u.id => t = u

AloneIsOldest ==
    /\ \A t, u \in tasks : t.alone /\ u.pv = t.pv /\ u # t => t.id < u.id
    /\ \A e \in log : \A u \in tasks : e.alone /\ u.pv = e.pv => e.id < u.id

SavedBeforeEvent == \A t \in tasks :
    t.pc = "Normal" /\ t.alone /\ Newest(t) => backend[t.pv] = getVolume(t.ver)

WatcherInv ==
    /\ TypeOK
    /\ TasksAreOwn
    /\ SavedIsGenuine
    /\ UniqueIds
    /\ AloneIsOldest
    /\ SavedBeforeEvent
    /\ SuccessMeansSaved

(* A step of t leaves t running, or ends it. *)
Moves(t, to) == t \in tasks /\ Goto(t, to) /\ UNCHANGED spawned

Leaves(t, how) == t \in tasks /\ End(t, how) /\ UNCHANGED <<spawned, backend>>

Saves(t) == backend' = [backend EXCEPT ![t.pv] = getVolume(t.ver)]

(****************************************************************************)
(* What a step may do to the goroutines and to what is saved.               *)
(****************************************************************************)
LEMMA StepKinds ==
  ASSUME [Next]_vars
  PROVE  \/ UNCHANGED <<tasks, spawned, log, backend>>
         \/ \E p \in PVs : updateVolume(p)
         \/ Crash
         \/ \E t \in tasks : t.pc = "session" /\ t.ver.claim /\ Moves(t, "update")
                             /\ UNCHANGED backend
         \/ \E t \in tasks : t.pc = "update" /\ Moves(t, "Normal") /\ Saves(t)
         \/ \E t \in tasks : t.pc = "update" /\ Moves(t, "Warning")
                             /\ (UNCHANGED backend \/ Saves(t))
         \/ \E t \in tasks : t.pc = "session" /\ Leaves(t, "nosession")
         \/ \E t \in tasks : t.pc = "session" /\ Leaves(t, "panicked")
         \/ \E t \in tasks : t.pc \in {"Normal", "Warning"} /\ Leaves(t, t.pc)
  <1>1. CASE UNCHANGED vars
    BY <1>1 DEF vars
  <1>2. ASSUME NEW p \in PVs, WritePV(p) \/ Ignored(p)
        PROVE  UNCHANGED <<tasks, spawned, log, backend>>
    BY <1>2 DEF WritePV, Ignored
  <1>3. CASE Start \/ Relist
    BY <1>3 DEF Start, Relist
  <1>4. ASSUME NEW t \in tasks, NoSession(t) PROVE t.pc = "session" /\ Leaves(t, "nosession")
    BY <1>4 DEF NoSession, Leaves
  <1>5. ASSUME NEW t \in tasks, Panic(t) PROVE t.pc = "session" /\ Leaves(t, "panicked")
    BY <1>5 DEF Panic, Leaves
  <1>6. ASSUME NEW t \in tasks, Event(t)
        PROVE  t.pc \in {"Normal", "Warning"} /\ Leaves(t, t.pc)
    BY <1>6 DEF Event, Leaves
  <1>7. ASSUME NEW t \in tasks, GetProviderSession(t)
        PROVE  t.pc = "session" /\ t.ver.claim /\ Moves(t, "update") /\ UNCHANGED backend
    BY <1>7 DEF GetProviderSession, Moves, getTagsPanics
  <1>8. ASSUME NEW t \in tasks, UpdateVolume(t)
        PROVE  t.pc = "update" /\ Moves(t, "Normal") /\ Saves(t)
    BY <1>8 DEF UpdateVolume, Moves, Saves
  <1>9. ASSUME NEW t \in tasks, UpdateVolumeFails(t)
        PROVE  t.pc = "update" /\ Moves(t, "Warning") /\ (UNCHANGED backend \/ Saves(t))
    BY <1>9 DEF UpdateVolumeFails, Moves, Saves
  <1>10. QED
    BY <1>1, <1>2, <1>3, <1>4, <1>5, <1>6, <1>7, <1>8, <1>9 DEF Next, TaskStep

(****************************************************************************)
(* What is known of the fields of a goroutine, before and after it moves    *)
(* and once it has ended.                                                   *)
(****************************************************************************)
LEMMA TaskFields ==
  ASSUME TypeOK
  PROVE  /\ \A t \in tasks : /\ t.id \in Nat /\ t.id <= spawned /\ t.pv \in PVs
                             /\ t.ver \in Versions /\ t.alone \in BOOLEAN
         /\ \A e \in log : /\ e.id \in Nat /\ e.id <= spawned /\ e.pv \in PVs
                           /\ e.ver \in Versions /\ e.alone \in BOOLEAN
         /\ spawned \in Nat
         /\ \A t \in tasks : \A to :
               LET u == [t EXCEPT !.pc = to]
               IN  u.id = t.id /\ u.pv = t.pv /\ u.ver = t.ver /\ u.alone = t.alone /\ u.pc = to
         /\ \A t \in tasks : \A how :
               LET e == Ended(t, how)
               IN  e.id = t.id /\ e.pv = t.pv /\ e.ver = t.ver /\ e.alone = t.alone /\ e.outcome = how
  BY DEF TypeOK, Tasks, Ends, Ended

(****************************************************************************)
(* No goroutine is forgotten: it keeps running or its end is recorded.      *)
(****************************************************************************)
LEMMA HistoryKept ==
  ASSUME TypeOK, [Next]_vars, NEW x \in tasks \cup log
  PROVE  \E y \in tasks' \cup log' : y.id = x.id /\ y.pv = x.pv /\ y.ver = x.ver
  <1>1. CASE UNCHANGED <<tasks, spawned, log, backend>>
    BY <1>1
  <1>2. ASSUME NEW p \in PVs, updateVolume(p) PROVE x \in tasks' \cup log'
    BY <1>2 DEF updateVolume
  <1>3. CASE Crash
    <2>1. log' = log \cup {Ended(t, "killed") : t \in tasks}
      BY <1>3 DEF Crash, Die
    <2>2. CASE x \in log
      BY <2>1, <2>2
    <2>3. CASE x \in tasks
      <3>1. Ended(x, "killed") \in log'
        BY <2>1, <2>3
      <3>2. QED
        BY <2>3, <3>1, TaskFields
    <2>4. QED
      BY <2>2, <2>3
  <1>4. ASSUME NEW t \in tasks, NEW to, Goto(t, to)
        PROVE  \E y \in tasks' \cup log' : y.id = x.id /\ y.pv = x.pv /\ y.ver = x.ver
    <2> DEFINE u == [t EXCEPT !.pc = to]
    <2>1. u \in tasks' /\ (x # t => x \in tasks' \cup log')
      BY <1>4 DEF Goto
    <2>2. u.id = t.id /\ u.pv = t.pv /\ u.ver = t.ver
      BY TaskFields
    <2> HIDE DEF u
    <2>3. QED
      BY <2>1, <2>2
  <1>5. ASSUME NEW t \in tasks, NEW how, End(t, how)
        PROVE  \E y \in tasks' \cup log' : y.id = x.id /\ y.pv = x.pv /\ y.ver = x.ver
    <2>1. Ended(t, how) \in log' /\ (x # t => x \in tasks' \cup log')
      BY <1>5 DEF End
    <2>2. QED
      BY <2>1, TaskFields
  <1>6. QED
    BY <1>1, <1>2, <1>3, <1>4, <1>5, StepKinds DEF Moves, Leaves

(****************************************************************************)
(* The goroutine that updateVolume starts.                                  *)
(****************************************************************************)
LEMMA SpawnedTask ==
  ASSUME NEW p \in PVs, updateVolume(p)
  PROVE  \E new : /\ new.id = spawned + 1 /\ new.pv = p /\ new.pc = "session"
                  /\ new.alone <=> \A t \in tasks : t.pv # p
                  /\ tasks' = tasks \cup {new} /\ log' = log
                  /\ spawned' = spawned + 1 /\ backend' = backend
  <1> DEFINE none == \A t \in tasks : t.pv # p
             new == [id |-> spawned + 1, pv |-> p, ver |-> Head(watch[p]),
                     pc |-> "session", alone |-> none]
  <1>1. /\ tasks' = tasks \cup {new} /\ log' = log
        /\ spawned' = spawned + 1 /\ backend' = backend
    BY DEF updateVolume
  <1>2. new.id = spawned + 1 /\ new.pv = p /\ new.pc = "session" /\ new.alone = none
    OBVIOUS
  <1> HIDE DEF new
  <1>3. QED
    BY <1>1, <1>2

(****************************************************************************)
(* Goroutines are started for PVs of the provisioner and get past getTags   *)
(* only with a claim.                                                       *)
(****************************************************************************)
LEMMA NextOwn ==
  ASSUME TypeOK, TasksAreOwn, [Next]_vars
  PROVE  TasksAreOwn'
  <1> USE DEF TasksAreOwn, filter
  <1>1. CASE UNCHANGED <<tasks, spawned, log, backend>>
    BY <1>1
  <1>2. ASSUME NEW p \in PVs, updateVolume(p) PROVE TasksAreOwn'
    BY <1>2 DEF updateVolume, IsUpdate
  <1>3. CASE Crash
    BY <1>3 DEF Crash, Die
  <1>4. ASSUME NEW t \in tasks, NEW to, Moves(t, to), t.ver.claim PROVE TasksAreOwn'
    <2> DEFINE u == [t EXCEPT !.pc = to]
    <2>1. tasks' = (tasks \ {t}) \cup {u}
      BY <1>4 DEF Moves, Goto
    <2>2. u.pv = t.pv /\ u.ver = t.ver
      BY TaskFields
    <2> HIDE DEF u
    <2>3. QED
      BY <1>4, <2>1, <2>2
  <1>5. ASSUME NEW t \in tasks, NEW how, Leaves(t, how) PROVE TasksAreOwn'
    BY <1>5 DEF Leaves, End
  <1>6. QED
    BY <1>1, <1>2, <1>3, <1>4, <1>5, StepKinds

(****************************************************************************)
(* Only goroutines that are in order save, and what they saved stays        *)
(* traceable to them.                                                       *)
(****************************************************************************)
LEMMA NextGenuine ==
  ASSUME TypeOK, TasksAreOwn, SavedIsGenuine, [Next]_vars
  PROVE  SavedIsGenuine'
  <1> SUFFICES ASSUME NEW p \in PVs, backend'[p] # NoVolume
               PROVE  /\ Driver[p] = provisionerName
                      /\ \E x \in tasks' \cup log' :
                            x.pv = p /\ x.ver.claim /\ backend'[p] = getVolume(x.ver)
    BY DEF SavedIsGenuine
  <1>1. CASE backend'[p] = backend[p]
    <2>1. /\ Driver[p] = provisionerName
          /\ \E x \in tasks \cup log :
                x.pv = p /\ x.ver.claim /\ backend[p] = getVolume(x.ver)
      BY <1>1 DEF SavedIsGenuine
    <2>2. QED
      BY <1>1, <2>1, HistoryKept
  <1>2. CASE \E t \in tasks : t.pc = "update" /\ Saves(t)
    <2>1. PICK t \in tasks : t.pc = "update" /\ Saves(t)
      BY <1>2
    <2>2. t.ver.claim /\ Driver[t.pv] = provisionerName
      BY <2>1 DEF TasksAreOwn, filter
    <2>3. CASE t.pv = p
      <3>1. backend'[p] = getVolume(t.ver)
        BY <2>1, <2>3 DEF Saves, TypeOK
      <3>2. QED
        BY <2>2, <2>3, <3>1, HistoryKept
    <2>4. CASE t.pv # p
      BY <1>1, <2>1, <2>4 DEF Saves, TypeOK
    <2>5. QED
      BY <2>3, <2>4
  <1>3. UNCHANGED backend \/ \E t \in tasks : t.pc = "update" /\ Saves(t)
    BY StepKinds DEF updateVolume, Crash, Die, Leaves
  <1>4. QED
    BY <1>1, <1>2, <1>3

(****************************************************************************)
(* Each goroutine is started with a number of its own and keeps it.         *)
(****************************************************************************)
LEMMA NextUniqueIds ==
  ASSUME TypeOK, UniqueIds, [Next]_vars
  PROVE  UniqueIds'
  <1> USE DEF UniqueIds
  <1>1. CASE UNCHANGED <<tasks, spawned, log, backend>>
    BY <1>1
  <1>2. ASSUME NEW p \in PVs, updateVolume(p) PROVE UniqueIds'
    <2>1. PICK new : new.id = spawned + 1 /\ tasks' = tasks \cup {new}
      BY <1>2, SpawnedTask
    <2>2. QED
      BY <2>1, TaskFields
  <1>3. CASE Crash
    BY <1>3 DEF Crash, Die
  <1>4. ASSUME NEW t \in tasks, NEW to, Moves(t, to) PROVE UniqueIds'
    <2> DEFINE u == [t EXCEPT !.pc = to]
    <2>1. tasks' = (tasks \ {t}) \cup {u}
      BY <1>4 DEF Moves, Goto
    <2>2. u.id = t.id
      BY TaskFields
    <2> HIDE DEF u
    <2>3. QED
      BY <2>1, <2>2
  <1>5. ASSUME NEW t \in tasks, NEW how, Leaves(t, how) PROVE UniqueIds'
    BY <1>5 DEF Leaves, End
  <1>6. QED
    BY <1>1, <1>2, <1>3, <1>4, <1>5, StepKinds

(****************************************************************************)
(* A goroutine that was started alone stays the oldest of its PV until it   *)
(* ends, and those that run after it are younger.                           *)
(****************************************************************************)
LEMMA NextOldest ==
  ASSUME TypeOK, AloneIsOldest, [Next]_vars
  PROVE  AloneIsOldest'
  <1> USE DEF AloneIsOldest
  <1>1. CASE UNCHANGED <<tasks, spawned, log, backend>>
    BY <1>1
  <1>2. ASSUME NEW p \in PVs, updateVolume(p) PROVE AloneIsOldest'
    <2>1. PICK new : /\ new.id = spawned + 1 /\ new.pv = p
                     /\ new.alone <=> \A t \in tasks : t.pv # p
                     /\ tasks' = tasks \cup {new} /\ log' = log
      BY <1>2, SpawnedTask
    <2>2. \A x \in tasks \cup log : x.id < new.id
      BY <2>1, TaskFields
    <2>3. QED
      BY <2>1, <2>2
  <1>3. CASE Crash
    BY <1>3 DEF Crash, Die
  <1>4. ASSUME NEW t \in tasks, NEW to, Moves(t, to) PROVE AloneIsOldest'
    <2> DEFINE u == [t EXCEPT !.pc = to]
    <2>1. tasks' = (tasks \ {t}) \cup {u} /\ log' = log
      BY <1>4 DEF Moves, Goto
    <2>2. u.id = t.id /\ u.pv = t.pv /\ u.alone = t.alone
      BY TaskFields
    <2> HIDE DEF u
    <2>3. QED
      BY <2>1, <2>2
  <1>5. ASSUME NEW t \in tasks, NEW how, Leaves(t, how) PROVE AloneIsOldest'
    <2> DEFINE e == Ended(t, how)
    <2>1. tasks' = tasks \ {t} /\ log' = log \cup {e}
      BY <1>5 DEF Leaves, End
    <2>2. e.id = t.id /\ e.pv = t.pv /\ e.alone = t.alone
      BY TaskFields
    <2> HIDE DEF e
    <2>3. QED
      BY <2>1, <2>2
  <1>6. QED
    BY <1>1, <1>2, <1>3, <1>4, <1>5, StepKinds

(****************************************************************************)
(* The newest goroutine of a PV was its newest before the step, too.        *)
(****************************************************************************)
LEMMA NewestBefore ==
  ASSUME TypeOK, [Next]_vars, NEW x, NEW y, x.id = y.id, x.pv = y.pv, Newest(y)'
  PROVE  Newest(x)
  <1> SUFFICES ASSUME NEW z \in tasks \cup log, z.pv = x.pv PROVE z.id <= x.id
    BY DEF Newest
  <1>1. PICK w \in tasks' \cup log' : w.id = z.id /\ w.pv = z.pv
    BY HistoryKept
  <1>2. QED
    BY <1>1 DEF Newest

(* x has, or will have, the event "Success". *)
Succeeds(x) == (x \in tasks /\ x.pc = "Normal") \/ (x \in log /\ x.outcome = "Normal")

Same(x, y) == x.id = y.id /\ x.pv = y.pv /\ x.ver = y.ver /\ x.alone = y.alone

(****************************************************************************)
(* A goroutine that succeeds after a step succeeded before it, or has just  *)
(* saved.                                                                   *)
(****************************************************************************)
LEMMA SucceedsBefore ==
  ASSUME TypeOK, [Next]_vars, NEW y, Succeeds(y)'
  PROVE  \/ UNCHANGED backend /\ \E x : Succeeds(x) /\ Same(x, y)
         \/ \E t \in tasks : /\ Saves(t)
                             /\ \E u \in tasks' : Same(t, u)
                             /\ \/ y # t /\ Succeeds(y)
                                \/ Same(t, y)
  <1> USE DEF Succeeds, Same
  <1>1. CASE UNCHANGED <<tasks, spawned, log, backend>>
    BY <1>1
  <1>2. ASSUME NEW p \in PVs, updateVolume(p)
        PROVE  UNCHANGED backend /\ \E x : Succeeds(x) /\ Same(x, y)
    BY <1>2, SpawnedTask
  <1>3. CASE Crash
    <2>1. /\ UNCHANGED backend /\ tasks' = {}
          /\ log' = log \cup {Ended(t, "killed") : t \in tasks}
      BY <1>3 DEF Crash, Die
    <2>2. \A t \in tasks : Ended(t, "killed").outcome = "killed"
      BY DEF Ended
    <2>3. y \in log
      BY <2>1, <2>2
    <2>4. QED
      BY <2>1, <2>2, <2>3
  <1>4. ASSUME NEW t \in tasks, NEW how, Leaves(t, how), how = "Normal" => t.pc = "Normal"
        PROVE  UNCHANGED backend /\ \E x : Succeeds(x) /\ Same(x, y)
    <2> DEFINE e == Ended(t, how)
    <2>1. tasks' = tasks \ {t} /\ log' = log \cup {e} /\ UNCHANGED backend
      BY <1>4 DEF Leaves, End
    <2>2. e.id = t.id /\ e.pv = t.pv /\ e.ver = t.ver /\ e.alone = t.alone /\ e.outcome = how
      BY TaskFields
    <2> HIDE DEF e
    <2>3. QED
      BY <1>4, <2>1, <2>2
  <1>5. ASSUME NEW t \in tasks, NEW to, Moves(t, to), t.pc # "Normal",
               (to # "Normal" /\ UNCHANGED backend) \/ Saves(t)
        PROVE  \/ UNCHANGED backend /\ \E x : Succeeds(x) /\ Same(x, y)
               \/ /\ Saves(t)
                  /\ \E u \in tasks' : Same(t, u)
                  /\ \/ y # t /\ Succeeds(y)
                     \/ Same(t, y)
    <2> DEFINE u == [t EXCEPT !.pc = to]
    <2>1. tasks' = (tasks \ {t}) \cup {u} /\ log' = log
      BY <1>5 DEF Moves, Goto
    <2>2. u.id = t.id /\ u.pv = t.pv /\ u.ver = t.ver /\ u.alone = t.alone /\ u.pc = to
      BY TaskFields
    <2> HIDE DEF u
    <2>3. y = u \/ (y \in tasks /\ y # t /\ y.pc = "Normal") \/ (y \in log /\ y.outcome = "Normal")
      BY <2>1
    <2>4. CASE to # "Normal" /\ UNCHANGED backend
      BY <1>5, <2>1, <2>2, <2>4
    <2>5. CASE Saves(t)
      BY <1>5, <2>1, <2>2, <2>3, <2>5
    <2>6. QED
      BY <1>5, <2>4, <2>5
  <1> HIDE DEF Succeeds, Same
  <1>6. QED
    BY <1>1, <1>2, <1>3, <1>4, <1>5, StepKinds

(****************************************************************************)
(* A save by another goroutine spoils no success that counts: a younger one *)
(* makes it count no longer, and there is no older one.                     *)
(****************************************************************************)
LEMMA NextSaved ==
  ASSUME TypeOK, AloneIsOldest, SavedBeforeEvent, SuccessMeansSaved, [Next]_vars
  PROVE  SavedBeforeEvent' /\ SuccessMeansSaved'
  <1>0. \A x : Succeeds(x) /\ x.alone /\ Newest(x) => backend[x.pv] = getVolume(x.ver)
    BY DEF Succeeds, SavedBeforeEvent, SuccessMeansSaved
  <1>1. ASSUME NEW y, Succeeds(y)', y.alone, Newest(y)'
        PROVE  backend'[y.pv] = getVolume(y.ver)
    <2>1. CASE UNCHANGED backend /\ \E x : Succeeds(x) /\ Same(x, y)
      <3>1. PICK x : Succeeds(x) /\ Same(x, y)
        BY <2>1
      <3>2. Newest(x)
        BY <1>1, <3>1, NewestBefore DEF Same
      <3>3. QED
        BY <1>0, <1>1, <2>1, <3>1, <3>2 DEF Same
    <2>2. ASSUME NEW t \in tasks, Saves(t), NEW u \in tasks', Same(t, u),
                 (y # t /\ Succeeds(y)) \/ Same(t, y)
          PROVE  backend'[y.pv] = getVolume(y.ver)
      <3>1. t.pv \in PVs /\ t.id \in Nat
        BY TaskFields
      <3>2. CASE Same(t, y)
        BY <2>2, <3>1, <3>2 DEF Same, Saves, TypeOK
      <3>3. CASE y # t /\ Succeeds(y)
        <4>1. y.id \in Nat /\ y.pv \in PVs
          BY <3>3, TaskFields DEF Succeeds
        <4>2. CASE y.pv = t.pv
          <5>1. y.id < t.id
            BY <1>1, <3>3, <4>2 DEF AloneIsOldest, Succeeds
          <5>2. t.id <= y.id
            BY <1>1, <2>2, <4>2 DEF Newest, Same
          <5>3. QED
            BY <3>1, <4>1, <5>1, <5>2
        <4>3. CASE y.pv # t.pv
          <5>1. Newest(y)
            BY <1>1, NewestBefore
          <5>2. backend'[y.pv] = backend[y.pv]
            BY <2>2, <4>1, <4>3 DEF Saves, TypeOK
          <5>3. QED
            BY <1>0, <1>1, <3>3, <5>1, <5>2
        <4>4. QED
          BY <4>2, <4>3
      <3>4. QED
        BY <2>2, <3>2, <3>3
    <2>3. QED
      BY <1>1, <2>1, <2>2, SucceedsBefore
  <1>2. QED
    BY <1>1 DEF Succeeds, SavedBeforeEvent, SuccessMeansSaved

(****************************************************************************)
(* The inductive invariant holds at first and is kept by every step.        *)
(****************************************************************************)
LEMMA WatcherInduction == Spec => []WatcherInv
  <1>1. Init => TasksAreOwn /\ SavedIsGenuine /\ UniqueIds /\ AloneIsOldest
                  /\ SavedBeforeEvent /\ SuccessMeansSaved
    BY DEF Init, TasksAreOwn, SavedIsGenuine, UniqueIds, AloneIsOldest,
       SavedBeforeEvent, SuccessMeansSaved
  <1>2. WatcherInv /\ [Next]_vars => WatcherInv'
    BY NextTypes, NextOwn, NextGenuine, NextUniqueIds, NextOldest, NextSaved DEF WatcherInv
  <1>3. TypeOK /\ TasksAreOwn /\ SavedIsGenuine /\ UniqueIds /\ AloneIsOldest
          /\ SavedBeforeEvent /\ SuccessMeansSaved <=> WatcherInv
    BY DEF WatcherInv
  <1>4. QED
    BY <1>1, <1>2, <1>3, WatcherTypes, PTL DEF Spec

(****************************************************************************)
(* Whatever the cloud holds of a PV was saved by updateVolume for one       *)
(* version of it, with its claim, of a PV of this provisioner.              *)
(****************************************************************************)
THEOREM WatcherSavesGenuine == Spec => []SavedIsGenuine
  <1>1. WatcherInv => SavedIsGenuine
    BY DEF WatcherInv
  <1>2. QED
    BY <1>1, WatcherInduction, PTL

(****************************************************************************)
(* The "Success" of the newest goroutine of a PV, started alone, means that *)
(* the cloud has the metadata of its version, whatever restarts, relists,   *)
(* failures and goroutines of other PVs come in between.                    *)
(****************************************************************************)
THEOREM WatcherSuccess == Spec => []SuccessMeansSaved
  <1>1. WatcherInv => SuccessMeansSaved
    BY DEF WatcherInv
  <1>2. QED
    BY <1>1, WatcherInduction, PTL

(****************************************************************************)
(* Every step of the watcher is one of AsyncSaver, or none: a handled       *)
(* update is a request, UpdateVolume carries it out, an error carries it    *)
(* out or gives it up, no session and a panic give it up, a crash loses all *)
(* that are pending.                                                        *)
(****************************************************************************)
LEMMA StepRefines ==
  ASSUME WatcherInv, [Next]_vars
  PROVE  [Saver!Next]_(Saver!vars)
  <1>0. TypeOK /\ TasksAreOwn /\ UniqueIds
    BY DEF WatcherInv
  <1>1. CASE UNCHANGED <<tasks, spawned, log, backend>>
    BY <1>1 DEF Saver!vars, Pending
  <1>2. ASSUME NEW p \in PVs, updateVolume(p) PROVE Saver!Notified
    <2>1. PICK new : /\ new.id = spawned + 1 /\ new.pc = "session"
                     /\ tasks' = tasks \cup {new}
                     /\ spawned' = spawned + 1 /\ backend' = backend
      BY <1>2, SpawnedTask
    <2>2. {Request(t) : t \in Pending}' = {Request(t) : t \in Pending} \cup {Request(new)}
      BY <2>1 DEF Pending
    <2>3. Request(new).id = spawned'
      BY <2>1 DEF Request
    <2>4. QED
      BY <2>1, <2>2, <2>3 DEF Saver!Notified
  <1>3. CASE Crash
    BY <1>3 DEF Crash, Die, Saver!Next, Saver!LoseAll, Pending
  <1>4. ASSUME NEW t \in tasks, NEW to, Moves(t, to), t.pc = "session", to = "update",
               UNCHANGED backend
        PROVE  UNCHANGED Saver!vars
    <2> DEFINE u == [t EXCEPT !.pc = to]
    <2>1. tasks' = (tasks \ {t}) \cup {u} /\ spawned' = spawned
      BY <1>4 DEF Moves, Goto
    <2>2. u.id = t.id /\ u.pv = t.pv /\ u.ver = t.ver /\ u.pc = "update"
      BY <1>0, <1>4, TaskFields
    <2>3. Request(u) = Request(t)
      BY <2>2 DEF Request
    <2> HIDE DEF u
    <2>4. {Request(x) : x \in Pending}' = {Request(x) : x \in Pending}
      BY <1>4, <2>1, <2>2, <2>3 DEF Pending
    <2>5. QED
      BY <1>4, <2>1, <2>4 DEF Saver!vars
  <1>5. ASSUME NEW t \in tasks, t.pc \in {"session", "update"},
               \A x \in tasks' : x \in tasks \ {t} \/ x.pc \notin {"session", "update"},
               tasks \ {t} \subseteq tasks', spawned' = spawned,
               UNCHANGED backend \/ (t.pc = "update" /\ Saves(t))
        PROVE  Saver!Next
    <2> DEFINE r == Request(t)
    <2>1. r \in {Request(x) : x \in Pending} /\ r.pv = t.pv /\ r.ver = t.ver
      BY <1>5 DEF Pending, Request
    <2>2. \A x \in tasks \ {t} : Request(x) # r
      <3>1. \A x \in tasks : Request(x).id = x.id
        BY DEF Request
      <3>2. QED
        BY <1>0, <3>1 DEF UniqueIds
    <2>3. {Request(x) : x \in Pending}' = {Request(x) : x \in Pending} \ {r}
      <3>1. Pending' = Pending \ {t}
        BY <1>5 DEF Pending
      <3>2. QED
        BY <1>5, <2>2, <3>1 DEF Pending
    <2>4. t.pv \in PVs
      BY <1>0, TaskFields
    <2> HIDE DEF r
    <2>5. CASE UNCHANGED backend
      <3>1. Saver!GiveUp(r)
        BY <1>5, <2>3, <2>5 DEF Saver!GiveUp
      <3>2. Saver!Settle(t.pv)
        BY <2>1, <3>1 DEF Saver!Settle
      <3>3. QED
        BY <2>4, <3>2 DEF Saver!Next
    <2>6. CASE t.pc = "update" /\ Saves(t)
      <3>1. Metadata(t.pv, t.ver) = getVolume(t.ver)
        BY <1>0, <2>6 DEF TasksAreOwn, Metadata
      <3>2. Saver!Save(r)
        BY <1>5, <2>1, <2>3, <2>6, <3>1 DEF Saver!Save, Saves
      <3>3. Saver!Settle(t.pv)
        BY <2>1, <3>2 DEF Saver!Settle
      <3>4. QED
        BY <2>4, <3>3 DEF Saver!Next
    <2>7. QED
      BY <1>5, <2>5, <2>6
  <1>6. ASSUME NEW t \in tasks, NEW to \in {"Normal", "Warning"}, Moves(t, to),
               t.pc = "update", UNCHANGED backend \/ Saves(t)
        PROVE  Saver!Next
    <2> DEFINE u == [t EXCEPT !.pc = to]
    <2>1. tasks' = (tasks \ {t}) \cup {u} /\ spawned' = spawned
      BY <1>6 DEF Moves, Goto
    <2>2. u.pc \notin {"session", "update"}
      BY <1>0, <1>6, TaskFields
    <2> HIDE DEF u
    <2>3. /\ \A x \in tasks' : x \in tasks \ {t} \/ x.pc \notin {"session", "update"}
          /\ tasks \ {t} \subseteq tasks'
      BY <2>1, <2>2
    <2>4. UNCHANGED backend \/ (t.pc = "update" /\ Saves(t))
      BY <1>6
    <2>5. t.pc \in {"session", "update"} /\ spawned' = spawned
      BY <1>6, <2>1
    <2>6. QED
      BY <1>5, <2>3, <2>4, <2>5, Zenon
  <1>7. ASSUME NEW t \in tasks, NEW how, Leaves(t, how), t.pc = "session"
        PROVE  Saver!Next
    <2>1. tasks' = tasks \ {t} /\ spawned' = spawned /\ UNCHANGED backend
      BY <1>7 DEF Leaves, End
    <2>2. /\ \A x \in tasks' : x \in tasks \ {t} \/ x.pc \notin {"session", "update"}
          /\ tasks \ {t} \subseteq tasks'
      BY <2>1
    <2>3. t.pc \in {"session", "update"} /\ spawned' = spawned /\ UNCHANGED backend
      BY <1>7, <2>1
    <2>4. QED
      BY <1>5, <2>2, <2>3, Zenon
  <1>8. ASSUME NEW t \in tasks, t.pc \in {"Normal", "Warning"}, Leaves(t, t.pc)
        PROVE  UNCHANGED Saver!vars
    <2>1. tasks' = tasks \ {t} /\ spawned' = spawned /\ UNCHANGED backend
      BY <1>8 DEF Leaves, End
    <2>2. Pending' = Pending
      BY <1>8, <2>1 DEF Pending
    <2>3. QED
      BY <2>1, <2>2 DEF Saver!vars
  <1>9. Saver!Notified => Saver!Next
    BY DEF Saver!Next
  <1>10. QED
    BY <1>1, <1>2, <1>3, <1>4, <1>6, <1>7, <1>8, <1>9, StepKinds

(****************************************************************************)
(* The watcher is an AsyncSaver of the volumes of its provisioner (its      *)
(* safety; that no request is put off for good is checked by TLC).          *)
(****************************************************************************)
THEOREM WatcherRefines == Spec => SavesLikeAsyncSaver
  <1>1. Init => Saver!Init
    BY DEF Init, Saver!Init, Pending
  <1>2. QED
    BY <1>1, StepRefines, WatcherInduction, PTL DEF Spec, SavesLikeAsyncSaver, Saver!Safety
=============================================================================
