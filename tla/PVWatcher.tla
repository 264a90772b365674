------------------------------ MODULE PVWatcher ------------------------------
(****************************************************************************)
(* pkg/watcher/pv_watcher.go: PVWatcher follows the PersistentVolumes of    *)
(* the cluster and saves the metadata of the volumes of its provisioner in  *)
(* the cloud (tags, capacity, status).                                      *)
(*                                                                          *)
(* External, modelled from how the watcher uses them: the API server (the   *)
(* life of a PV), the client-go informer that Start runs (a watch stream    *)
(* per PV, a cache, relists, handlers called one at a time) and the cloud   *)
(* behind GetProviderSession and UpdateVolume.  Every update that passes    *)
(* the filter is handled by a goroutine of its own.                         *)
(****************************************************************************)
EXTENDS Naturals, Sequences, FiniteSets

CONSTANTS
    PVs,              \* the PersistentVolumes; a name is used once
    Driver,           \* Driver[p]: p's Spec.CSI.Driver ("" without a CSI source)
    provisionerName,  \* the provisioner this watcher was made for
    Faults,           \* what may go wrong: a subset of FaultKinds
    MaxRev,           \* bound: MaxRev[p] says how often p is written
    MaxRelists,       \* bound: how often the watch is re-established
    MaxCrashes        \* bound: how often the driver restarts

FaultKinds == {"session", "update"}

ASSUME DriverAssumption == DOMAIN Driver = PVs
ASSUME FaultsAssumption == Faults \subseteq FaultKinds
ASSUME BoundsAssumption ==
    MaxRev \in [PVs -> Nat] /\ MaxRelists \in Nat /\ MaxCrashes \in Nat

VARIABLES
    pv,       \* pv[p]: the version of p the API server has
    watch,    \* watch[p]: the versions on their way to the handlers
    cache,    \* cache[p]: the version the informer handled last
    up,       \* is the driver's process running the informer?
    tasks,    \* the goroutines of updateVolume that are running
    spawned,  \* how many were started
    log,      \* the goroutines that ended, and how
    backend,  \* backend[p]: the metadata saved in the cloud, or NoVolume
    relists,
    crashes

vars == <<pv, watch, cache, up, tasks, spawned, log, backend, relists, crashes>>

Phases == {"Absent", "Pending", "Available", "Bound", "Released", "Failed", "Deleted"}

Revs == UNION {0 .. MaxRev[p] : p \in PVs}

(* rev stands for everything of a version that getVolume copies. *)
Versions == [phase : Phases, claim : BOOLEAN, rev : Revs]

Absent == [phase |-> "Absent", claim |-> FALSE, rev |-> 0]

Exists(v) == v.phase \notin {"Absent", "Deleted"}

(* The metadata of a volume: its status, and the version its tags, capacity *)
(* and IOPS were taken from (0: not set).                                   *)
Volumes == [status : {"created", "deleted"}, tags : Revs]

NoVolume == [status |-> "none", tags |-> 0]

Init ==
    /\ pv = [p \in PVs |-> Absent]
    /\ watch = [p \in PVs |-> <<>>]
    /\ cache = [p \in PVs |-> Absent]
    /\ up = FALSE
    /\ tasks = {}
    /\ spawned = 0
    /\ log = {}
    /\ backend = [p \in PVs |-> NoVolume]
    /\ relists = 0
    /\ crashes = 0

(****************************************************************************)
(* The API server.  A PV made by the provisioner has its ClaimRef from the  *)
(* start, a static one may, or gets it when it is bound, and is available   *)
(* as long as its claim is not there; an administrator may clear the        *)
(* ClaimRef of a released PV to have it bound again; its deletion may fail. *)
(****************************************************************************)
Lifecycle(v) ==
    CASE v.phase = "Absent"    -> {<<"Pending", TRUE>>, <<"Pending", FALSE>>}
      [] v.phase = "Pending"   -> {<<"Available", v.claim>>} \cup
                                   IF v.claim THEN {<<"Bound", TRUE>>} ELSE {}
      [] v.phase = "Available" -> {<<"Available", v.claim>>, <<"Bound", TRUE>>, <<"Deleted", v.claim>>}
      [] v.phase = "Bound"     -> {<<"Bound", TRUE>>, <<"Released", TRUE>>}
      [] v.phase = "Released"  -> {<<"Available", FALSE>>, <<"Failed", TRUE>>, <<"Deleted", TRUE>>}
      [] v.phase = "Failed"    -> {<<"Deleted", TRUE>>}
      [] v.phase = "Deleted"   -> {}

WritePV(p) ==
    /\ pv[p].rev < MaxRev[p]
    /\ \E next \in Lifecycle(pv[p]) :
         LET v == [phase |-> next[1], claim |-> next[2], rev |-> pv[p].rev + 1]
         IN  /\ pv' = [pv EXCEPT ![p] = v]
             /\ watch' = IF up THEN [watch EXCEPT ![p] = Append(@, v)] ELSE watch
    /\ UNCHANGED <<cache, up, tasks, spawned, log, backend, relists, crashes>>

(****************************************************************************)
(* Start: the informer lists the PVs and then watches them.  A broken watch *)
(* is replaced by a new list; what had not arrived is lost.                 *)
(****************************************************************************)
Listed(p) == IF Exists(pv[p]) \/ Exists(cache[p]) THEN <<pv[p]>> ELSE <<>>

Start ==
    /\ ~up
    /\ up' = TRUE
    /\ watch' = [p \in PVs |-> Listed(p)]
    /\ UNCHANGED <<pv, cache, tasks, spawned, log, backend, relists, crashes>>

Relist ==
    /\ up
    /\ relists < MaxRelists
    /\ relists' = relists + 1
    /\ \E arrived \in BOOLEAN :
         watch' = [p \in PVs |-> IF arrived THEN watch[p] \o Listed(p) ELSE Listed(p)]
    /\ UNCHANGED <<pv, cache, up, tasks, spawned, log, backend, crashes>>

(* The driver's pod restarts: the cache and the goroutines are lost. *)
Ended(t, outcome) ==
    [id |-> t.id, pv |-> t.pv, ver |-> t.ver, alone |-> t.alone, outcome |-> outcome]

Die ==
    /\ up' = FALSE
    /\ watch' = [p \in PVs |-> <<>>]
    /\ cache' = [p \in PVs |-> Absent]
    /\ tasks' = {}
    /\ log' = log \cup {Ended(t, "killed") : t \in tasks}
    /\ UNCHANGED <<pv, spawned, backend, relists>>

Crash ==
    /\ up
    /\ crashes < MaxCrashes
    /\ crashes' = crashes + 1
    /\ Die

(****************************************************************************)
(* The handlers.  Start registers only UpdateFunc, behind the filter: the   *)
(* versions of the first list, additions and deletions go by unhandled.     *)
(****************************************************************************)
(* Mutant: the provisioner is not compared. *)
filterAny(p) == Driver[p] # ""

filter(p) == Driver[p] = provisionerName

Arrives(p) ==
    /\ up
    /\ watch[p] # <<>>
    /\ watch' = [watch EXCEPT ![p] = Tail(@)]
    /\ cache' = [cache EXCEPT ![p] = Head(watch[p])]

IsUpdate(p) == Exists(cache[p]) /\ Exists(Head(watch[p])) /\ filter(p)

Ignored(p) ==
    /\ Arrives(p)
    /\ ~IsUpdate(p)
    /\ UNCHANGED <<pv, up, tasks, spawned, log, backend, relists, crashes>>

(* updateVolume starts a goroutine and returns.  alone: no goroutine of an  *)
(* earlier version of the PV is running.                                    *)
updateVolume(p) ==
    /\ Arrives(p)
    /\ IsUpdate(p)
    /\ spawned' = spawned + 1
    /\ tasks' = tasks \cup
         {[id |-> spawned + 1, pv |-> p, ver |-> Head(watch[p]), pc |-> "session",
           alone |-> \A t \in tasks : t.pv # p]}
    /\ UNCHANGED <<pv, up, log, backend, relists, crashes>>

(****************************************************************************)
(* The goroutine of updateVolume                                            *)
(****************************************************************************)
Goto(t, to) ==
    /\ tasks' = (tasks \ {t}) \cup {[t EXCEPT !.pc = to]}
    /\ UNCHANGED log

End(t, outcome) ==
    /\ tasks' = tasks \ {t}
    /\ log' = log \cup {Ended(t, outcome)}

(* getTags dereferences pv.Spec.ClaimRef, whatever the phase. *)
getTagsPanics(v) == ~v.claim

(* Mutant: the status of a volume in use is not set. *)
getVolumeNoStatus(v) ==
    IF v.phase = "Released"
    THEN [status |-> "deleted", tags |-> 0]
    ELSE [status |-> "none", tags |-> v.rev]

getVolume(v) ==
    IF v.phase = "Released"
    THEN [status |-> "deleted", tags |-> 0]
    ELSE [status |-> "created", tags |-> v.rev]

(* No session: nothing is saved, and nothing is said. *)
NoSession(t) ==
    /\ t.pc = "session"
    /\ "session" \in Faults
    /\ End(t, "nosession")
    /\ UNCHANGED <<pv, watch, cache, up, spawned, backend, relists, crashes>>

GetProviderSession(t) ==
    /\ t.pc = "session"
    /\ ~getTagsPanics(t.ver)
    /\ Goto(t, "update")
    /\ UNCHANGED <<pv, watch, cache, up, spawned, backend, relists, crashes>>

(* Mutant: without the deferred recover the panic ends the process. *)
PanicUnrecovered(t) ==
    /\ t.pc = "session"
    /\ getTagsPanics(t.ver)
    /\ Die
    /\ UNCHANGED crashes

(* The panic is recovered at the top of the goroutine. *)
Panic(t) ==
    /\ t.pc = "session"
    /\ getTagsPanics(t.ver)
    /\ End(t, "panicked")
    /\ UNCHANGED <<pv, watch, cache, up, spawned, backend, relists, crashes>>

UpdateVolume(t) ==
    /\ t.pc = "update"
    /\ Goto(t, "Normal")
    /\ backend' = [backend EXCEPT ![t.pv] = getVolume(t.ver)]
    /\ UNCHANGED <<pv, watch, cache, up, spawned, relists, crashes>>

(* Mutant: the error of UpdateVolume is not looked at. *)
UpdateErrorIgnored(t) ==
    /\ t.pc = "update"
    /\ "update" \in Faults
    /\ Goto(t, "Normal")
    /\ UNCHANGED <<pv, watch, cache, up, spawned, backend, relists, crashes>>

(* Mutant: a save that failed is tried again, though it may have been made. *)
UpdateRetried(t) ==
    /\ t.pc = "update"
    /\ "update" \in Faults
    /\ Goto(t, "update")
    /\ backend' \in {backend, [backend EXCEPT ![t.pv] = getVolume(t.ver)]}
    /\ UNCHANGED <<pv, watch, cache, up, spawned, relists, crashes>>

(* An error, whether or not the cloud saved the metadata before it. *)
UpdateVolumeFails(t) ==
    /\ t.pc = "update"
    /\ "update" \in Faults
    /\ Goto(t, "Warning")
    /\ backend' \in {backend, [backend EXCEPT ![t.pv] = getVolume(t.ver)]}
    /\ UNCHANGED <<pv, watch, cache, up, spawned, relists, crashes>>

(* recorder.Event *)
Event(t) ==
    /\ t.pc \in {"Normal", "Warning"}
    /\ End(t, t.pc)
    /\ UNCHANGED <<pv, watch, cache, up, spawned, backend, relists, crashes>>

TaskStep(t) ==
    \/ NoSession(t) \/ GetProviderSession(t) \/ Panic(t)
    \/ UpdateVolume(t) \/ UpdateVolumeFails(t) \/ Event(t)

Next ==
    \/ \E p \in PVs : WritePV(p) \/ Ignored(p) \/ updateVolume(p)
    \/ Start \/ Relist \/ Crash
    \/ \E t \in tasks : TaskStep(t)

Spec == Init /\ [][Next]_vars

(****************************************************************************)
(* A driver that is down is restarted, the informer passes on what arrived  *)
(* and the scheduler runs every goroutine; the API server need not write,   *)
(* the watch need not break and the driver need not crash.                  *)
(****************************************************************************)
Fairness ==
    /\ WF_vars(Start)
    /\ \A p \in PVs : /\ WF_vars(Ignored(p) \/ updateVolume(p))
                       /\ WF_vars(\E t \in tasks : t.pv = p /\ TaskStep(t))

FairSpec == Spec /\ Fairness

-----------------------------------------------------------------------------
(* The type of every variable. *)
Tasks == [id : 1 .. spawned, pv : PVs, ver : Versions, alone : BOOLEAN,
          pc : {"session", "update", "Normal", "Warning"}]

Ends == [id : 1 .. spawned, pv : PVs, ver : Versions, alone : BOOLEAN,
         outcome : {"nosession", "panicked", "Normal", "Warning", "killed"}]

TypeOK ==
    /\ pv \in [PVs -> Versions]
    /\ watch \in [PVs -> Seq(Versions)]
    /\ cache \in [PVs -> Versions]
    /\ up \in BOOLEAN
    /\ spawned \in Nat
    /\ tasks \subseteq Tasks
    /\ log \subseteq Ends
    /\ backend \in [PVs -> Volumes \cup {NoVolume}]
    /\ relists \in 0 .. MaxRelists
    /\ crashes \in 0 .. MaxCrashes

Newest(e) == \A x \in tasks \cup log : x.pv = e.pv => x.id <= e.id

Idle(p) == \A t \in tasks : t.pv # p

(****************************************************************************)
(* The cloud holds only what updateVolume may save: metadata of a PV of     *)
(* this provisioner, all from one version of it the watcher was told of,    *)
(* and never from a version without a claim (getTags panics on it).         *)
(****************************************************************************)
SavedIsGenuine == \A p \in PVs : backend[p] # NoVolume =>
    /\ Driver[p] = provisionerName
    /\ \E x \in tasks \cup log :
          x.pv = p /\ x.ver.claim /\ backend[p] = getVolume(x.ver)

(****************************************************************************)
(* A "Success" event is to be believed if its goroutine is the PV's newest  *)
(* and was started when no other one of that PV was running: the cloud then *)
(* has the metadata of that version.  Restarts, relists that replay a       *)
(* version, failed saves and panics do not spoil it.                        *)
(****************************************************************************)
SuccessMeansSaved == \A e \in log :
    e.outcome = "Normal" /\ e.alone /\ Newest(e)
        => backend[e.pv] = getVolume(e.ver)

(****************************************************************************)
(* The same without the proviso: the event updateVolume records last for a  *)
(* PV, "Success", with all its goroutines ended, says that the metadata of  *)
(* that version is what the cloud has ("Volume Metadata saved               *)
(* successfully").  The goroutine of an older version may save after it.    *)
(****************************************************************************)
SuccessMeansCurrent == \A e \in log :
    e.outcome = "Normal" /\ Newest(e) /\ Idle(e.pv)
        => backend[e.pv] = getVolume(e.ver)

(****************************************************************************)
(* Refinement: a request of AsyncSaver is a goroutine of updateVolume that  *)
(* has not called UpdateVolume to its end.  Only one of a PV of the         *)
(* provisioner, for a version with a claim, saves anything.                 *)
(****************************************************************************)
Metadata(p, v) == IF filter(p) /\ v.claim THEN getVolume(v) ELSE NoVolume

Request(t) == [id |-> t.id, pv |-> t.pv, ver |-> t.ver]

Pending == {t \in tasks : t.pc \in {"session", "update"}}

Saver == INSTANCE AsyncSaver WITH
    Volumes  <- PVs,
    Nothing  <- NoVolume,
    count    <- spawned,
    pending  <- {Request(t) : t \in Pending},
    saved    <- backend

(****************************************************************************)
(* The watcher is an AsyncSaver of the volumes of its provisioner: one save *)
(* at most for each update it was told of, in particular none for the       *)
(* updates of another provisioner's PV, of a version without a claim or of  *)
(* before a restart.                                                        *)
(****************************************************************************)
SavesLikeAsyncSaver == Saver!Safety

(****************************************************************************)
(* ... and none is put off for good.                                        *)
(****************************************************************************)
ImplementsAsyncSaver == Saver!Spec

(****************************************************************************)
(* An update of a known PV is handled, or a newer one instead of it, in     *)
(* whatever way the goroutines of the same or of other PVs end; only the    *)
(* PV's deletion, or a crash before it is handled, excuses it: a restarted  *)
(* driver owes the updates that follow.  In particular a panic does not     *)
(* stop the watcher ("panic-recovery function that avoid watcher thread to  *)
(* stop").                                                                  *)
(****************************************************************************)
Own == {p \in PVs : Driver[p] = provisionerName}

UpdateIsHandled == \A p \in Own : \A r \in 2 .. MaxRev[p] :
    (up /\ Exists(cache[p]) /\ pv[p].rev = r /\ cache[p].rev < r)
      ~> \/ \E e \in log : e.pv = p /\ e.ver.rev >= r /\ e.outcome # "killed"
         \/ ~Exists(pv[p])
         \/ ~up /\ crashes > 0

(****************************************************************************)
(* "PVWatcher to watch  pv creation and add taggs": a PV of the provisioner *)
(* that was created and bound has its tags saved eventually.  Start         *)
(* registers no AddFunc: a PV the informer first hears of when it is bound  *)
(* already is not tagged.                                                   *)
(****************************************************************************)
BoundGetsTagged == \A p \in PVs :
    (pv[p].phase = "Bound" /\ Driver[p] = provisionerName)
      ~> backend[p] # NoVolume
=============================================================================
