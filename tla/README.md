# Verification of ibm-csi-common

`ibm-csi-common` is the Go library shared by IBM's CSI drivers (VPC block, VPC
file). This directory holds TLA+ models of its parts, the TLC configurations
that check them and TLAPS proofs about them. `PROJECT.json` lists the runs, the
mutants each property is tested against, and for each definition the source
lines it models.

## 1. Inventory

Everything below is under `src/pkg/` unless it says otherwise. The library has
no main program: each part is called by a driver, whose gRPC server runs one
goroutine per request.

| Part | State | Operations | Interacts with | What is hard |
|---|---|---|---|---|
| `utils/lock_store.go` LockStore | a map name -> mutex per store; one package mutex `lockstoremux`; flag `lock_enabled` | `Lock`, `Unlock`, `getLock` | every request handler of a driver | lazy creation of the map and of mutexes by concurrent goroutines; two lock levels; starvation |
| `watcher/pv_watcher.go` PVWatcher | the informer's cache; the goroutines in flight; `VolumeTypeMap` | `New`, `Start`, `filter`, `updateVolume`, `getTags`, `getVolume` | API server (informer), cloud (`UpdateVolume`), event recorder | one goroutine per event, so versions of one PV race; failures without retry; panics; restarts and relists |
| `mountmanager/mount_linux.go` NodeMounter | none of its own; the node's file system, mounts and block devices | `MakeDir`, `MakeFile`, `PathExists`, `Resize`, `MountEITBasedFileShare` | kernel, `mount-utils`, the mount-helper container (HTTP over a Unix socket) | check-then-act on paths; a client time-out racing the mount; a device that grows while the file system is resized |
| `utils/grpc-client/` GrpcSes | the connection kept in `conn` | `Connect`, `Close`, `GrpcDial`, `NewGrpcSession` | provider services over gRPC | which connections, and so which calls, `Close` reaches |
| `messages/` | the table `MessagesEn`, assigned once by the driver | `GetCSIError`, `GetCSIBackendError`, `GetCSIMessage`, `Info` | every handler | a code without a message becomes status OK, that is, no error |
| `metadata/metadata.go` | zone, region, worker and account ID read once | `NewNodeMetadata`, getters | API server (node labels), the node-label-updater init container | labels that are not there yet; two ways to find the worker ID |
| `metrics/metrics.go` | five Prometheus collectors | `RegisterAll`, `Update*`, `Register*` | Prometheus registry | registration order, second registration |
| `utils/utils.go`, `constants.go` | none | `RoundUpBytes`, `BytesToGiB`, `roundUpSize`, `ListContainsSubstr` | volume requests, PVWatcher | 64-bit overflow at the upper end |
| `utils/logger.go` | none | `GetContextLogger` | all | nothing: logging |
| `ibmcloudprovider/` | none | interface of the cloud provider, a test double | PVWatcher | nothing of its own: modelled as PVWatcher's environment |
| counterfeiter doubles: `metadata/fake_node_metadata.go`, `metadata/fake/fake_node_info.go` | stubs, planned answers, two records of the calls, one mutex per method and one for `invocations` | the methods, their setters and readers, `Invocations` | unit tests of the drivers | two records under two mutexes; lock order between recording and `Invocations` |
| other doubles: `metadata/fakemetadata.go`, `mountmanager/fake-safe-mounter.go`, `grpc-client/fake-grpc`, `ibmcloudprovider/fake_volume_provider.go` | none | fixed answers | unit tests | nothing |
| `provider/provider_grpc.pb.go` | none of its own; calls in flight | client stub, handlers, service description of `APIKeyProvider` | GrpcSes, the sidecar that serves keys | a connection closed or forgotten under a call |
| `provider/provider.pb.go` | - | encoding of two messages | gRPC | generated |
| `tests/` | Kubernetes objects of a test cluster | the end-to-end harness | a real cluster | waits with time-outs |

What makes each part correct:

- **LockStore**: two goroutines never hold one name of one store, however the
  map and the mutexes come into being; no fatal error of the runtime; `Unlock`
  never waits for a lock; nobody starves; memory grows with the names only.
- **PVWatcher**: what is saved is genuine and of this provisioner's PVs; a
  "Success" event can be believed; no failure or panic stops the watcher.
- **NodeMounter**: what the callers conclude from a return value is true, of
  `MakeDir`, `MakeFile`, `Resize` and `MountEITBasedFileShare`, although the
  file system, the device and the container change under them.
- **messages**: no failure is turned into success; an error speaks of its own
  request.
- **metadata**: however the node comes to be set up, the driver gets its zone,
  region and worker ID from it in the end.
- **utils**: rounding is exact wherever it can be, an overflow orders nothing,
  and the file system ends up with what was granted.
- **GrpcSes**: `Close` reaches the connection the session dialled and no other,
  and ends the calls on it.
- **API key stubs**: the key returned is of the kind asked for, and a call that
  lost its connection returns none.
- **counterfeiter doubles**: both records tell one history, every call has a
  number of its own, and calls return.

## 2. Plan

Modules, in order of what a failure of the part would cost:

1. `LockStore`, with `NamedLocks` as the abstract specification it implements.
2. `PVWatcher`, with `AsyncSaver` as the abstract specification it implements.
3. `MountHelper`, `ResizeFs`, `NodePaths`: the three stateful parts of
   `NodeMounter`.
4. `VolumeSizes`, and `VolumeExpansion`, which composes it with `ResizeFs`;
   `Messages` with `MessageTable`; `NodeMetadata`.
5. `GrpcSession`, and `KeyProvider`, which composes it with the client stub and
   the handlers of the API key service.
6. `FakeRecorder`: the recording doubles and the order of their mutexes.

All of these are done. Every safety invariant and every action property of the
runs that pass is also a theorem, and so are the safety parts of the two
refinements (section 5). Left:

7. Lemmas towards the liveness properties, as far as they are safety: what a
   goroutine that waits is waiting for, in `LockStore` and in `FakeRecorder`.
8. A composition: `MountHelper` under `LockStore` (drivers hold the lock of a
   volume around a call). The drivers' handlers, which do so, are not in this
   repository, so it would be a model of their discipline.

## 3. The models

Common to all: a step is what other goroutines cannot observe in parts. Local
computation is merged into the step that follows; each access to shared state
is a step of its own. `pc[g]` is where goroutine `g` is.

**`LockStore`** (`utils/lock_store.go`). `made`, `store`, `heap`, `locked` are
the maps that exist, their entries, the mutexes allocated and those locked;
`lockstoremux` is the package mutex; `LockEnabled` the flag, fixed at start.
`EnterGetLock`, `CheckAndInitLockStore`, `Lookup`, `Create`, `Fetch` are the
statements of `getLock`, `MutexLock` and `MutexUnlock` the operation on what it
returned. `held` records what each caller took. Assumed of callers: they unlock
what they hold and do not lock what they hold. `NamedLocks` is what callers
may rely on: per-name locks that are requested, granted to one at a time, and
released, with every request served if the name keeps being released.

**`PVWatcher`** (`watcher/pv_watcher.go`). External: the life of a PV at the
API server (`WritePV`), the informer's stream, cache, list and relist
(`Start`, `Relist`, `Arrives`), the restart of the pod (`Crash`). The watcher:
`filter`, the choice of handlers (`Ignored` for what has no handler,
`updateVolume` for updates), and the goroutine it starts, split at the calls of
the cloud: `GetProviderSession` or `NoSession`, `Panic` (`getTags` on a PV
without a claim, recovered), `UpdateVolume` or `UpdateVolumeFails`, `Event`. A
version of a PV is its phase, whether it has a claim, and a revision that
stands for everything `getVolume` copies. A PV may be available with a claim
whose object is not there yet, and its deletion may fail; `getVolume` treats
these as any other that is not released. `log` remembers how goroutines ended.
Assumptions: a PV's name is used once; a save has taken place when
`UpdateVolume` returns, or never will; in particular a save in flight when the
pod dies is over when the new one starts. `AsyncSaver` is what the watcher
promises and no more: each notification makes one request, which is carried out
at most once or given up, in any order, and dies with the process. That it
promises no order is finding 1. The mapping takes the goroutines that have not
called `UpdateVolume` to their end as the requests; those without a claim or of
another provisioner's PV may only be given up.

**`MountHelper`** (`mount_linux.go`, 37-58 and 111-160). Client: `Post`,
`Refused`, `Timeout`, `Receive`, whose `Verdict` reads and decodes the body
before it looks at the status. Container (external): `Work`, `Answer`,
`ContainerDies`. It answers 200 only if it mounted.

**`ResizeFs`** (`mount_linux.go`, 95-107). `ReadDevice` and `NeedResize` are
the two reads inside mount-utils' `NeedResize`, with its tolerance of one
block; `ResizeGrows` and `Fails` its `Resize`; `Expand` the controller, which
here grows the device at will.

**`NodePaths`** (`mount_linux.go`, 60-83). A path is the sequence of its names,
and what is at it a directory, a file, nothing, or a mount whose server is gone
("stale"), which is there and cannot be looked at. `MakeFile` is one system call,
which makes no parents. `MakeDir` is `os.MkdirAll` and `MakeDirReturn`, which
drops the errors `os.IsExist` knows. `MkdirAll` is modelled with its recursion:
`depth` is how much of the path the innermost call is for, `MkdirAllStat` goes
to the parent of what is not there, `MkdirAllMkdir` makes the path when the
parent is done, `MkdirAllLstat` looks again after any failure of Mkdir, and an
error is returned through all the calls. `OtherError` is every failure that does
not come from what is at the path and its parents: no permission, a full disk.
External: `Remove`, `GoStale`, `Unmount`. `seen` records what the path and its
parents have been during a call.

**`VolumeSizes`** (`utils/utils.go`, 58-72). `Wrap` is two's complement,
`Quo` Go's division; the width (`Half`) and the unit (`GiB`) are constants.
Operators only. `BytesToGiB` ends in a conversion to `int` (`utils.go:66`), which
keeps the value where `int` has 64 bits, as on the platforms the drivers are built
for; with an `int` of 32 bits it would not.

**`VolumeExpansion`** composes the two. The driver's expansion (external) rounds
and orders a request of any int64 value with the functions of `VolumeSizes`,
leaves a volume alone that is large enough, and the device of `ResizeFs` grows
to what was ordered; `Resize` is `ResizeFs`'s. `wanted` and `promised` remember
what was granted, last and before each call.

**`GrpcSession`** (`grpc-client/grpc_client.go`). `conn[s]` is the field; a
connection is named by who dialled it and when. `Connect` keeps what `grpc.Dial`
returned, nil too, and forgets what was kept; `GrpcDial(s, cc)` dials through
`cc`, which keeps the connection; `Close` closes what is kept.

**`KeyProvider`** (`provider/provider_grpc.pb.go`) extends `GrpcSession` by
callers with client stubs on its connections. The method of the stub calls
`Invoke` with a new key for the answer (`out`) and a path; the server runs the
handler that its service description has for the path (`Handler`,
`HandlerFails`); gRPC fills in `out` and returns an error or none (`Answered`,
`Refused`, `Broken` for a connection that was closed, `Lost` for one that was
lost without a Close); and the stub returns `out` or nil (`StubReturn`,
`Return`). `Path` and `serviceDesc` are the two tables that must agree. The
answer may be filled in when `Invoke` fails all the same: what keeps it from the
caller is the stub's look at the error. `cut` records that a call lost its
connection before `Invoke` returned. The server may fail (an unimplemented method
always does) or hang. A key is known by the method that made it.

**`FakeRecorder`** (the counterfeiter doubles). A call of a method locks the
method's mutex (`MethodLock`), reads its number (`GetNumber`), appends its
arguments and reads the stub (`Get`), takes `invocationsMutex` to record itself
again (`RecordLock`, `recordInvocation`), unlocks and answers (`MethodUnlock`),
or runs the stub, which asks for the call count (`CallCount`). `Set` is the
setters, `InvocationsRLock` and `Invocations` the reader of everything.
`sync.RWMutex` is modelled with its two-phase `Lock`, because a waiting writer
keeps new readers out. An argument is its caller; the answer is reduced to the
number of the call and whether a stub runs.

**`MessageTable`, `Messages`** (`messages/`). The table as sets of reason codes
per gRPC code, in the order of the file; `InitMessages` fills a function from it
whose default is Go's zero `Message`. The model starts when the driver has
assigned the table; before that `MessagesEn` is nil (`messages.go:67`) and every
error would be no error. A handler looks up a copy, fills it in and
returns it (`GetCSIMessage`, `Fill`, `Return`). Wording is left out; the text of
an error is reduced to what `GetCSIBackendError` looks for (`RC:5xx`).

**`NodeMetadata`** (`metadata/metadata.go`). The node's labels and its
ProviderID, split at "/", come in any order (external); `NewNodeMetadata` is
tried until it succeeds, each failed try being a restart of the driver. Nothing
is assumed of the ProviderID: the code counts its parts and looks whether the
last is empty (`metadata.go:133`), so a malformed one of seven parts is taken as
it is. Nor is the init container assumed to have labelled a satellite host before
the driver reads the label, which is not checked (`metadata.go:97`): in the model
such a driver runs without a worker ID. That it does not in a cluster is the
order of the pod's containers, of which this repository says nothing, so no
property claims it.

## 4. Runs

Every property has a mutant: a definition of the model changed the way a bug in
that code would change it, which makes TLC report that property. Mutants stand
in the modules, before what they mutate.

| Run | Instance | What it shows |
|---|---|---|
| `lockstore` | 3 goroutines, 2 stores, 1 name each, 2 locks held at once, flag on and off; 21,469 states | safety, stability and the refinement of `NamedLocks` with its fairness; `UnlockReturns` even when callers deadlock on each other's names |
| `pvwatcher` | an own PV with 3 writes, another driver's with 1, 1 relist, 1 crash, all faults; 441,987 states | `SavedIsGenuine`; `SuccessMeansSaved`: a Success event of the newest goroutine is to be believed if no other goroutine of the PV ran when it began; `UpdateIsHandled`; the refinement of `AsyncSaver` with its fairness |
| `pvwatcher_reorder` | 1 PV, 4 writes, no faults | violated: see finding 1 |
| `pvwatcher_untagged` | 1 PV, 3 writes, no faults, fair | violated: see finding 2 |
| `nodepaths_calls` | 2 goroutines, a path and its parent, both possible mount points, any initial file system; 1,193,420 states | `FileWasMade`, `DirWasMade`: what nil says, whatever is made, removed, mounted and unmounted at the path and above it |
| `nodepaths_race` | the same without stale mounts | violated: see finding 3 |
| `mount_helper` | 3 calls, 2 targets; 94k states | return values, overlaps, and that each call returns |
| `expansion` | 40 integers (-20 to 19) for int64, GiB of 4, volumes of up to 19, requests of every value, 2 calls of `Resize`; 168,193 states | `ExpansionIsExact`, `RequestHonoured`, `ResizeCovers`, `NeverShrinks` |
| `messages` | every reason code in one handler, two codes in another; 43,169 states | `NoErrorSwallowed`, `ErrorIsOwn` |
| `key_provider` | 2 sessions that dial twice, 2 callers, 2 methods; 505,708 states | `CloseEndsSingleUse`, `CloseKeepsOthers`; `KeyIsOwn`, `CutCallHasNoKey`; `CloseEndsCalls` even if the server hangs |
| `fake_recorder` | `FakeNodeInfo`, 3 goroutines, 3 calls of its method and any number of the rest; 63,584 states | `RecordsAgree`, `NumberIsOwn`; `CallsReturn`: the embrace of `Invocations` and a call is the only way to wait for good |
| `node_metadata` | ProviderIDs: 2 good, 6 malformed, one of seven parts; both kinds of node; 130 states | `EventuallyIdentified` |

Why the bounds are enough. The races are between two goroutines of one key, and
a third is what could overtake; two keys are needed for a cycle of waits. A PV
needs three writes to have an update that is handled after an addition and a
second one to race it, which may be the release that saves differently or a
version without a claim, on which `getTags` panics; the single version of the
other driver's PV comes again as an update with the relist. A failed deletion
would need a fourth write, and is handled like a change of a bound PV. One relist
and one crash put each of them between any two steps. `UpdateIsHandled` goes on
after the crash: only an update that the crash itself overtook is excused, and
the restarted driver owes those that follow. A path and its parent are what one
call of `MkdirAll` inside another needs; longer paths repeat it, and are covered
by the proofs. Two resizes and volumes of up to
four units leave room for a device that grows by more than the tolerated block
between the reads, and twice. The largest volume is the largest integer, so every
request that can be rounded without an overflow is in reach; those that order
nothing are the negative ones, the ones whose rounding overflows and the ones the
volume has already. The proofs cover the rest. Two dials of each of two sessions lose a connection, and have one
session dial for the other and one fail. Of the doubles the smaller one is run:
every method of `FakeNodeMetadata` has the code of `NewNodeMetadata`, methods
share nothing but `invocations`, and three goroutines are a call, a reader and
one that waits behind both. The four methods together have over a million states
with two goroutines and one call each, too many for the liveness check.

Deadlock checking is off where the system may stop: callers of `LockStore` may
deadlock by their own lock order, those of `FakeRecorder` by the embrace, and
`PVWatcher`, `MountHelper` and `NodeMetadata` run out of bounded work.

Fairness.
- `LockStore`: weak for runnable goroutines (the Go scheduler), strong for
  acquiring a mutex (`sync.Mutex` hands itself to a waiter after 1 ms), weak for
  a holder's `Unlock` (callers defer it).
- `PVWatcher`: weak for the start of the pod (Kubernetes restarts it), for the
  informer's delivery and for goroutines. None for writes, relists and crashes.
  `AsyncSaver` has weak fairness for the requests of each volume together: one
  of them is settled sooner or later, as one goroutine of each PV is.
- `KeyProvider`: weak for reporting to a caller that an answer arrived or that
  its connection is closed, and for the return of the stub; the server owes
  nothing.
- `FakeRecorder`: as `LockStore`, weak for runnable goroutines and strong for
  acquiring a mutex.
- `MountHelper`: only the client's timer; the container may hang for ever.
- `NodeMetadata`: weak for the labels of zone and region and for the restarted
  driver, strong for the ProviderID becoming well formed (the cloud controller's
  job). None for the init container.

### Findings

1. `pvwatcher_reorder` (code bug, `pv_watcher.go:153`). One goroutine per event
   means that two versions of one PV are saved in either order. The older save
   may come last, after the newer version's Success event, and stays.
2. `pvwatcher_untagged` (divergence, `pv_watcher.go:138`). The watcher is "to
   watch pv creation and add taggs" but registers only `UpdateFunc`: a PV first
   seen when it is bound, such as one bound while the driver was down, is never
   tagged until something else about it changes.
3. `nodepaths_race` (code bug, `mount_linux.go:78`). `MkdirAll` already returns
   nil for an existing directory; the error `MakeDir` drops is the one that says
   the path is something else. With a file created between Stat and Mkdir,
   `MakeDir` returns nil and there never was a directory. A file that appears in
   place of a missing parent, between the Stat and the Mkdir of the inner call,
   does the same: its EEXIST is dropped with nothing at the path at all. So does
   a stale mount, at which Stat fails and Mkdir finds something.
   `DirWasMade` says that these disturbances, and a removal between Mkdir and
   Lstat, are the only causes.

Observations, from code that contradicts no line of the repository:
`ProfileNotAllowlisted` carries the code of `FailedPrecondition`
(`messages_en.go:147`; the model keeps it in `CodeOf`). `roundUpSize` does not
check the overflow its comment mentions (`utils.go:69`); `ExpansionIsExact` says
that then nothing is ordered. A second `Connect` of a `GrpcSes` loses the first
connection (`grpc_client.go:52`), hence the proviso of `CloseEndsSingleUse` and
`CloseEndsCalls`. `Invocations` of a double and a call of it may block each other
for good (`fake_node_metadata.go:266`), hence that of `CallsReturn`. The metrics
never get the namespace `RegisterAll` sets (`metrics.go:77`), and `errors_total`
has a label of unbounded range (`metrics.go:111`).

## 5. Proofs

All are checked by TLAPS (SMT, Zenon, and LS4 for the temporal steps) and hold
for every value of the constants allowed by the named assumptions. None of the
sets of goroutines, names, PVs, sessions, callers or handlers need be finite,
and the bounds (`MaxRev`, `MaxCalls`, `MaxConnects` and the like) are any
numbers. Each `...Proofs` module extends the module it is about; its inductive
invariants are defined there unless a run checks them.

**`LockStoreProofs`** (assumptions: `Nobody` is not a goroutine, and for the
refinement not a key or a call either). `MutualExclusion` alone is not
inductive: that a goroutine may take the mutex it fetched excludes others only
if that mutex is still the one in the map. `IndInv` adds: lockstoremux belongs to
whoever is inside `getLock` (`MuxOwner`), `getLock` made the map before it uses
it and creates only what is missing (`LookupsInProgress`), a goroutine that left
`getLock` still has the map's mutex, no two keys share a mutex
(`DistinctMutexes`), and the mutex of a key is locked exactly while somebody
holds the key (`LockedWhileHeld`). `StoreConsistent` proves it inductive, action
by action; `LockStoreExcludes`, `LockStoreNeverFatal` and `LockStoreTypes`
follow from it, and `LockStoreStable` is the action property `MutexesAreStable`.
`LockStoreFrugal` is `OneMutexPerName`: only `Create` allocates, for a key that
`IndInv` says has no mutex, so the finite set of keys in the map grows by one.
`LockStoreRefines` is the safety of `NamedLocks`: a call is a request from
`Lock` until `MutexLock`, and `IdleHasNoCall` says that there is none otherwise.

**`PVWatcherProofs`** (assumption: the bounds are numbers). `WatcherTypes` is the
type invariant. `WatcherInv` adds what the other properties need: `TasksAreOwn` (a goroutine is for a PV of the provisioner, and has a claim once
it is past `getTags`), `UniqueIds`, `AloneIsOldest` (a goroutine that was started
alone has a smaller number than any other of its PV that runs with it or after
it) and `SavedBeforeEvent` (the property of the log, for the goroutines about to
record Success). `WatcherSavesGenuine` is `SavedIsGenuine`: whatever a step does,
a goroutine stays in `tasks` or its end is in `log` (`HistoryKept`).
`WatcherSuccess` is `SuccessMeansSaved`: suppose another goroutine of the PV
saves after a success that was alone. It is younger, by `AloneIsOldest`, and so
the success is not the newest and claims nothing. `WatcherRefines` is the safety
of `AsyncSaver`, step by step; that a save takes away its own request and no
other needs `UniqueIds`.

**`MountHelperProofs`** (no assumption). `MountIsTruthful`: `ReturnIsTruthful`
needs that an answer agrees with what the container did and that it knows of no
call before it is posted (`AnswersAgree`); `MountAgrees` is the whole.
`MountsOverlapAfterTimeout` is `OverlapOnlyAfterTimeout`, from: of the calls for
one target one at most waits (`OneCallPerTarget`), and the container works only
on what somebody waits for or gave up at the time-out (`WorkIsAwaited`).

**`VolumeExpansionProofs`** (assumptions: `Half` and `GiB` are positive,
`GiB <= MaxSize < Half`). It has three parts. For `VolumeSizes`, lemmas on the
wrapping arithmetic: the division theorem, `Wrap` being the identity in range,
`RoundUpExact` (a size that fits is rounded to the least multiple that covers
it) and `RoundUpOverflow` (any other is rounded to nothing positive). With
`Half = 2^63` and `GiB = 2^30` they are about the code. For `ResizeFs`,
`ResizeIsComplete`: `ResizeCovers` needs that what a call read lies between the
device's size when it began and the present one, and that the file system fits
the device (`SizesInOrder`); `ResizeNeverShrinks` follows from the second part.
For the composition, `ExpansionsAreExact` is `ExpansionIsExact`, from the lemmas
and the guard that a volume only grows. That an expansion is a growth of the
device and everything else a step of `ResizeFs` (`StepsOfResize`) is a lemma, by
which the invariant of `ResizeFs` holds here. `RequestsAreHonoured` is `RequestHonoured`,
whose inductive form `ExpansionInv` (`GrantsStayCovered`) adds to that of
`ResizeFs` that the device covers what was granted and that what a call found
when it began covers what had been granted by then (`GrantsAreCovered`).

**`NodePathsProofs`** (assumption: a path is a sequence of names and not the
root). `MakeFileMade` and `MakeDirMade` are `FileWasMade` and `DirWasMade`, for
paths of any length. `SeenInv` says that a call in progress has seen what its
path and its parents are now; that `MkdirAll` missed ("none" or "stale") whatever
is below its innermost call and, once it makes a path, that path too; and that an
EEXIST of Mkdir is about something that is there still, or was removed. Since a step only adds to what was seen (`Grown`), an
EEXIST that survives Lstat leaves only the disturbances of finding 3, whichever
of the nested calls met it.

**`KeyProviderProofs`** (assumption: `MaxConnects` is a number), for
`GrpcSession` as part of `KeyProvider`. `SingleUseIsClosed` is
`CloseEndsSingleUse`, from: a session that dialled at most once has nothing open
but what it keeps (`KeepsFirst`). `OthersAreKept` is the action property
`CloseKeepsOthers`: a session keeps only what it dialled itself.
`CallersGetTheirKey` is `KeyIsOwn`, from the invariant that a request names the
path of its method, that the key is filled in before it is reported, and the
lemma that the service description undoes the client's table of paths
(`PathIsServed`). `CutCallsGetNoKey` is `CutCallHasNoKey`: a call that lost its
connection can only be reported with an error, and what the stub returns with
one is nil.

**`FakeRecorderProofs`** (assumptions: `Nobody` is not a goroutine, the methods
are those of one of the two doubles). `RecordsOfDoubleAgree` is `RecordsAgree`
and `CallNumbersAreOwn` is `NumberIsOwn`, for both doubles, of which TLC runs the
smaller. A method's mutex is had exactly by the call between Lock and Unlock
(`Owners`); the two records differ by the call being recorded, if there is one
(`Records`); a number is the next place until the arguments are there and then
that place (`Numbers`).

**`MessagesProofs`** (assumption: handlers report reason codes of
`reason_code.go`). `FailuresAreErrors` is `NoErrorSwallowed` and `ErrorsAreOwn`
is `ErrorIsOwn`. The invariant says that the table is never changed and that a
handler's copy, and what it returned, are functions of its own call; the lemmas
`EntriesAreErrors` and `EveryCodeHasEntry` are the facts about the table.

Only model-checked: liveness (`UnlockReturns`, `CallReturns`, `UpdateIsHandled`,
`EventuallyIdentified`, `CloseEndsCalls`, `CallsReturn`) and the fairness of the
refinements `ImplementsFairNamedLocks` and `ImplementsAsyncSaver`, because
fairness and ENABLED are out of the prover's reach.

## 6. Not modelled

- `Metrics`: every operation is one atomic call of the Prometheus library, and
  `RegisterAll` is called once at the start. What could go wrong is decided by
  the text (when a name is built, which string is a label) and is the same in
  every run of the program.
- `logger.go`, `constants.go`, `ListContainsSubstr` and the constructors of
  capabilities in `utils.go`, `cluster_info.go`, `safe-mounter.go`: no state and
  no control.
- `mount_unsupported.go`: stubs for other systems.
- The other test doubles: fixed answers. `provider/provider.pb.go`: the generated
  encoding of two messages; a key is a value in `KeyProvider`.
- What the counterfeiter doubles answer to a call, beyond its number and stub.
- `tests/`: programs that drive a real cluster.
- `New` of the watcher: reads the configuration and ends the process if it
  cannot; nothing of it remains but the provisioner's name.
