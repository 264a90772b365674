---------------------------- MODULE FakeRecorder ----------------------------
(****************************************************************************)
(* pkg/metadata/fake_node_metadata.go, pkg/metadata/fake/fake_node_info.go: *)
(* the doubles of NodeMetadata and NodeInfo, which the drivers' tests share *)
(* between goroutines.  A double records every call of a method twice, in   *)
(* the method's ...ArgsForCall and in invocations, and answers it with the  *)
(* stub, if there is one, or with what was planned for a call of its number *)
(* or for every call.  Each method has a read-write mutex, and invocations  *)
(* has one of its own.                                                      *)
(*                                                                          *)
(* External: sync.RWMutex, whose Lock first keeps new readers and writers   *)
(* out and then waits for the readers that are in; and the stub, which may  *)
(* ask the double for the call count.                                       *)
(****************************************************************************)
EXTENDS Naturals, Sequences, FiniteSets

CONSTANTS
    Goroutines,  \* the goroutines of the test and of the code it tests
    Methods,     \* the methods of the double
    MaxCalls,    \* bound: how often each method is called
    Nobody

ASSUME NobodyAssumption == Nobody \notin Goroutines

(* The methods of the two doubles, in the order in which Invocations locks  *)
(* their mutexes; all have the same code.                                   *)
FakeNodeMetadata == <<"GetAccountID", "GetRegion", "GetWorkerID", "GetZone">>
FakeNodeInfo == <<"NewNodeMetadata">>

ASSUME MethodsAssumption == Methods \in {FakeNodeMetadata, FakeNodeInfo}

MethodSet == {Methods[i] : i \in 1 .. Len(Methods)}

ASSUME MaxCallsAssumption == MaxCalls \in Nat

(* invocationsMutex comes first. *)
LockOrder == <<"invocations">> \o Methods
Mutexes == {LockOrder[i] : i \in 1 .. Len(LockOrder)}

VARIABLES
    writer,       \* writer[l]: who has l, or waits for l's readers to leave
    readers,      \* readers[l]: who reads under l
    stub,         \* stub[m]: is m's stub set?
    args,         \* args[m]: m's ...ArgsForCall; an argument is its caller
    invocations,  \* invocations[m]: the arguments recorded for m there
    pc,           \* where each goroutine is
    call,         \* the function it is in, and of which method
    number,       \* number[g]: which call of its method g's is
    runs,         \* runs[g]: g's call found a stub to run
    rlocked       \* rlocked[g]: how many mutexes g's Invocations has

vars == <<writer, readers, stub, args, invocations, pc, call, number, runs,
          rlocked>>

Calls == [op : {"Get", "Calls", "Returns"}, method : MethodSet]
         \cup {[op |-> "Invocations", method |-> "invocations"]}

NoCall == [op |-> "none", method |-> "none"]

Init ==
    /\ writer = [l \in Mutexes |-> Nobody]
    /\ readers = [l \in Mutexes |-> {}]
    /\ stub = [m \in MethodSet |-> FALSE]
    /\ args = [m \in MethodSet |-> <<>>]
    /\ invocations = [m \in MethodSet |-> <<>>]
    /\ pc = [g \in Goroutines |-> "idle"]
    /\ call = [g \in Goroutines |-> NoCall]
    /\ number = [g \in Goroutines |-> 0]
    /\ runs = [g \in Goroutines |-> FALSE]
    /\ rlocked = [g \in Goroutines |-> 0]

Goto(g, from, to) ==
    /\ pc[g] = from
    /\ pc' = [pc EXCEPT ![g] = to]

Return(g, from) ==
    /\ Goto(g, from, "idle")
    /\ call' = [call EXCEPT ![g] = NoCall]
    /\ number' = [number EXCEPT ![g] = 0]
    /\ runs' = [runs EXCEPT ![g] = FALSE]

(****************************************************************************)
(* sync.RWMutex                                                             *)
(****************************************************************************)
Lock(g, l) ==
    /\ writer[l] = Nobody
    /\ writer' = [writer EXCEPT ![l] = g]
    /\ UNCHANGED readers

Locked(g, l) == writer[l] = g /\ readers[l] = {}

Unlock(l) ==
    /\ writer' = [writer EXCEPT ![l] = Nobody]
    /\ UNCHANGED readers

RLock(g, l) ==
    /\ writer[l] = Nobody
    /\ readers' = [readers EXCEPT ![l] = @ \cup {g}]
    /\ UNCHANGED writer

(****************************************************************************)
(* The functions of a method m: its calls, and the setters.  What happens   *)
(* under m's mutex is a step of its own where other mutexes are waited for. *)
(****************************************************************************)
Unrecorded(c) ==
    {h \in Goroutines : call[h] = c /\ pc[h] \in {"lock", "locking", "append"}}

Begin(g, c) ==
    /\ Goto(g, "idle", IF c.op = "Invocations" THEN "rlock" ELSE "lock")
    /\ call' = [call EXCEPT ![g] = c]
    /\ c.op = "Get" =>
         Len(args[c.method]) + Cardinality(Unrecorded(c)) < MaxCalls
    /\ UNCHANGED <<writer, readers, stub, args, invocations, number, runs, rlocked>>

MethodLock(g) ==
    /\ Goto(g, "lock", "locking")
    /\ Lock(g, call[g].method)
    /\ UNCHANGED <<stub, args, invocations, call, number, runs, rlocked>>

(* ...Calls sets the stub, ...Returns and ...ReturnsOnCall clear it. *)
Set(g) ==
    /\ pc[g] = "locking"
    /\ call[g].op \in {"Calls", "Returns"}
    /\ Locked(g, call[g].method)
    /\ stub' = [stub EXCEPT ![call[g].method] = (call[g].op = "Calls")]
    /\ Return(g, "locking")
    /\ Unlock(call[g].method)
    /\ UNCHANGED <<args, invocations, rlocked>>

(* Mutant: the number may be read before the mutex is locked. *)
GetNumberEarly(g) ==
    LET next == Len(args[call[g].method]) + 1
    IN  /\ call[g].op = "Get"
        /\ \/ /\ pc[g] = "lock"
              /\ number' = [number EXCEPT ![g] = next]
              /\ UNCHANGED pc
           \/ /\ Goto(g, "locking", "append")
              /\ Locked(g, call[g].method)
              /\ number' = [number EXCEPT ![g] = IF @ = 0 THEN next ELSE @]
        /\ UNCHANGED <<writer, readers, stub, args, invocations, call, runs, rlocked>>

(* The number of the call, and with it the answer ReturnsOnCall planned. *)
GetNumber(g) ==
    /\ call[g].op = "Get"
    /\ Goto(g, "locking", "append")
    /\ Locked(g, call[g].method)
    /\ number' = [number EXCEPT ![g] = Len(args[call[g].method]) + 1]
    /\ UNCHANGED <<writer, readers, stub, args, invocations, call, runs, rlocked>>

(* Mutant: recordInvocation is called when the mutex is unlocked already. *)
GetUnlocksFirst(g) ==
    LET m == call[g].method
    IN  /\ Goto(g, "append", "record")
        /\ args' = [args EXCEPT ![m] = Append(@, g)]
        /\ runs' = [runs EXCEPT ![g] = stub[m]]
        /\ Unlock(m)
        /\ UNCHANGED <<stub, invocations, call, number, rlocked>>

(* The arguments, the stub and what Returns planned. *)
Get(g) ==
    LET m == call[g].method
    IN  /\ Goto(g, "append", "record")
        /\ args' = [args EXCEPT ![m] = Append(@, g)]
        /\ runs' = [runs EXCEPT ![g] = stub[m]]
        /\ UNCHANGED <<writer, readers, stub, invocations, call, number, rlocked>>

RecordLock(g) ==
    /\ Goto(g, "record", "recording")
    /\ Lock(g, "invocations")
    /\ UNCHANGED <<stub, args, invocations, call, number, runs, rlocked>>

recordInvocation(g) ==
    /\ Goto(g, "recording", "unlock")
    /\ Locked(g, "invocations")
    /\ invocations' = [invocations EXCEPT ![call[g].method] = Append(@, g)]
    /\ Unlock("invocations")
    /\ UNCHANGED <<stub, args, call, number, runs, rlocked>>

(* Mutant: Unlock is deferred, and the stub runs under the mutex. *)
MethodUnlockDeferred(g) ==
    /\ \/ /\ runs[g] /\ Goto(g, "unlock", "stub")
          /\ UNCHANGED <<writer, readers, call, number, runs>>
       \/ /\ ~runs[g] /\ Return(g, "unlock")
          /\ Unlock(call[g].method)
    /\ UNCHANGED <<stub, args, invocations, rlocked>>

(* The answer was read under the mutex; a stub is run after Unlock. *)
MethodUnlock(g) ==
    /\ \/ runs[g] /\ Goto(g, "unlock", "stub") /\ UNCHANGED <<call, number, runs>>
       \/ ~runs[g] /\ Return(g, "unlock")
    /\ Unlock(call[g].method)
    /\ UNCHANGED <<stub, args, invocations, rlocked>>

(* The stub asks for the call count: RLock, read, RUnlock. *)
CallCount(g) ==
    /\ Return(g, "stub")
    /\ writer[call[g].method] = Nobody
    /\ UNCHANGED <<writer, readers, stub, args, invocations, rlocked>>

(****************************************************************************)
(* Invocations: all mutexes, in order, then the copy.                       *)
(****************************************************************************)
InvocationsRLock(g) ==
    /\ pc[g] = "rlock"
    /\ rlocked[g] < Len(LockOrder)
    /\ RLock(g, LockOrder[rlocked[g] + 1])
    /\ rlocked' = [rlocked EXCEPT ![g] = @ + 1]
    /\ UNCHANGED <<stub, args, invocations, pc, call, number, runs>>

Invocations(g) ==
    /\ rlocked[g] = Len(LockOrder)
    /\ Return(g, "rlock")
    /\ readers' = [l \in Mutexes |-> readers[l] \ {g}]
    /\ rlocked' = [rlocked EXCEPT ![g] = 0]
    /\ UNCHANGED <<writer, stub, args, invocations>>

Step(g) ==
    \/ Set(g) \/ GetNumber(g) \/ Get(g) \/ recordInvocation(g)
    \/ MethodUnlock(g) \/ Invocations(g)

Acquire(g) ==
    \/ MethodLock(g) \/ RecordLock(g) \/ InvocationsRLock(g) \/ CallCount(g)

Next == \E g \in Goroutines :
    \/ \E c \in Calls : Begin(g, c)
    \/ Step(g)
    \/ Acquire(g)

Spec == Init /\ [][Next]_vars

(* Goroutines run, and a mutex that keeps being released is handed over. *)
FairSpec == Spec /\ \A g \in Goroutines : WF_vars(Step(g)) /\ SF_vars(Acquire(g))

-----------------------------------------------------------------------------
(****************************************************************************)
(* The two records agree whenever no call of the method is being recorded:  *)
(* same calls, same order; so does a test that compares ...ArgsForCall(i)   *)
(* with what Invocations returns, which has all mutexes, see one history.   *)
(****************************************************************************)
RecordsAgree == \A m \in MethodSet :
    writer[m] = Nobody => invocations[m] = args[m]

(****************************************************************************)
(* A call's number, by which ReturnsOnCall plans its answer, is the place   *)
(* of its own arguments in ...ArgsForCall, however many calls of the method *)
(* run at once: no two calls get the answer of one number.                  *)
(****************************************************************************)
NumberIsOwn == \A g \in Goroutines :
    pc[g] \in {"record", "recording", "unlock", "stub"} =>
        args[call[g].method][number[g]] = g

(****************************************************************************)
(* Every call of the double returns, a stub that asks the double included,  *)
(* unless Invocations, which has invocationsMutex and wants the method's,   *)
(* meets a call of the method, which has the method's and wants             *)
(* invocationsMutex: that is the only way to wait for good.                 *)
(****************************************************************************)
Embrace(g, h) ==
    /\ call[g].op = "Invocations" /\ g \in readers["invocations"]
    /\ pc[h] \in {"record", "recording"}

CallsReturn == \A g \in Goroutines :
    call[g] # NoCall ~> \/ call[g] = NoCall
                        \/ \E h, k \in Goroutines : Embrace(h, k)
=============================================================================
