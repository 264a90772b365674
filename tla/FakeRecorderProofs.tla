------------------------- MODULE FakeRecorderProofs -------------------------
(****************************************************************************)
(* FakeRecorder for both doubles of pkg/metadata, any number of goroutines  *)
(* and of calls.                                                            *)
(****************************************************************************)
EXTENDS FakeRecorder, SequenceTheorems, TLAPS

Recording == {"record", "recording"}

Numbered == {"record", "recording", "unlock", "stub"}

Holding == {"locking", "append", "record", "recording", "unlock"}

RecorderTypes ==
    /\ pc \in [Goroutines -> {"idle", "lock", "rlock", "stub"} \cup Holding]
    /\ call \in [Goroutines -> Calls \cup {NoCall}]
    /\ number \in [Goroutines -> Nat]
    /\ args \in [MethodSet -> Seq(Goroutines)]
    /\ invocations \in [MethodSet -> Seq(Goroutines)]
    /\ writer \in [Mutexes -> Goroutines \cup {Nobody}]
    /\ \A g \in Goroutines : pc[g] \notin {"idle", "rlock"} => call[g].method \in MethodSet

(****************************************************************************)
(* A method's mutex is had by a goroutine exactly while its call of the     *)
(* method is between Lock and Unlock.                                       *)
(****************************************************************************)
Owners ==
    /\ \A g \in Goroutines : pc[g] \in Holding => writer[call[g].method] = g
    /\ \A m \in MethodSet, g \in Goroutines :
         writer[m] = g => pc[g] \in Holding /\ call[g].method = m

(****************************************************************************)
(* The records differ by the call that is being recorded, if there is one.  *)
(****************************************************************************)
Records ==
    /\ \A g \in Goroutines : pc[g] \in Recording =>
         args[call[g].method] = Append(invocations[call[g].method], g)
    /\ \A m \in MethodSet :
         (\A g \in Goroutines : pc[g] \in Recording => call[g].method # m)
           => args[m] = invocations[m]

(****************************************************************************)
(* The number of a call stands for the next place until its arguments are   *)
(* in that place, where they stay.                                          *)
(****************************************************************************)
Numbers == \A g \in Goroutines :
    /\ pc[g] = "append" => number[g] = Len(args[call[g].method]) + 1
    /\ pc[g] \in Numbered =>
         /\ number[g] \in 1 .. Len(args[call[g].method])
         /\ args[call[g].method][number[g]] = g

RecorderInv == RecorderTypes /\ Owners /\ Records /\ Numbers

(****************************************************************************)
(* invocationsMutex is none of the methods' mutexes, which are mutexes.     *)
(****************************************************************************)
LEMMA MutexNames ==
  "invocations" \notin MethodSet /\ "invocations" \in Mutexes /\ MethodSet \subseteq Mutexes
  <1>1. ASSUME NEW i \in 1 .. Len(Methods)
        PROVE  Methods[i] # "invocations" /\ i + 1 \in 1 .. Len(LockOrder)
               /\ LockOrder[i + 1] = Methods[i]
    <2>1. CASE Methods = FakeNodeMetadata
      BY <1>1, <2>1 DEF FakeNodeMetadata, LockOrder
    <2>2. CASE Methods = FakeNodeInfo
      BY <1>1, <2>2 DEF FakeNodeInfo, LockOrder
    <2>3. QED
      BY <2>1, <2>2, MethodsAssumption
  <1>2. 1 \in 1 .. Len(LockOrder) /\ LockOrder[1] = "invocations"
    BY MethodsAssumption DEF FakeNodeMetadata, FakeNodeInfo, LockOrder
  <1>3. QED
    BY <1>1, <1>2 DEF MethodSet, Mutexes

(****************************************************************************)
(* What Append does to a record.                                            *)
(****************************************************************************)
LEMMA AppendToRecord ==
  ASSUME NEW s \in Seq(Goroutines), NEW g \in Goroutines
  PROVE  /\ Append(s, g) \in Seq(Goroutines)
         /\ Len(s) \in Nat /\ Len(Append(s, g)) = Len(s) + 1
         /\ Append(s, g)[Len(s) + 1] = g
         /\ \A i \in 1 .. Len(s) : Append(s, g)[i] = s[i]
  BY AppendProperties

(****************************************************************************)
(* Who is between Lock and Unlock is in a call of a method.                 *)
(****************************************************************************)
LEMMA HoldingMethod ==
  ASSUME RecorderTypes, NEW h \in Goroutines, pc[h] \in Holding
  PROVE  call[h].method \in MethodSet /\ call[h].method \in Mutexes
  BY MutexNames DEF RecorderTypes, Holding

(****************************************************************************)
(* The steps that leave the method's mutexes and the records alone.         *)
(****************************************************************************)
LEMMA QuietSteps ==
  ASSUME RecorderInv, NEW g \in Goroutines,
         \/ \E c \in Calls : Begin(g, c)
         \/ CallCount(g) \/ InvocationsRLock(g) \/ Invocations(g) \/ RecordLock(g)
  PROVE  RecorderInv'
  <1> USE DEF RecorderInv
  <1>1. ASSUME NEW c \in Calls, Begin(g, c) PROVE RecorderInv'
    <2>1. /\ pc[g] = "idle"
          /\ pc' = [pc EXCEPT ![g] = IF c.op = "Invocations" THEN "rlock" ELSE "lock"]
          /\ call' = [call EXCEPT ![g] = c]
          /\ UNCHANGED <<writer, args, invocations, number>>
      BY <1>1 DEF Begin, Goto
    <2>2. c.op # "Invocations" => c.method \in MethodSet
      BY DEF Calls
    <2>3. RecorderTypes'
      BY <2>1, <2>2 DEF RecorderTypes, Holding
    <2>4. Owners'
      BY <2>1 DEF RecorderTypes, Owners, Holding
    <2>5. Records'
      BY <2>1 DEF RecorderTypes, Records, Recording
    <2>6. Numbers'
      BY <2>1 DEF RecorderTypes, Numbers, Numbered
    <2>7. QED
      BY <2>3, <2>4, <2>5, <2>6
  <1>2. CASE CallCount(g) \/ Invocations(g)
    <2>1. /\ pc[g] \in {"stub", "rlock"}
          /\ pc' = [pc EXCEPT ![g] = "idle"]
          /\ call' = [call EXCEPT ![g] = NoCall]
          /\ number' = [number EXCEPT ![g] = 0]
          /\ UNCHANGED <<writer, args, invocations>>
      BY <1>2 DEF CallCount, Invocations, Return, Goto
    <2>3. RecorderTypes'
      BY <2>1 DEF RecorderTypes, Holding
    <2>4. Owners'
      BY <2>1 DEF RecorderTypes, Owners, Holding
    <2>5. Records'
      BY <2>1 DEF RecorderTypes, Records, Recording
    <2>6. Numbers'
      BY <2>1 DEF RecorderTypes, Numbers, Numbered
    <2>7. QED
      BY <2>3, <2>4, <2>5, <2>6
  <1>3. CASE InvocationsRLock(g)
    BY <1>3 DEF InvocationsRLock, RLock, RecorderTypes, Owners, Records, Numbers
  <1>4. CASE RecordLock(g)
    <2>1. /\ pc[g] = "record"
          /\ pc' = [pc EXCEPT ![g] = "recording"]
          /\ writer' = [writer EXCEPT !["invocations"] = g]
          /\ UNCHANGED <<call, args, invocations, number>>
      BY <1>4 DEF RecordLock, Goto, Lock
    <2>2. \A m \in MethodSet : writer'[m] = writer[m]
      BY <2>1, MutexNames DEF RecorderTypes
    <2>3. RecorderTypes'
      BY <2>1 DEF RecorderTypes, Holding
    <2>4. Owners'
      <3>1. \A h \in Goroutines : pc'[h] \in Holding <=> pc[h] \in Holding
        BY <2>1 DEF RecorderTypes, Holding
      <3>2. QED
        BY <2>1, <2>2, <3>1, HoldingMethod DEF Owners
    <2>5. Records'
      BY <2>1 DEF RecorderTypes, Records, Recording
    <2>6. Numbers'
      BY <2>1 DEF RecorderTypes, Numbers, Numbered
    <2>7. QED
      BY <2>3, <2>4, <2>5, <2>6
  <1>5. QED
    BY <1>1, <1>2, <1>3, <1>4

(****************************************************************************)
(* The steps that lock or unlock the method's mutex.                        *)
(****************************************************************************)
LEMMA MutexSteps ==
  ASSUME RecorderInv, NEW g \in Goroutines,
         MethodLock(g) \/ Set(g) \/ GetNumber(g) \/ MethodUnlock(g)
  PROVE  RecorderInv'
  <1> USE DEF RecorderInv
  <1> DEFINE m == call[g].method
  <1>0. pc[g] \notin {"idle", "rlock"} => m \in MethodSet /\ m \in Mutexes
    BY MutexNames DEF RecorderTypes
  <1>1. CASE MethodLock(g)
    <2>1. /\ pc[g] = "lock"
          /\ pc' = [pc EXCEPT ![g] = "locking"]
          /\ writer[m] = Nobody
          /\ writer' = [writer EXCEPT ![m] = g]
          /\ UNCHANGED <<call, args, invocations, number>>
      BY <1>1 DEF MethodLock, Goto, Lock
    <2>2. m \in MethodSet /\ m \in Mutexes
      BY <1>0, <2>1
    <2>3. RecorderTypes'
      BY <2>1, <2>2 DEF RecorderTypes, Holding
    <2>4. Owners'
      <3>1. /\ \A h \in Goroutines : pc'[h] \in Holding <=> pc[h] \in Holding \/ h = g
            /\ \A l \in Mutexes : writer'[l] = IF l = m THEN g ELSE writer[l]
        BY <2>1, <2>2 DEF RecorderTypes, Holding
      <3>2. \A h \in Goroutines : pc[h] \in Holding => call[h].method # m
        BY <2>1, NobodyAssumption DEF Owners
      <3>3. ASSUME NEW h \in Goroutines, pc'[h] \in Holding
            PROVE  writer'[call'[h].method] = h
        BY <2>1, <2>2, <3>1, <3>2, <3>3, HoldingMethod DEF Owners
      <3>4. ASSUME NEW l \in MethodSet, NEW h \in Goroutines, writer'[l] = h
            PROVE  pc'[h] \in Holding /\ call'[h].method = l
        BY <2>1, <2>2, <3>1, <3>4, MutexNames DEF Owners
      <3>5. QED
        BY <3>3, <3>4 DEF Owners
    <2>5. Records'
      BY <2>1 DEF RecorderTypes, Records, Recording
    <2>6. Numbers'
      BY <2>1 DEF RecorderTypes, Numbers, Numbered
    <2>7. QED
      BY <2>3, <2>4, <2>5, <2>6
  <1>2. CASE GetNumber(g)
    <2>1. /\ pc[g] = "locking"
          /\ pc' = [pc EXCEPT ![g] = "append"]
          /\ number' = [number EXCEPT ![g] = Len(args[m]) + 1]
          /\ UNCHANGED <<call, args, invocations, writer>>
      BY <1>2 DEF GetNumber, Goto
    <2>2. m \in MethodSet /\ Len(args[m]) \in Nat
      BY <1>0, <2>1, LenProperties DEF RecorderTypes
    <2>3. RecorderTypes'
      BY <2>1, <2>2 DEF RecorderTypes, Holding
    <2>4. Owners'
      BY <2>1 DEF RecorderTypes, Owners, Holding
    <2>5. Records'
      BY <2>1 DEF RecorderTypes, Records, Recording
    <2>6. Numbers'
      BY <2>1 DEF RecorderTypes, Numbers, Numbered
    <2>7. QED
      BY <2>3, <2>4, <2>5, <2>6
  <1>3. CASE Set(g) \/ MethodUnlock(g)
    <2>1. /\ pc[g] \in {"locking", "unlock"}
          /\ writer' = [writer EXCEPT ![m] = Nobody]
          /\ UNCHANGED <<args, invocations>>
          /\ \/ /\ pc' = [pc EXCEPT ![g] = "idle"]
                /\ call' = [call EXCEPT ![g] = NoCall]
                /\ number' = [number EXCEPT ![g] = 0]
             \/ /\ pc[g] = "unlock"
                /\ pc' = [pc EXCEPT ![g] = "stub"]
                /\ UNCHANGED <<call, number>>
      BY <1>3 DEF Set, MethodUnlock, Return, Goto, Unlock
    <2>2. m \in MethodSet /\ m \in Mutexes /\ writer[m] = g
      BY <1>0, <2>1 DEF Owners, Holding
    <2>3. RecorderTypes'
      <3>1. /\ pc' \in [Goroutines -> {"idle", "lock", "rlock", "stub"} \cup Holding]
            /\ args' = args /\ invocations' = invocations
        BY <2>1 DEF RecorderTypes
      <3>2. call' \in [Goroutines -> Calls \cup {NoCall}]
        BY <2>1 DEF RecorderTypes
      <3>3. number' \in [Goroutines -> Nat]
        BY <2>1 DEF RecorderTypes
      <3>4. writer' \in [Mutexes -> Goroutines \cup {Nobody}]
        BY <2>1, <2>2 DEF RecorderTypes
      <3>5. \A h \in Goroutines : pc'[h] \notin {"idle", "rlock"} => call'[h].method \in MethodSet
        BY <2>1, <2>2 DEF RecorderTypes
      <3>6. QED
        BY <3>1, <3>2, <3>3, <3>4, <3>5 DEF RecorderTypes
    <2>4. Owners'
      <3>1. /\ \A h \in Goroutines : pc'[h] \in Holding <=> pc[h] \in Holding /\ h # g
            /\ \A l \in Mutexes : writer'[l] = IF l = m THEN Nobody ELSE writer[l]
            /\ \A h \in Goroutines : h # g => call'[h] = call[h]
        BY <2>1, <2>2 DEF RecorderTypes, Holding
      <3>2. ASSUME NEW h \in Goroutines, pc'[h] \in Holding
            PROVE  writer'[call'[h].method] = h
        BY <2>2, <3>1, <3>2, HoldingMethod DEF Owners
      <3>3. ASSUME NEW l \in MethodSet, NEW h \in Goroutines, writer'[l] = h
            PROVE  pc'[h] \in Holding /\ call'[h].method = l
        <4>1. l # m /\ writer[l] = h
          BY <3>1, <3>3, MutexNames, NobodyAssumption
        <4>2. pc[h] \in Holding /\ call[h].method = l /\ h # g
          BY <4>1 DEF Owners
        <4>3. QED
          BY <3>1, <4>2
      <3>4. QED
        BY <3>2, <3>3 DEF Owners
    <2>5. Records'
      BY <2>1 DEF RecorderTypes, Records, Recording
    <2>6. Numbers'
      BY <2>1 DEF RecorderTypes, Numbers, Numbered
    <2>7. QED
      BY <2>3, <2>4, <2>5, <2>6
  <1>4. QED
    BY <1>1, <1>2, <1>3

(****************************************************************************)
(* The steps that record the call, first with the method, then among the    *)
(* invocations.                                                             *)
(****************************************************************************)
LEMMA RecordSteps ==
  ASSUME RecorderInv, NEW g \in Goroutines, Get(g) \/ recordInvocation(g)
  PROVE  RecorderInv'
  <1> USE DEF RecorderInv
  <1> DEFINE m == call[g].method
  <1>1. pc[g] \in {"append", "recording"}
    BY DEF Get, recordInvocation, Goto
  <1>2. m \in MethodSet /\ m \in Mutexes /\ writer[m] = g
    BY <1>1, MutexNames DEF RecorderTypes, Owners, Holding
  <1>3. \A h \in Goroutines : pc[h] \in Holding /\ call[h].method = m => h = g
    BY <1>2 DEF Owners
  <1>4. args[m] \in Seq(Goroutines) /\ invocations[m] \in Seq(Goroutines)
    BY <1>2 DEF RecorderTypes
  <1>5. CASE Get(g)
    <2>1. /\ pc[g] = "append"
          /\ pc' = [pc EXCEPT ![g] = "record"]
          /\ args' = [args EXCEPT ![m] = Append(args[m], g)]
          /\ UNCHANGED <<writer, call, invocations, number>>
      BY <1>5 DEF Get, Goto
    <2>2. RecorderTypes'
      BY <1>2, <1>4, <2>1, AppendToRecord DEF RecorderTypes, Holding
    <2>3. Owners'
      BY <2>1 DEF RecorderTypes, Owners, Holding
    <2>4. args[m] = invocations[m]
      BY <1>2, <1>3, <2>1 DEF Records, Recording, Holding
    <2>5. Records'
      BY <1>2, <1>3, <2>1, <2>4 DEF RecorderTypes, Records, Recording, Holding
    <2>6. Numbers'
      <3>1. ASSUME NEW h \in Goroutines, h # g, pc[h] = "append"
            PROVE  number'[h] = Len(args'[call'[h].method]) + 1
        BY <1>2, <1>3, <2>1, <3>1 DEF RecorderTypes, Numbers, Holding
      <3>2. ASSUME NEW h \in Goroutines, h # g, pc[h] \in Numbered
            PROVE  /\ number'[h] \in 1 .. Len(args'[call'[h].method])
                   /\ args'[call'[h].method][number'[h]] = h
        BY <1>2, <1>4, <2>1, <3>2, AppendToRecord DEF RecorderTypes, Numbers, Numbered
      <3>3. /\ number'[g] \in 1 .. Len(args'[m])
            /\ args'[m][number'[g]] = g
        BY <1>2, <1>4, <2>1, AppendToRecord DEF RecorderTypes, Numbers
      <3>4. QED
        BY <2>1, <3>1, <3>2, <3>3 DEF RecorderTypes, Numbers
    <2>7. QED
      BY <2>2, <2>3, <2>5, <2>6
  <1>6. CASE recordInvocation(g)
    <2>1. /\ pc[g] = "recording"
          /\ pc' = [pc EXCEPT ![g] = "unlock"]
          /\ invocations' = [invocations EXCEPT ![m] = Append(invocations[m], g)]
          /\ writer' = [writer EXCEPT !["invocations"] = Nobody]
          /\ UNCHANGED <<call, args, number>>
      BY <1>6 DEF recordInvocation, Goto, Unlock
    <2>2. RecorderTypes'
      BY <1>2, <1>4, <2>1, AppendToRecord DEF RecorderTypes, Holding
    <2>3. \A l \in MethodSet : writer'[l] = writer[l]
      BY <2>1, MutexNames DEF RecorderTypes
    <2>4. Owners'
      <3>1. \A h \in Goroutines : pc'[h] \in Holding <=> pc[h] \in Holding
        BY <2>1 DEF RecorderTypes, Holding
      <3>2. QED
        BY <2>1, <2>3, <3>1, HoldingMethod DEF Owners
    <2>5. Records'
      BY <1>2, <1>3, <2>1 DEF RecorderTypes, Records, Recording, Holding
    <2>6. Numbers'
      BY <2>1 DEF RecorderTypes, Numbers, Numbered
    <2>7. QED
      BY <2>2, <2>4, <2>5, <2>6
  <1>7. QED
    BY <1>5, <1>6

(****************************************************************************)
(* The inductive invariant holds at first and is kept by every step.        *)
(****************************************************************************)
LEMMA RecorderInduction == Spec => []RecorderInv
  <1>1. Init => RecorderInv
    <2> SUFFICES ASSUME Init PROVE RecorderInv
      OBVIOUS
    <2>1. <<>> \in Seq(Goroutines)
      BY EmptySeq
    <2>2. RecorderTypes
      BY <2>1 DEF Init, RecorderTypes
    <2>3. Owners /\ Records /\ Numbers
      BY MutexNames, NobodyAssumption DEF Init, Owners, Records, Numbers, Holding, Recording, Numbered
    <2>4. QED
      BY <2>2, <2>3 DEF RecorderInv
  <1>2. RecorderInv /\ UNCHANGED vars => RecorderInv'
    BY DEF vars, RecorderInv, RecorderTypes, Owners, Records, Numbers
  <1>3. RecorderInv /\ [Next]_vars => RecorderInv'
    BY <1>2, QuietSteps, MutexSteps, RecordSteps DEF Next, Step, Acquire
  <1>4. QED
    BY <1>1, <1>3, PTL DEF Spec

(****************************************************************************)
(* While nobody has a method's mutex, its ...ArgsForCall and what           *)
(* recordInvocation kept are one and the same history, for both doubles and *)
(* however many goroutines share them.                                      *)
(****************************************************************************)
THEOREM RecordsOfDoubleAgree == Spec => []RecordsAgree
  <1>1. RecorderInv => RecordsAgree
    <2> SUFFICES ASSUME RecorderInv, NEW m \in MethodSet, writer[m] = Nobody
                 PROVE  invocations[m] = args[m]
      BY DEF RecordsAgree
    <2>1. \A g \in Goroutines : pc[g] \in Holding => call[g].method # m
      BY NobodyAssumption DEF RecorderInv, Owners
    <2>2. QED
      BY <2>1 DEF RecorderInv, Records, Recording, Holding
  <1>2. QED
    BY <1>1, RecorderInduction, PTL

(****************************************************************************)
(* The number that decides a call's planned answer is the place of its own  *)
(* arguments, for both doubles and however many calls run at once.          *)
(****************************************************************************)
THEOREM CallNumbersAreOwn == Spec => []NumberIsOwn
  <1>1. RecorderInv => NumberIsOwn
    BY DEF RecorderInv, Numbers, NumberIsOwn, Numbered
  <1>2. QED
    BY <1>1, RecorderInduction, PTL
=============================================================================
