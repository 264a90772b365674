-------------------------- MODULE NodePathsProofs --------------------------
(****************************************************************************)
(* NodePaths for any number of goroutines and paths, of any depth.          *)
(****************************************************************************)
EXTENDS NodePaths, TLAPS

InMkdirAll == {"Stat", "Mkdir", "Lstat"}

Places == {"idle", "MakeFile"} \cup InMkdirAll

PathTypes ==
    /\ fs \in [Nodes -> Kinds]
    /\ pc \in [Goroutines -> Places]
    /\ call \in [Goroutines -> Calls]
    /\ depth \in [Goroutines -> Nat]
    /\ DOMAIN result = Goroutines
    /\ DOMAIN seen = Goroutines

(* The path that MkdirAll is called for at depth n, and whether Stat has    *)
(* had a reason to go on to its parent.                                     *)
Step(g, n) == SubSeq(Path(g), 1, n)

Missed(g, n) == <<Step(g, n), "none">> \in seen[g] \/ <<Step(g, n), "stale">> \in seen[g]

(****************************************************************************)
(* While a call runs, what is on its way has been seen; MkdirAll is         *)
(* somewhere on the way, and has missed all that is below and, once it      *)
(* makes a path, that path; an EEXIST of Mkdir is about something that is   *)
(* there still, or was removed.                                             *)
(****************************************************************************)
WaySeen(g) == \A q \in Way(Path(g)) : <<q, fs[q]>> \in seen[g]

MkdirAllInv(g) ==
    /\ call[g].op = "MakeDir"
    /\ depth[g] \in 1 .. Len(Path(g))
    /\ \A n \in 1 .. Len(Path(g)) : n > depth[g] => Missed(g, n)
    /\ pc[g] # "Stat" => Missed(g, depth[g])
    /\ pc[g] = "Lstat" => result[g] # "nil"
    /\ pc[g] = "Lstat" /\ result[g] = "EEXIST" =>
         fs[Node(g)] # "none" \/ <<Node(g), "removed">> \in seen[g]

CallInv(g) ==
    /\ pc[g] # "idle" => WaySeen(g)
    /\ pc[g] = "MakeFile" => call[g].op = "MakeFile"
    /\ pc[g] \in InMkdirAll => MkdirAllInv(g)

SeenInv == \A g \in Goroutines : CallInv(g)

PathInv == PathTypes /\ SeenInv /\ FileWasMade /\ DirWasMade

(****************************************************************************)
(* A path is on its own way, and the way consists of nodes.                 *)
(****************************************************************************)
LEMMA WayFacts ==
  ASSUME NEW p \in Paths
  PROVE  /\ Len(p) \in Nat \ {0}
         /\ SubSeq(p, 1, Len(p)) = p
         /\ p \in Way(p)
         /\ Way(p) \subseteq Nodes
         /\ \A n \in 1 .. Len(p) : SubSeq(p, 1, n) \in Way(p)
  <1>1. p \in Seq(Names) /\ p # <<>>
    BY PathsAssumption
  <1>2. Len(p) \in Nat \ {0}
    BY <1>1
  <1>3. SubSeq(p, 1, Len(p)) = p
    BY <1>1
  <1>4. \A n \in 1 .. Len(p) : SubSeq(p, 1, n) \in Way(p)
    BY DEF Way
  <1>5. Len(p) \in 1 .. Len(p)
    BY <1>2
  <1>6. p \in Way(p)
    BY <1>3, <1>4, <1>5
  <1>7. Way(p) \subseteq Nodes
    BY Zenon DEF Nodes
  <1>8. QED
    BY <1>2, <1>3, <1>4, <1>6, <1>7

(****************************************************************************)
(* What a step may do to the file system under the calls: they see it, and  *)
(* what is gone was removed.                                                *)
(****************************************************************************)
Watched(h) == \A q \in Way(Path(h)) :
    /\ <<q, fs'[q]>> \in seen'[h]
    /\ fs[q] # "none" /\ fs'[q] = "none" => <<q, "removed">> \in seen'[h]

Grown ==
    /\ fs' \in [Nodes -> Kinds] /\ DOMAIN seen' = Goroutines
    /\ \A h \in Goroutines : seen[h] \subseteq seen'[h] /\ (pc[h] # "idle" => Watched(h))

LEMMA StayGrown ==
  ASSUME PathInv, UNCHANGED <<fs, seen>>
  PROVE  Grown
  BY DEF Grown, Watched, PathInv, PathTypes, SeenInv, CallInv, WaySeen

LEMMA SetPathGrown ==
  ASSUME PathInv, NEW q \in Nodes, NEW kind \in Kinds, NEW marks,
         SetPath(q, kind, marks), kind \in marks,
         kind = "none" => "removed" \in marks
  PROVE  Grown
  <1>1. fs' \in [Nodes -> Kinds] /\ DOMAIN seen' = Goroutines
    BY DEF SetPath, PathInv, PathTypes
  <1>2. ASSUME NEW h \in Goroutines
        PROVE  seen[h] \subseteq seen'[h] /\ (pc[h] # "idle" => Watched(h))
    <2>1. seen'[h] = IF pc[h] # "idle" /\ q \in Way(Path(h))
                     THEN seen[h] \cup {<<q, m>> : m \in marks} ELSE seen[h]
      BY DEF SetPath
    <2>2. seen[h] \subseteq seen'[h]
      BY <2>1
    <2>3. ASSUME pc[h] # "idle", NEW r \in Way(Path(h))
          PROVE  /\ <<r, fs'[r]>> \in seen'[h]
                 /\ fs[r] # "none" /\ fs'[r] = "none" => <<r, "removed">> \in seen'[h]
      <3>1. Path(h) \in Paths
        BY DEF PathInv, PathTypes, Calls, Path
      <3>2. r \in Nodes
        BY <2>3, <3>1, WayFacts
      <3>3. fs'[r] = IF r = q THEN kind ELSE fs[r]
        BY <3>2 DEF SetPath, PathInv, PathTypes
      <3>4. CASE r = q
        <4>1. seen'[h] = seen[h] \cup {<<q, m>> : m \in marks}
          BY <2>1, <2>3, <3>4
        <4>2. <<q, kind>> \in seen'[h] /\ (kind = "none" => <<q, "removed">> \in seen'[h])
          BY <4>1
        <4>3. QED
          BY <3>3, <3>4, <4>2
      <3>5. CASE r # q
        <4>1. <<r, fs[r]>> \in seen[h]
          BY <2>3 DEF PathInv, SeenInv, CallInv, WaySeen
        <4>2. QED
          BY <2>2, <3>3, <3>5, <4>1
      <3>6. QED
        BY <3>4, <3>5
    <2>4. QED
      BY <2>2, <2>3 DEF Watched
  <1>3. QED
    BY <1>1, <1>2 DEF Grown

(****************************************************************************)
(* A goroutine that does not move keeps its facts, and what it returned     *)
(* stays right.                                                             *)
(****************************************************************************)
LEMMA OthersKept ==
  ASSUME PathInv, Grown, NEW h \in Goroutines,
         pc'[h] = pc[h], call'[h] = call[h], depth'[h] = depth[h], result'[h] = result[h]
  PROVE  CallInv(h)'
  <1>1. Path(h)' = Path(h) /\ Node(h)' = Node(h) /\ Path(h) \in Paths
    BY DEF Path, Node, PathInv, PathTypes, Calls
  <1>2. seen[h] \subseteq seen'[h] /\ (pc[h] # "idle" => Watched(h))
    BY DEF Grown
  <1>3. CallInv(h)
    BY DEF PathInv, SeenInv
  <1>4. pc[h] # "idle" => WaySeen(h)'
    BY <1>1, <1>2 DEF WaySeen, Watched
  <1>5. ASSUME pc[h] \in InMkdirAll
        PROVE  MkdirAllInv(h)'
    <2>1. MkdirAllInv(h)
      BY <1>3, <1>5 DEF CallInv
    <2>2. \A n : Missed(h, n) => Missed(h, n)'
      BY <1>1, <1>2 DEF Missed, Step
    <2>3. Node(h) \in Way(Path(h))
      BY <1>1, <2>1, WayFacts DEF MkdirAllInv, Node
    <2>4. /\ fs[Node(h)] # "none" /\ fs'[Node(h)] = "none" => <<Node(h), "removed">> \in seen'[h]
          /\ <<Node(h), "removed">> \in seen[h] => <<Node(h), "removed">> \in seen'[h]
      BY <1>2, <1>5, <2>3 DEF Watched, InMkdirAll
    <2>5. pc[h] = "Lstat" /\ result[h] = "EEXIST" =>
            fs'[Node(h)] # "none" \/ <<Node(h), "removed">> \in seen'[h]
      BY <2>1, <2>4 DEF MkdirAllInv
    <2>6. QED
      BY <1>1, <2>1, <2>2, <2>5 DEF MkdirAllInv
  <1>6. QED
    BY <1>3, <1>4, <1>5 DEF CallInv

LEMMA ReturnsKept ==
  ASSUME PathInv, Grown, NEW h \in Goroutines,
         pc'[h] = pc[h], call'[h] = call[h], depth'[h] = depth[h], result'[h] = result[h]
  PROVE  /\ Returned(h, "MakeFile")' => (<<Path(h), "file">> \in seen[h])'
         /\ Returned(h, "MakeDir")' => (\/ <<Path(h), "dir">> \in seen[h]
                                        \/ \E q \in Way(Path(h)) : Disturbed(h, q))'
  <1>1. Path(h)' = Path(h)
    BY DEF Path
  <1>2. seen[h] \subseteq seen'[h]
    BY DEF Grown
  <1>3. \A q : Disturbed(h, q) => Disturbed(h, q)'
    BY <1>2 DEF Disturbed
  <1>4. \A op : Returned(h, op)' => Returned(h, op)
    BY DEF Returned
  <1>5. QED
    BY <1>1, <1>2, <1>3, <1>4 DEF PathInv, FileWasMade, DirWasMade

(****************************************************************************)
(* A goroutine's step is harmless if it is accounted for where it goes: in  *)
(* MkdirAll by its invariant, and at its return by what nil means.          *)
(****************************************************************************)
LEMMA OneMoves ==
  ASSUME PathInv, Grown, NEW g \in Goroutines, pc[g] # "idle",
         NEW to \in {"idle"} \cup InMkdirAll, NEW n \in Nat, NEW err,
         Goto(g, to, n, err), call' = call,
         to # "idle" => MkdirAllInv(g)',
         to = "idle" /\ err = "nil" /\ call[g].op = "MakeFile" =>
            <<Path(g), "file">> \in seen'[g],
         to = "idle" /\ err = "nil" /\ call[g].op = "MakeDir" =>
            \/ <<Path(g), "dir">> \in seen'[g]
            \/ \E q \in Way(Path(g)) : Disturbed(g, q)'
  PROVE  PathInv'
  <1>1. PathTypes'
    BY DEF PathInv, PathTypes, Goto, Grown, Places
  <1>2. pc'[g] = to /\ result'[g] = err /\ Path(g)' = Path(g)
    BY DEF PathInv, PathTypes, Goto, Path
  <1>3. \A h \in Goroutines : h # g =>
          pc'[h] = pc[h] /\ call'[h] = call[h] /\ depth'[h] = depth[h] /\ result'[h] = result[h]
    BY DEF PathInv, PathTypes, Goto
  <1>4. CallInv(g)'
    <2>1. WaySeen(g)'
      BY <1>2 DEF Grown, Watched, WaySeen
    <2>2. QED
      BY <1>2, <2>1 DEF CallInv, InMkdirAll
  <1>5. SeenInv'
    BY <1>3, <1>4, OthersKept DEF SeenInv
  <1>6. FileWasMade'
    <2>1. Returned(g, "MakeFile")' => (<<Path(g), "file">> \in seen[g])'
      BY <1>2 DEF Returned
    <2>2. QED
      BY <1>3, <2>1, ReturnsKept DEF FileWasMade
  <1>7. DirWasMade'
    <2>1. Returned(g, "MakeDir")' => (\/ <<Path(g), "dir">> \in seen[g]
                                      \/ \E q \in Way(Path(g)) : Disturbed(g, q))'
      BY <1>2 DEF Returned
    <2>2. QED
      BY <1>3, <2>1, ReturnsKept DEF DirWasMade
  <1>8. QED
    BY <1>1, <1>5, <1>6, <1>7 DEF PathInv

(****************************************************************************)
(* A call begins: it forgets what it saw before.                            *)
(****************************************************************************)
LEMMA BeginStep ==
  ASSUME PathInv, NEW g \in Goroutines, NEW c \in Calls, Begin(g, c)
  PROVE  PathInv'
  <1> DEFINE to == IF c.op = "MakeDir" THEN "Stat" ELSE "MakeFile"
  <1>0. c.op \in {"MakeDir", "MakeFile"} /\ c.path \in Paths
    BY DEF Calls
  <1>1. /\ pc' = [pc EXCEPT ![g] = to]
        /\ depth' = [depth EXCEPT ![g] = Len(c.path)]
        /\ result' = [result EXCEPT ![g] = "none"]
        /\ call' = [call EXCEPT ![g] = c]
        /\ seen' = [seen EXCEPT ![g] = {<<q, fs[q]>> : q \in Way(c.path)}]
        /\ fs' = fs
    BY DEF Begin, Goto
  <1>2. Len(c.path) \in Nat \ {0}
    BY <1>0, WayFacts
  <1>3. PathTypes'
    BY <1>1, <1>2 DEF PathInv, PathTypes, Places, InMkdirAll
  <1>4. /\ pc'[g] = to /\ depth'[g] = Len(c.path) /\ result'[g] = "none" /\ call'[g] = c
        /\ seen'[g] = {<<q, fs[q]>> : q \in Way(c.path)}
        /\ \A h \in Goroutines : h # g =>
             /\ pc'[h] = pc[h] /\ call'[h] = call[h] /\ depth'[h] = depth[h]
             /\ result'[h] = result[h] /\ seen'[h] = seen[h]
    BY <1>1 DEF PathInv, PathTypes
  <1>5. Path(g)' = c.path /\ pc'[g] # "idle"
    BY <1>4 DEF Path
  <1>6. CallInv(g)'
    <2>1. WaySeen(g)'
      BY <1>1, <1>4, <1>5 DEF WaySeen
    <2>2. c.op = "MakeDir" => MkdirAllInv(g)'
      BY <1>2, <1>4, <1>5 DEF MkdirAllInv
    <2>3. QED
      BY <1>0, <1>4, <2>1, <2>2 DEF CallInv, InMkdirAll
  <1>7. ASSUME NEW h \in Goroutines, h # g
        PROVE  /\ CallInv(h)'
               /\ Returned(h, "MakeFile")' => (<<Path(h), "file">> \in seen[h])'
               /\ Returned(h, "MakeDir")' => (\/ <<Path(h), "dir">> \in seen[h]
                                              \/ \E q \in Way(Path(h)) : Disturbed(h, q))'
    <2>1. CallInv(h)
      BY DEF PathInv, SeenInv
    <2>2. Path(h)' = Path(h) /\ Node(h)' = Node(h)
      BY <1>4, <1>7 DEF Path, Node
    <2>3. CallInv(h)'
      BY <1>1, <1>4, <1>7, <2>1, <2>2 DEF CallInv, WaySeen, MkdirAllInv, Missed, Step
    <2>4. \A q : Disturbed(h, q)' <=> Disturbed(h, q)
      BY <1>4, <1>7 DEF Disturbed
    <2>5. \A op : Returned(h, op)' => Returned(h, op)
      BY <1>4, <1>7 DEF Returned
    <2>6. QED
      BY <1>4, <1>7, <2>2, <2>3, <2>4, <2>5 DEF PathInv, FileWasMade, DirWasMade
  <1>8. SeenInv' /\ FileWasMade' /\ DirWasMade'
    <2>1. \A op : ~Returned(g, op)'
      BY <1>5 DEF Returned
    <2>2. QED
      BY <1>6, <1>7, <2>1 DEF SeenInv, FileWasMade, DirWasMade
  <1>9. QED
    BY <1>3, <1>8 DEF PathInv

(****************************************************************************)
(* Something on the way is removed, goes stale or is unmounted.             *)
(****************************************************************************)
LEMMA NodeStep ==
  ASSUME PathInv, NEW q \in Nodes, Remove(q) \/ GoStale(q) \/ Unmount(q)
  PROVE  PathInv'
  <1>1. UNCHANGED <<pc, call, depth, result>>
    BY DEF Remove, GoStale, Unmount
  <1>2. Grown
    BY SetPathGrown DEF Remove, GoStale, Unmount, Kinds
  <1>3. PathTypes'
    BY <1>1, <1>2 DEF PathInv, PathTypes, Grown
  <1>4. SeenInv'
    BY <1>1, <1>2, OthersKept DEF SeenInv
  <1>5. FileWasMade' /\ DirWasMade'
    BY <1>1, <1>2, ReturnsKept DEF FileWasMade, DirWasMade
  <1>6. QED
    BY <1>3, <1>4, <1>5 DEF PathInv

(****************************************************************************)
(* What is known of a goroutine inside a call.                              *)
(****************************************************************************)
LEMMA InCall ==
  ASSUME PathInv, NEW g \in Goroutines, pc[g] # "idle"
  PROVE  /\ Path(g) \in Paths /\ WaySeen(g)
         /\ pc[g] = "MakeFile" => call[g].op = "MakeFile"
         /\ pc[g] \in InMkdirAll =>
              /\ MkdirAllInv(g) /\ call[g].op = "MakeDir"
              /\ Node(g) \in Way(Path(g)) /\ Node(g) \in Nodes
              /\ depth[g] \in 1 .. Len(Path(g)) /\ Len(Path(g)) \in Nat
  <1>1. Path(g) \in Paths
    BY DEF Path, PathInv, PathTypes, Calls
  <1>2. CallInv(g)
    BY DEF PathInv, SeenInv
  <1>3. ASSUME pc[g] \in InMkdirAll
        PROVE  /\ MkdirAllInv(g) /\ call[g].op = "MakeDir"
               /\ Node(g) \in Way(Path(g)) /\ Node(g) \in Nodes
               /\ depth[g] \in 1 .. Len(Path(g)) /\ Len(Path(g)) \in Nat
    <2>1. MkdirAllInv(g)
      BY <1>2, <1>3 DEF CallInv
    <2>2. QED
      BY <1>1, <2>1, WayFacts DEF MkdirAllInv, Node
  <1>4. QED
    BY <1>1, <1>2, <1>3 DEF CallInv

(****************************************************************************)
(* MkdirAll has seen a directory where it was called for: it goes down to   *)
(* the path below, which it has missed, or returns to MakeDir.              *)
(****************************************************************************)
LEMMA DoneStep ==
  ASSUME PathInv, Grown, NEW g \in Goroutines, pc[g] \in InMkdirAll,
         MkdirAllDone(g), call' = call, <<Node(g), "dir">> \in seen'[g]
  PROVE  PathInv'
  <1>1. pc[g] # "idle" /\ MkdirAllInv(g) /\ Path(g) \in Paths /\ call[g].op = "MakeDir"
        /\ depth[g] \in 1 .. Len(Path(g)) /\ Len(Path(g)) \in Nat
    BY InCall DEF InMkdirAll
  <1>2. CASE depth[g] = Len(Path(g))
    <2>1. Goto(g, "idle", 0, "nil")
      BY <1>2 DEF MkdirAllDone, Leave
    <2>2. <<Path(g), "dir">> \in seen'[g]
      BY <1>1, <1>2, WayFacts DEF Node
    <2>3. QED
      BY <1>1, <2>1, <2>2, OneMoves
  <1>3. CASE depth[g] # Len(Path(g))
    <2>1. Goto(g, "Mkdir", depth[g] + 1, "none")
      BY <1>3 DEF MkdirAllDone
    <2>2. depth[g] + 1 \in 1 .. Len(Path(g)) /\ depth[g] + 1 > depth[g]
      BY <1>1, <1>3
    <2>3. pc'[g] = "Mkdir" /\ depth'[g] = depth[g] + 1 /\ Path(g)' = Path(g) /\ call'[g] = call[g]
      BY <2>1 DEF Goto, PathInv, PathTypes, Path
    <2>4. \A n : Missed(g, n) => Missed(g, n)'
      BY <2>3 DEF Missed, Step, Grown
    <2>5. MkdirAllInv(g)'
      BY <1>1, <2>2, <2>3, <2>4 DEF MkdirAllInv
    <2>6. depth[g] + 1 \in Nat /\ "Mkdir" \in {"idle"} \cup InMkdirAll
      BY <2>2 DEF InMkdirAll
    <2>7. QED
      BY <1>1, <2>1, <2>5, <2>6, OneMoves
  <1>4. QED
    BY <1>2, <1>3

(****************************************************************************)
(* The steps of MakeFile and MakeDir.                                       *)
(****************************************************************************)
LEMMA MakeFileStep ==
  ASSUME PathInv, NEW g \in Goroutines, MakeFile(g)
  PROVE  PathInv'
  <1>1. pc[g] = "MakeFile" /\ call' = call /\ Goto(g, "idle", 0, OpenError(Path(g)))
    BY DEF MakeFile, Leave
  <1>2. Path(g) \in Paths /\ Path(g) \in Nodes /\ call[g].op = "MakeFile"
        /\ <<Path(g), fs[Path(g)]>> \in seen[g] /\ fs[Path(g)] \in Kinds
    BY <1>1, InCall, WayFacts DEF WaySeen, PathInv, PathTypes
  <1>3. CASE SetPath(Path(g), "file", {"file"})
    <2>1. Grown
      BY <1>2, <1>3, SetPathGrown DEF Kinds
    <2>2. <<Path(g), "file">> \in seen'[g]
      BY <1>1, <1>2, <1>3, WayFacts DEF SetPath
    <2>3. QED
      BY <1>1, <1>2, <2>1, <2>2, OneMoves
  <1>4. CASE UNCHANGED <<fs, seen>> /\ (OpenError(Path(g)) = "nil" => fs[Path(g)] # "none")
    <2>1. Grown
      BY <1>4, StayGrown
    <2>2. OpenError(Path(g)) = "nil" => fs[Path(g)] = "file"
      BY <1>2, <1>4 DEF OpenError, NoDirError, Kinds
    <2>3. OpenError(Path(g)) = "nil" => <<Path(g), "file">> \in seen'[g]
      BY <1>2, <1>4, <2>2
    <2>4. QED
      BY <1>1, <1>2, <2>1, <2>3, OneMoves
  <1>5. QED
    BY <1>3, <1>4 DEF MakeFile

LEMMA StatStep ==
  ASSUME PathInv, NEW g \in Goroutines, MkdirAllStat(g)
  PROVE  PathInv'
  <1>1. pc[g] = "Stat" /\ UNCHANGED <<fs, call, seen>>
    BY DEF MkdirAllStat
  <1>2. Grown
    BY <1>1, StayGrown
  <1>3. /\ MkdirAllInv(g) /\ call[g].op = "MakeDir" /\ Path(g) \in Paths
        /\ <<Node(g), fs[Node(g)]>> \in seen[g]
        /\ depth[g] \in 1 .. Len(Path(g)) /\ Len(Path(g)) \in Nat
    BY <1>1, InCall DEF InMkdirAll, WaySeen
  <1>4. CASE fs[Node(g)] = "dir" /\ MkdirAllDone(g)
    BY <1>1, <1>2, <1>3, <1>4, DoneStep DEF InMkdirAll
  <1>5. CASE Leave(g, MakeDirReturn("ENOTDIR"))
    BY <1>1, <1>2, <1>5, OneMoves DEF Leave, MakeDirReturn
  <1>6. CASE /\ fs[Node(g)] \in {"none", "stale"}
             /\ IF depth[g] > 1 THEN Goto(g, "Stat", depth[g] - 1, "none")
                ELSE Goto(g, "Mkdir", depth[g], "none")
    <2>1. Missed(g, depth[g])
      BY <1>3, <1>6 DEF Missed, Step, Node
    <2>2. Path(g)' = Path(g) /\ call'[g] = call[g] /\ \A n : Missed(g, n)' <=> Missed(g, n)
      BY <1>1 DEF Path, Missed, Step
    <2>3. CASE depth[g] > 1
      <3>1. Goto(g, "Stat", depth[g] - 1, "none") /\ depth[g] - 1 \in Nat
        BY <1>3, <1>6, <2>3
      <3>2. pc'[g] = "Stat" /\ depth'[g] = depth[g] - 1
        BY <3>1 DEF Goto, PathInv, PathTypes
      <3>3. MkdirAllInv(g)'
        BY <1>3, <2>1, <2>2, <2>3, <3>2 DEF MkdirAllInv
      <3>4. QED
        BY <1>1, <1>2, <3>1, <3>3, OneMoves DEF InMkdirAll
    <2>4. CASE ~(depth[g] > 1)
      <3>1. Goto(g, "Mkdir", depth[g], "none") /\ depth[g] \in Nat
        BY <1>3, <1>6, <2>4
      <3>2. pc'[g] = "Mkdir" /\ depth'[g] = depth[g]
        BY <3>1 DEF Goto, PathInv, PathTypes
      <3>3. MkdirAllInv(g)'
        BY <1>3, <2>1, <2>2, <3>2 DEF MkdirAllInv
      <3>4. QED
        BY <1>1, <1>2, <3>1, <3>3, OneMoves DEF InMkdirAll
    <2>5. QED
      BY <2>3, <2>4
  <1>7. QED
    BY <1>4, <1>5, <1>6 DEF MkdirAllStat

(* Mkdir failed, and Lstat is next: an EEXIST was about something there. *)
LEMMA ToLstat ==
  ASSUME PathInv, NEW g \in Goroutines, NEW err, pc[g] = "Mkdir",
         Goto(g, "Lstat", depth[g], err), UNCHANGED <<fs, call, seen>>,
         err # "nil", err = "EEXIST" => fs[Node(g)] # "none"
  PROVE  PathInv'
  <1>1. Grown
    BY StayGrown
  <1>2. MkdirAllInv(g) /\ depth[g] \in 1 .. Len(Path(g)) /\ Len(Path(g)) \in Nat
    BY InCall DEF InMkdirAll
  <1>3. pc'[g] = "Lstat" /\ depth'[g] = depth[g] /\ result'[g] = err
    BY DEF Goto, PathInv, PathTypes
  <1>4. /\ Path(g)' = Path(g) /\ Node(g)' = Node(g) /\ call'[g] = call[g]
        /\ \A n : Missed(g, n)' <=> Missed(g, n)
    BY <1>3 DEF Path, Node, Missed, Step
  <1>5. MkdirAllInv(g)'
    BY <1>2, <1>3, <1>4 DEF MkdirAllInv
  <1>6. depth[g] \in Nat /\ "Lstat" \in {"idle"} \cup InMkdirAll
    BY <1>2 DEF InMkdirAll
  <1>7. QED
    BY <1>1, <1>5, <1>6, OneMoves

LEMMA MkdirStep ==
  ASSUME PathInv, NEW g \in Goroutines, MkdirAllMkdir(g)
  PROVE  PathInv'
  <1>1. pc[g] = "Mkdir" /\ call' = call
    BY DEF MkdirAllMkdir
  <1>2. Node(g) \in Way(Path(g)) /\ Node(g) \in Nodes
    BY <1>1, InCall DEF InMkdirAll
  <1>3. CASE SetPath(Node(g), "dir", {"dir"}) /\ MkdirAllDone(g)
    <2>1. Grown
      BY <1>2, <1>3, SetPathGrown DEF Kinds
    <2>2. <<Node(g), "dir">> \in seen'[g]
      BY <1>1, <1>2, <1>3 DEF SetPath
    <2>3. QED
      BY <1>1, <1>3, <2>1, <2>2, DoneStep DEF InMkdirAll
  <1>4. CASE Goto(g, "Lstat", depth[g], MkdirError(Node(g))) /\ UNCHANGED <<fs, seen>>
    <2>1. /\ MkdirError(Node(g)) = "EEXIST" => fs[Node(g)] # "none"
          /\ MkdirError(Node(g)) # "nil"
      BY DEF MkdirError, NoDirError
    <2>2. QED
      BY <1>1, <1>4, <2>1, ToLstat
  <1>5. QED
    BY <1>3, <1>4 DEF MkdirAllMkdir

LEMMA LstatStep ==
  ASSUME PathInv, NEW g \in Goroutines, MkdirAllLstat(g)
  PROVE  PathInv'
  <1>1. pc[g] = "Lstat" /\ UNCHANGED <<fs, call, seen>>
    BY DEF MkdirAllLstat
  <1>2. Grown
    BY <1>1, StayGrown
  <1>3. /\ MkdirAllInv(g) /\ call[g].op = "MakeDir"
        /\ <<Node(g), fs[Node(g)]>> \in seen[g] /\ fs[Node(g)] \in Kinds
        /\ Node(g) \in Way(Path(g))
    BY <1>1, InCall DEF InMkdirAll, WaySeen, PathInv, PathTypes
  <1>4. CASE fs[Node(g)] = "dir" /\ MkdirAllDone(g)
    BY <1>1, <1>2, <1>3, <1>4, DoneStep DEF InMkdirAll
  <1>5. CASE fs[Node(g)] # "dir" /\ Leave(g, MakeDirReturn(result[g]))
    <2>1. CASE result[g] = "EEXIST"
      <3>1. fs[Node(g)] # "none" \/ <<Node(g), "removed">> \in seen[g]
        BY <1>1, <1>3, <2>1 DEF MkdirAllInv
      <3>2. <<Node(g), "none">> \in seen[g] \/ <<Node(g), "stale">> \in seen[g]
        BY <1>1, <1>3 DEF MkdirAllInv, Missed, Step, Node
      <3>3. \A q : q = Node(g) => Disturbed(g, q)'
        BY <1>1, <1>3, <1>5, <3>1, <3>2 DEF Disturbed, Kinds
      <3>4. \E q \in Way(Path(g)) : Disturbed(g, q)'
        BY <1>3, <3>3
      <3>5. QED
        BY <1>1, <1>2, <1>3, <1>5, <2>1, <3>4, OneMoves DEF Leave, MakeDirReturn
    <2>2. CASE result[g] # "EEXIST"
      <3>1. result[g] # "nil"
        BY <1>1, <1>3 DEF MkdirAllInv
      <3>2. QED
        BY <1>1, <1>2, <1>3, <1>5, <2>2, <3>1, OneMoves DEF Leave, MakeDirReturn
    <2>3. QED
      BY <2>1, <2>2
  <1>6. QED
    BY <1>4, <1>5 DEF MkdirAllLstat

LEMMA OtherErrorStep ==
  ASSUME PathInv, NEW g \in Goroutines, OtherError(g)
  PROVE  PathInv'
  <1>1. UNCHANGED <<fs, call, seen>>
    BY DEF OtherError
  <1>2. Grown
    BY <1>1, StayGrown
  <1>3. CASE pc[g] # "idle" /\ Leave(g, "EOTHER")
    BY <1>1, <1>2, <1>3, OneMoves DEF Leave
  <1>4. CASE pc[g] = "Mkdir" /\ Goto(g, "Lstat", depth[g], "EOTHER")
    BY <1>1, <1>4, ToLstat
  <1>5. QED
    BY <1>3, <1>4 DEF OtherError, MakeDirReturn

(****************************************************************************)
(* The inductive invariant holds at first and is kept by every step.        *)
(****************************************************************************)
LEMMA PathInduction == Spec => []PathInv
  <1>1. Init => PathInv
    BY DEF Init, PathInv, PathTypes, SeenInv, CallInv, FileWasMade, DirWasMade, Returned,
           Places, InMkdirAll
  <1>2. ASSUME PathInv, UNCHANGED vars
        PROVE  PathInv'
    <2>1. Grown /\ UNCHANGED <<pc, call, depth, result>>
      BY <1>2, StayGrown DEF vars
    <2>2. PathTypes'
      BY <1>2, <2>1 DEF PathInv, PathTypes, Grown
    <2>3. SeenInv' /\ FileWasMade' /\ DirWasMade'
      BY <1>2, <2>1, OthersKept, ReturnsKept DEF SeenInv, FileWasMade, DirWasMade
    <2>4. QED
      BY <2>2, <2>3 DEF PathInv
  <1>3. ASSUME PathInv, Next
        PROVE  PathInv'
    <2>1. ASSUME NEW g \in Goroutines, CallStep(g)
          PROVE  PathInv'
      BY <1>3, <2>1, MakeFileStep, StatStep, MkdirStep, LstatStep, OtherErrorStep DEF CallStep
    <2>2. QED
      BY <1>3, <2>1, BeginStep, NodeStep DEF Next
  <1>4. QED
    BY <1>1, <1>2, <1>3, PTL DEF Spec

(****************************************************************************)
(* After MakeFile returned nil the path was a file at some moment of the    *)
(* call, however many calls and removals run at once.                       *)
(****************************************************************************)
THEOREM MakeFileMade == Spec => []FileWasMade
  <1>1. PathInv => FileWasMade
    BY DEF PathInv
  <1>2. QED
    BY <1>1, PathInduction, PTL

(****************************************************************************)
(* After MakeDir returned nil the path was a directory at some moment of    *)
(* the call, or something happened meanwhile, at the path or at one of its  *)
(* parents, to which the dropped EEXIST was due.                            *)
(****************************************************************************)
THEOREM MakeDirMade == Spec => []DirWasMade
  <1>1. PathInv => DirWasMade
    BY DEF PathInv
  <1>2. QED
    BY <1>1, PathInduction, PTL
=============================================================================
