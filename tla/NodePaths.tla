------------------------------ MODULE NodePaths ------------------------------
(****************************************************************************)
(* pkg/mountmanager/mount_linux.go: MakeDir and MakeFile prepare the target *)
(* path of a mount: a directory for a file system, a file for a raw block   *)
(* device.  Calls of several goroutines, on a path and on its parents, and  *)
(* the removal of what an unpublished volume leaves interleave.             *)
(*                                                                          *)
(* External: the node's file system, and os.MkdirAll, which looks at the    *)
(* path (Stat), calls itself for the parent of a path that is not there,    *)
(* makes the path (Mkdir) and, if that failed, looks again (Lstat).         *)
(****************************************************************************)
EXTENDS Naturals, Sequences

CONSTANTS
    Goroutines,  \* the callers
    Names,       \* the names of directories and files
    Paths,       \* the target paths, each the sequence of its names
    MountPoints  \* where a mount may go stale

ASSUME PathsAssumption == Paths \subseteq Seq(Names) \ {<<>>}

VARIABLES
    fs,        \* fs[q]: what is at q
    pc,        \* where each goroutine is
    call,      \* the call it makes, or made last
    depth,     \* of the path that the innermost MkdirAll is called for
    result,    \* what the call returned, or err of Mkdir
    seen       \* auxiliary: what has been at the path and its parents in the call

vars == <<fs, pc, call, depth, result, seen>>

(* The path and its parents, below the root. *)
Way(p) == {SubSeq(p, 1, n) : n \in 1 .. Len(p)}
Nodes == UNION {Way(p) : p \in Paths}
Parent(q) == SubSeq(q, 1, Len(q) - 1)

(* At a "stale" node is a mount whose server is gone: it is there, and      *)
(* cannot be looked at.                                                     *)
Kinds == {"none", "dir", "file", "stale"}
Calls == [op : {"MakeDir", "MakeFile"}, path : Paths]

(* The root, Parent(q) of a q of one name, is a directory. *)
At(q) == IF q = <<>> THEN "dir" ELSE fs[q]

Empty(q) == \A r \in Nodes : Parent(r) = q => fs[r] = "none"

Init ==
    /\ fs \in [Nodes -> Kinds]
    /\ \A q \in Nodes : /\ fs[q] # "none" => At(Parent(q)) = "dir"
                        /\ fs[q] = "stale" => q \in MountPoints
    /\ pc = [g \in Goroutines |-> "idle"]
    /\ call \in [Goroutines -> Calls]
    /\ depth = [g \in Goroutines |-> 0]
    /\ result = [g \in Goroutines |-> "none"]
    /\ seen = [g \in Goroutines |-> {}]

Path(g) == call[g].path
Node(g) == SubSeq(Path(g), 1, depth[g])

(* Everyone whose call is in progress sees what becomes of its way. *)
SetPath(q, kind, marks) ==
    /\ fs' = [fs EXCEPT ![q] = kind]
    /\ seen' = [g \in Goroutines |->
         IF pc[g] # "idle" /\ q \in Way(Path(g))
         THEN seen[g] \cup {<<q, m>> : m \in marks} ELSE seen[g]]

Goto(g, to, n, err) ==
    /\ pc' = [pc EXCEPT ![g] = to]
    /\ depth' = [depth EXCEPT ![g] = n]
    /\ result' = [result EXCEPT ![g] = err]

Leave(g, err) == Goto(g, "idle", 0, err)

Begin(g, c) ==
    /\ pc[g] = "idle"
    /\ Goto(g, IF c.op = "MakeDir" THEN "Stat" ELSE "MakeFile", Len(c.path), "none")
    /\ call' = [call EXCEPT ![g] = c]
    /\ seen' = [seen EXCEPT ![g] = {<<q, fs[q]>> : q \in Way(c.path)}]
    /\ UNCHANGED fs

(****************************************************************************)
(* The node: a path is removed (NodeUnpublishVolume), by whoever; the mount *)
(* at a path goes stale, and is unmounted.                                  *)
(****************************************************************************)
Remove(q) ==
    /\ fs[q] \in {"dir", "file"} /\ Empty(q)
    /\ SetPath(q, "none", {"none", "removed"})
    /\ UNCHANGED <<pc, call, depth, result>>

GoStale(q) ==
    /\ q \in MountPoints /\ fs[q] = "dir" /\ Empty(q)
    /\ SetPath(q, "stale", {"stale"})
    /\ UNCHANGED <<pc, call, depth, result>>

Unmount(q) ==
    /\ fs[q] = "stale"
    /\ SetPath(q, "dir", {"dir"})
    /\ UNCHANGED <<pc, call, depth, result>>

(* The error of making an entry q of a directory that is not there. *)
NoDirError(q) == IF At(Parent(q)) = "none" THEN "ENOENT" ELSE "ENOTDIR"

(****************************************************************************)
(* MakeFile: open with O_CREATE, and close.  It makes no parents.           *)
(****************************************************************************)
(* Mutant: the error of OpenFile is taken for "exists already". *)
MakeFileOverDir(g) ==
    /\ pc[g] = "MakeFile"
    /\ IF At(Parent(Path(g))) = "dir" /\ fs[Path(g)] = "none"
       THEN SetPath(Path(g), "file", {"file"})
       ELSE UNCHANGED <<fs, seen>>
    /\ Leave(g, "nil")
    /\ UNCHANGED call

OpenError(p) ==
    IF At(Parent(p)) # "dir" THEN NoDirError(p)
    ELSE IF fs[p] \in {"none", "file"} THEN "nil"
    ELSE IF fs[p] = "dir" THEN "EISDIR" ELSE "ESTALE"

MakeFile(g) ==
    /\ pc[g] = "MakeFile"
    /\ IF OpenError(Path(g)) = "nil" /\ fs[Path(g)] = "none"
       THEN SetPath(Path(g), "file", {"file"})
       ELSE UNCHANGED <<fs, seen>>
    /\ Leave(g, OpenError(Path(g)))
    /\ UNCHANGED call

(****************************************************************************)
(* MakeDir: os.MkdirAll, and every error but those os.IsExist knows is      *)
(* returned.                                                                *)
(****************************************************************************)
(* Mutant: no error of MkdirAll is returned. *)
MakeDirReturnNil(err) == "nil"

MakeDirReturn(err) == IF err = "EEXIST" THEN "nil" ELSE err

(* MkdirAll returns nil, to MakeDir or to the MkdirAll that called it for   *)
(* its parent and now makes its own path.                                   *)
MkdirAllDone(g) ==
    IF depth[g] = Len(Path(g)) THEN Leave(g, "nil")
    ELSE Goto(g, "Mkdir", depth[g] + 1, "none")

(* A path that Stat does not find, or cannot look at, needs its parent; an  *)
(* error is returned through all the calls of MkdirAll.                     *)
MkdirAllStat(g) ==
    /\ pc[g] = "Stat"
    /\ \/ /\ fs[Node(g)] = "dir"
          /\ MkdirAllDone(g)
       \/ /\ fs[Node(g)] = "file"
          /\ Leave(g, MakeDirReturn("ENOTDIR"))
       \/ /\ fs[Node(g)] \in {"none", "stale"}
          /\ IF depth[g] > 1 THEN Goto(g, "Stat", depth[g] - 1, "none")
             ELSE Goto(g, "Mkdir", depth[g], "none")
    /\ UNCHANGED <<fs, call, seen>>

MkdirError(q) == IF fs[q] # "none" THEN "EEXIST" ELSE NoDirError(q)

MkdirAllMkdir(g) ==
    /\ pc[g] = "Mkdir"
    /\ \/ /\ fs[Node(g)] = "none" /\ At(Parent(Node(g))) = "dir"
          /\ SetPath(Node(g), "dir", {"dir"})
          /\ MkdirAllDone(g)
       \/ /\ fs[Node(g)] # "none" \/ At(Parent(Node(g))) # "dir"
          /\ Goto(g, "Lstat", depth[g], MkdirError(Node(g)))
          /\ UNCHANGED <<fs, seen>>
    /\ UNCHANGED call

MkdirAllLstat(g) ==
    /\ pc[g] = "Lstat"
    /\ IF fs[Node(g)] = "dir" THEN MkdirAllDone(g)
       ELSE Leave(g, MakeDirReturn(result[g]))
    /\ UNCHANGED <<fs, call, seen>>

(* Any other error, such as no permission or a full disk: open and Mkdir    *)
(* fail, or Stat does and with it all that follows.                         *)
OtherError(g) ==
    /\ \/ pc[g] = "MakeFile" /\ Leave(g, "EOTHER")
       \/ pc[g] = "Stat" /\ Leave(g, MakeDirReturn("EOTHER"))
       \/ pc[g] = "Mkdir" /\ Goto(g, "Lstat", depth[g], "EOTHER")
    /\ UNCHANGED <<fs, call, seen>>

CallStep(g) ==
    \/ MakeFile(g)
    \/ MkdirAllStat(g) \/ MkdirAllMkdir(g) \/ MkdirAllLstat(g)
    \/ OtherError(g)

Next ==
    \/ \E g \in Goroutines : CallStep(g) \/ \E c \in Calls : Begin(g, c)
    \/ \E q \in Nodes : Remove(q) \/ GoStale(q) \/ Unmount(q)

Spec == Init /\ [][Next]_vars

-----------------------------------------------------------------------------
Returned(g, op) == pc[g] = "idle" /\ result[g] = "nil" /\ call[g].op = op

(****************************************************************************)
(* MakeFile that returned nil made the file or found one: the path was a    *)
(* file at some moment of the call, whatever others do to it meanwhile.     *)
(****************************************************************************)
FileWasMade == \A g \in Goroutines :
    Returned(g, "MakeFile") => <<Path(g), "file">> \in seen[g]

(* Why q was there for Mkdir and was no directory for Lstat. *)
Disturbed(g, q) ==
    \/ {<<q, "none">>, <<q, "file">>} \subseteq seen[g]
    \/ <<q, "removed">> \in seen[g]
    \/ <<q, "stale">> \in seen[g]

(****************************************************************************)
(* MakeDir that returned nil had a directory at the path at some moment of  *)
(* the call, though it drops the errors that os.IsExist knows, also those   *)
(* about a parent; unless, while it ran, at the path or at a parent of it   *)
(* something was removed, a file was put where there was nothing, or there  *)
(* was a stale mount.  A file that stays on the way is always reported.     *)
(****************************************************************************)
DirWasMade == \A g \in Goroutines :
    Returned(g, "MakeDir") => \/ <<Path(g), "dir">> \in seen[g]
                              \/ \E q \in Way(Path(g)) : Disturbed(g, q)

(****************************************************************************)
(* "MakeDir creates a new directory.": after nil there was a directory at   *)
(* the path at some moment of the call.                                     *)
(****************************************************************************)
MakeDirMakesDir == \A g \in Goroutines :
    Returned(g, "MakeDir") => <<Path(g), "dir">> \in seen[g]
=============================================================================
