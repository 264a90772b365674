----------------------------- MODULE AsyncSaver -----------------------------
(****************************************************************************)
(* What PVWatcher promises of its saves: whoever is notified of a version   *)
(* of a volume gets a request of its own, which is carried out at most once *)
(* or given up, in any order, and does not outlive the process.  What is    *)
(* saved is always some request's version.                                  *)
(****************************************************************************)
EXTENDS Naturals

CONSTANTS
    Volumes,        \* the volumes
    Nothing,        \* saved of a volume before the first save
    Metadata(_, _)  \* Metadata(p, v): what a request for version v of p saves

VARIABLES
    count,    \* how many requests there were
    pending,  \* the requests [id, pv, ver] neither carried out nor given up
    saved     \* saved[p]: the metadata of p

vars == <<count, pending, saved>>

Init ==
    /\ count = 0
    /\ pending = {}
    /\ saved = [p \in Volumes |-> Nothing]

Notified ==
    /\ count' = count + 1
    /\ pending \subseteq pending'
    /\ \E r \in pending' : r.id = count' /\ pending' = pending \cup {r}
    /\ UNCHANGED saved

Save(r) ==
    /\ pending' = pending \ {r}
    /\ saved' = [saved EXCEPT ![r.pv] = Metadata(r.pv, r.ver)]
    /\ UNCHANGED count

GiveUp(r) ==
    /\ pending' = pending \ {r}
    /\ UNCHANGED <<count, saved>>

LoseAll == pending' = {} /\ UNCHANGED <<count, saved>>

Settle(p) == \E r \in pending : r.pv = p /\ (Save(r) \/ GiveUp(r))

Next == Notified \/ LoseAll \/ \E p \in Volumes : Settle(p)

Safety == Init /\ [][Next]_vars

(* A volume's requests are settled one after the other. *)
Spec == Safety /\ \A p \in Volumes : WF_vars(Settle(p))
=============================================================================
