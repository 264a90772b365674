----------------------------- MODULE GrpcSession -----------------------------
(****************************************************************************)
(* pkg/utils/grpc-client/grpc_client.go: a GrpcSes keeps the connection it  *)
(* dialled last.  Connect dials, Close closes what is kept, and GrpcDial    *)
(* dials through a ClientConn, which keeps the connection, and keeps        *)
(* nothing itself.                                                          *)
(*                                                                          *)
(* External: grpc.Dial, which makes a new connection or fails, and Close of *)
(* a connection, which returns an error when it is closed already.          *)
(****************************************************************************)
EXTENDS Naturals

CONSTANTS
    Sessions,    \* the GrpcSes values
    MaxConnects  \* bound: how often a session connects

ASSUME MaxConnectsAssumption == MaxConnects \in Nat

(* A connection: who dialled it, at which attempt. *)
Conns == Sessions \X (1 .. MaxConnects)
Nil == <<>>

VARIABLES
    conn,      \* conn[s]: the connection s keeps, or Nil
    connects,  \* connects[s]: how often s has dialled
    open,      \* the connections that are open
    closed     \* the sessions that were closed after they dialled last

vars == <<conn, connects, open, closed>>

(* NewGrpcSession returns an empty GrpcSes. *)
Init ==
    /\ conn = [s \in Sessions |-> Nil]
    /\ connects = [s \in Sessions |-> 0]
    /\ open = {}
    /\ closed = {}

(* grpc.Dial for s makes the connection c, or fails and returns nil. *)
Dial(s, c) ==
    /\ connects[s] < MaxConnects
    /\ connects' = [connects EXCEPT ![s] = @ + 1]
    /\ c \in {<<s, connects[s] + 1>>, Nil}
    /\ open' = open \cup ({c} \ {Nil})

(* Mutant: conn, err := grpc.Dial(...) declares a conn of its own. *)
ConnectShadowed(s) ==
    /\ \E c \in Conns \cup {Nil} : Dial(s, c)
    /\ closed' = closed \ {s}
    /\ UNCHANGED conn

(* What Dial returned is kept, and what was kept before is forgotten. *)
Connect(s) ==
    /\ \E c \in Conns \cup {Nil} :
         /\ Dial(s, c)
         /\ conn' = [conn EXCEPT ![s] = c]
    /\ closed' = closed \ {s}

(* Mutant: the session that is asked keeps the connection too. *)
GrpcDialKeeps(s, cc) ==
    /\ \E c \in Conns \cup {Nil} :
         /\ Dial(cc, c)
         /\ conn' = [conn EXCEPT ![cc] = c, ![s] = c]
    /\ closed' = closed \ {s, cc}

(* The connection is cc's; the session that is asked keeps nothing. *)
GrpcDial(s, cc) == Connect(cc)

(* Nothing to close, or conn.Close(), which does nothing the second time. *)
Close(s) ==
    /\ open' = open \ {conn[s]}
    /\ closed' = closed \cup {s}
    /\ UNCHANGED <<conn, connects>>

Next == \E s \in Sessions :
    \/ Connect(s)
    \/ Close(s)
    \/ \E cc \in Sessions \ {s} : GrpcDial(s, cc)

Spec == Init /\ [][Next]_vars

-----------------------------------------------------------------------------
OpenedBy(s) == {c \in open : c[1] = s}

(****************************************************************************)
(* A session that dialled once, itself or for GrpcDial of another, and was  *)
(* closed after that, has nothing open, however often it is closed.  With a *)
(* second Connect that is lost: Connect forgets, and does not close, the    *)
(* connection it had.                                                       *)
(****************************************************************************)
CloseEndsSingleUse == \A s \in closed :
    connects[s] <= 1 => OpenedBy(s) = {}

(****************************************************************************)
(* What a step closes was dialled by a session that has been closed: one    *)
(* that asked for the connection with GrpcDial does not own it, and the     *)
(* calls of other sessions leave it alone.                                  *)
(****************************************************************************)
CloseKeepsOthers ==
    [][\A c \in open \ open' : c[1] \in closed']_vars
=============================================================================
