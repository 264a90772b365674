----------------------------- MODULE KeyProvider -----------------------------
(****************************************************************************)
(* provider/provider_grpc.pb.go over pkg/utils/grpc-client: the drivers get *)
(* their API keys from the APIKeyProvider service of a sidecar, through a   *)
(* client stub on a connection a GrpcSes has dialled, which may be closed,  *)
(* or forgotten by the session, while calls are under way.                  *)
(*                                                                          *)
(* External: the transport, which fails the calls of a closed connection,   *)
(* and the server's implementation, which may be missing, fail or hang.     *)
(****************************************************************************)
EXTENDS GrpcSession

CONSTANT Callers  \* the goroutines that ask for keys

Methods == {"GetVPCAPIKey", "GetContainerAPIKey"}

VPCPath == "/provider.APIKeyProvider/GetVPCAPIKey"
ContainerPath == "/provider.APIKeyProvider/GetContainerAPIKey"

VARIABLES
    client,       \* client[k]: the connection of k's stub, or Nil
    pc,           \* where k's call is
    method,       \* method[k]: the method of the stub that k called
    path,         \* path[k]: the path its request names
    out,          \* out[k]: the APIKey that Invoke is to fill in
    err,          \* err[k]: what Invoke returned
    got,          \* got[k]: the key that the stub returned to k, or NoKey
    cut           \* auxiliary: k's call lost its connection before Invoke returned

keyVars == <<client, pc, method, path, out, err, got, cut>>

(* A key is known by the method it was made by; new(APIKey) is empty, and   *)
(* with an error the stub returns nil.                                      *)
NewKey == "empty"
NoKey == "nil"

KeyInit ==
    /\ Init
    /\ client = [k \in Callers |-> Nil]
    /\ pc = [k \in Callers |-> "idle"]
    /\ method = [k \in Callers |-> "none"]
    /\ path = [k \in Callers |-> "none"]
    /\ out = [k \in Callers |-> NewKey]
    /\ err = [k \in Callers |-> "nil"]
    /\ got = [k \in Callers |-> NoKey]
    /\ cut = [k \in Callers |-> FALSE]

Goto(k, from, to) ==
    /\ pc[k] = from
    /\ pc' = [pc EXCEPT ![k] = to]

(* The stub of a connection that was dialled: one that is open, though its  *)
(* session may have forgotten it, or one that a session keeps.              *)
NewAPIKeyProviderClient(k, c) ==
    /\ pc[k] = "idle"
    /\ c \in open \cup {conn[s] : s \in Sessions}
    /\ client' = [client EXCEPT ![k] = c]
    /\ UNCHANGED <<vars, pc, method, path, out, err, got, cut>>

(* Mutant: the second method of the stub invokes the first one's path. *)
PathCopied == [m \in Methods |-> VPCPath]

(* The path that each method of the stub invokes. *)
Path == [m \in Methods |-> IF m = "GetVPCAPIKey" THEN VPCPath ELSE ContainerPath]

(* c.cc.Invoke, with a new APIKey for the answer. *)
Invoke(k, m) ==
    /\ client[k] # Nil
    /\ Goto(k, "idle", IF client[k] \in open THEN "sent" ELSE "failed")
    /\ method' = [method EXCEPT ![k] = m]
    /\ path' = [path EXCEPT ![k] = Path[m]]
    /\ got' = [got EXCEPT ![k] = NoKey]
    /\ cut' = [cut EXCEPT ![k] = client[k] \notin open]
    /\ UNCHANGED <<vars, client, out, err>>

(****************************************************************************)
(* The server                                                               *)
(****************************************************************************)
(* The method that the handler of a path in the service description calls. *)
serviceDesc == [p \in {VPCPath, ContainerPath} |->
    IF p = VPCPath THEN "GetVPCAPIKey" ELSE "GetContainerAPIKey"]

(* The request cannot be decoded, the interceptor, if there is one, refuses *)
(* it, or the method fails; UnimplementedAPIKeyProviderServer always does.  *)
HandlerFails(k) ==
    /\ Goto(k, "sent", "refused")
    /\ UNCHANGED <<vars, client, method, path, out, err, got, cut>>

Handler(k) ==
    /\ Goto(k, "sent", "answered")
    /\ out' = [out EXCEPT ![k] = serviceDesc[path[k]]]
    /\ UNCHANGED <<vars, client, method, path, err, got, cut>>

(****************************************************************************)
(* Invoke returns when the answer has arrived over the open connection, or  *)
(* with an error when the server says so or the connection is lost.  The    *)
(* answer may have been filled in, wholly or in part, when Invoke fails.    *)
(****************************************************************************)
Report(k, from, e) ==
    /\ Goto(k, from, "returned")
    /\ err' = [err EXCEPT ![k] = e]
    /\ UNCHANGED <<vars, client, method, path, out, got>>

Answered(k) ==
    /\ client[k] \in open
    /\ Report(k, "answered", "nil")
    /\ UNCHANGED cut

Refused(k) ==
    /\ client[k] \in open
    /\ Report(k, "refused", "error")
    /\ UNCHANGED cut

UnderWay == {"sent", "refused", "answered", "failed"}

Broken(k) ==
    /\ client[k] \notin open /\ pc[k] \in UnderWay
    /\ Report(k, pc[k], "error")
    /\ UNCHANGED cut

(* The connection is lost without a Close: the peer or the network fails. *)
Lost(k) ==
    /\ client[k] \in open /\ pc[k] \in UnderWay
    /\ Report(k, pc[k], "error")
    /\ cut' = [cut EXCEPT ![k] = TRUE]

Deliver(k) == Answered(k) \/ Refused(k) \/ Broken(k)

(* Mutant: the error of Invoke is not looked at. *)
StubIgnoresError(k) == out[k]

StubReturn(k) == IF err[k] # "nil" THEN NoKey ELSE out[k]

(* The method of the stub returns; its variables are gone. *)
Return(k) ==
    /\ Goto(k, "returned", "idle")
    /\ got' = [got EXCEPT ![k] = StubReturn(k)]
    /\ path' = [path EXCEPT ![k] = "none"]
    /\ out' = [out EXCEPT ![k] = NewKey]
    /\ err' = [err EXCEPT ![k] = "nil"]
    /\ UNCHANGED <<vars, client, method, cut>>

(* A connection that is closed is lost to the calls that are under way. *)
SessionStep ==
    /\ Next
    /\ cut' = [k \in Callers |-> \/ cut[k]
                                 \/ pc[k] \in UnderWay /\ client[k] \notin open']
    /\ UNCHANGED <<client, pc, method, path, out, err, got>>

KeyNext ==
    \/ SessionStep
    \/ \E k \in Callers :
         \/ \E c \in Conns : NewAPIKeyProviderClient(k, c)
         \/ \E m \in Methods : Invoke(k, m)
         \/ HandlerFails(k) \/ Handler(k)
         \/ Deliver(k) \/ Lost(k) \/ Return(k)

(* Answers and broken connections are reported; the server may hang. *)
KeySpec ==
    /\ KeyInit
    /\ [][KeyNext]_<<vars, keyVars>>
    /\ \A k \in Callers :
         WF_<<vars, keyVars>>(Deliver(k)) /\ WF_<<vars, keyVars>>(Return(k))

-----------------------------------------------------------------------------
(****************************************************************************)
(* A key that a method of the stub returns was made by that method of the   *)
(* server: the paths of the client and the service description agree, and   *)
(* an empty key is never returned as one.                                   *)
(****************************************************************************)
KeyIsOwn == \A k \in Callers : got[k] # NoKey => got[k] = method[k]

(****************************************************************************)
(* A call whose connection was closed by another goroutine, or lost, before *)
(* Invoke returned gets no key, although the server may have answered and   *)
(* the answer may have been filled in.                                      *)
(****************************************************************************)
CutCallHasNoKey == \A k \in Callers : cut[k] => got[k] = NoKey

(****************************************************************************)
(* Close ends the calls on the connection of a session that dialled once,   *)
(* whoever made them, even if the server hangs.                             *)
(****************************************************************************)
CloseEndsCalls == \A k \in Callers :
    (/\ pc[k] # "idle"
     /\ \E s \in closed : connects[s] = 1 /\ client[k] = <<s, 1>>)
      ~> pc[k] = "idle"
=============================================================================
