----------------------------- MODULE MountHelper -----------------------------
(****************************************************************************)
(* pkg/mountmanager/mount_linux.go: MountEITBasedFileShare asks the mount-  *)
(* helper container, by an HTTP POST over a Unix socket, to mount a file    *)
(* share, and waits for the answer at most three minutes                    *)
(* (createMountHelperContainerRequest).                                     *)
(*                                                                          *)
(* External, modelled from how the code uses it: the container, which       *)
(* mounts or fails to, answers 200 only if it mounted, may hang or die, may *)
(* finish after the client has given up, and whose answer may not be the    *)
(* JSON the client expects.  The caller has one call per target at a time   *)
(* and calls again, with a new request ID, when a call failed.              *)
(****************************************************************************)
EXTENDS FiniteSets

CONSTANTS
    Requests,  \* the calls of MountEITBasedFileShare, one per request ID
    Targets    \* the target paths

VARIABLES
    target,    \* target[r]: the target path of call r
    result,    \* result[r]: "idle", "posted", or how the call returned
    described, \* the calls that returned the container's description
    server,    \* server[r]: what the container has done about it
    response   \* response[r]: what the client can read of an answer

vars == <<target, result, described, server, response>>

(* nil, or the error of client.Do (refused, timed out, cut off), of reading *)
(* or decoding the body, or of the status check.                            *)
Returns == {"nil", "refused", "timeout", "cut", "undecodable", "status"}

(* No answer yet, a connection that was cut, or a status and a body that is *)
(* or is not the JSON object expected.                                      *)
Responses == [status : {"none", "cut", "200", "500"}, json : BOOLEAN]
Response(status, json) == [status |-> status, json |-> json]

Init ==
    /\ target \in [Requests -> Targets]
    /\ result = [r \in Requests |-> "idle"]
    /\ described = {}
    /\ server = [r \in Requests |-> "none"]
    /\ response = [r \in Requests |-> Response("none", FALSE)]

SameTarget(r) == {q \in Requests \ {r} : target[q] = target[r]}

(****************************************************************************)
(* The client                                                               *)
(****************************************************************************)
Return(r, how) == result' = [result EXCEPT ![r] = how]

Idle(r) ==
    /\ result[r] = "idle"
    /\ \A q \in SameTarget(r) : result[q] # "posted"

(* Mutant: the request is sent and its answer not waited for. *)
PostAndForget(r) ==
    /\ Idle(r)
    /\ server' = [server EXCEPT ![r] = "working"]
    /\ Return(r, "nil")
    /\ UNCHANGED <<target, described, response>>

Post(r) ==
    /\ Idle(r)
    /\ server' = [server EXCEPT ![r] = "working"]
    /\ Return(r, "posted")
    /\ UNCHANGED <<target, described, response>>

(* Nobody listens on the socket. *)
Refused(r) ==
    /\ Idle(r)
    /\ Return(r, "refused")
    /\ UNCHANGED <<target, described, server, response>>

(* Mutant: no Timeout in the http.Client. *)
NoTimeout(r) == FALSE /\ UNCHANGED vars

(* The three minutes are over, whether or not an answer is there. *)
Timeout(r) ==
    /\ result[r] = "posted"
    /\ Return(r, "timeout")
    /\ UNCHANGED <<target, described, server, response>>

(* Mutant: the status is not looked at. *)
VerdictOfBody(resp) ==
    CASE resp.status = "cut" -> "cut"
      [] resp.status \in {"200", "500"} -> IF resp.json THEN "nil" ELSE "undecodable"

(* The body is read and decoded before the status is looked at. *)
Verdict(resp) ==
    CASE resp.status = "cut" -> "cut"
      [] resp.status \in {"200", "500"} /\ ~resp.json -> "undecodable"
      [] resp.status = "500" /\ resp.json -> "status"
      [] resp.status = "200" /\ resp.json -> "nil"

Receive(r) ==
    /\ result[r] = "posted"
    /\ response[r].status # "none"
    /\ Return(r, Verdict(response[r]))
    /\ described' = IF Verdict(response[r]) = "status" THEN described \cup {r}
                                                       ELSE described
    /\ UNCHANGED <<target, server, response>>

(****************************************************************************)
(* The mount-helper container                                               *)
(****************************************************************************)
Work(r) ==
    /\ server[r] = "working"
    /\ \E done \in {"mounted", "failed"} : server' = [server EXCEPT ![r] = done]
    /\ UNCHANGED <<target, result, described, response>>

Answer(r) ==
    /\ server[r] \in {"mounted", "failed"}
    /\ response[r].status = "none"
    /\ \E json \in BOOLEAN :
         response' = [response EXCEPT ![r] =
             Response(IF server[r] = "mounted" THEN "200" ELSE "500", json)]
    /\ UNCHANGED <<target, result, described, server>>

(* The container dies: what it was doing stops, its connections are cut. *)
ContainerDies ==
    /\ \E r \in Requests : server[r] = "working"
    /\ server' = [r \in Requests |-> IF server[r] = "working" THEN "dead" ELSE server[r]]
    /\ response' = [r \in Requests |->
          IF server[r] # "none" /\ response[r].status = "none"
          THEN Response("cut", FALSE) ELSE response[r]]
    /\ UNCHANGED <<target, result, described>>

ClientStep(r) == Post(r) \/ Refused(r) \/ Timeout(r) \/ Receive(r)

Next ==
    \/ \E r \in Requests : ClientStep(r) \/ Work(r) \/ Answer(r)
    \/ ContainerDies

Spec == Init /\ [][Next]_vars

(* The client's timer runs; of the container nothing is assumed. *)
FairSpec == Spec /\ \A r \in Requests : WF_vars(Timeout(r))

-----------------------------------------------------------------------------
(* The type of every variable. *)
TypeOK ==
    /\ target \in [Requests -> Targets]
    /\ result \in [Requests -> Returns \cup {"idle", "posted"}]
    /\ described \subseteq Requests
    /\ server \in [Requests -> {"none", "working", "mounted", "failed", "dead"}]
    /\ response \in [Requests -> Responses]

(****************************************************************************)
(* What the caller may conclude from the return of MountEITBasedFileShare:  *)
(* nil: the share is mounted; the error with the container's description:   *)
(* it is not; a refused connection: nothing was tried.  After any other     *)
(* error (time-out, connection cut, undecodable body) it may be mounted.    *)
(****************************************************************************)
ReturnIsTruthful == \A r \in Requests :
    /\ result[r] = "nil" => server[r] = "mounted"
    /\ r \in described => server[r] = "failed"
    /\ result[r] = "status" <=> r \in described
    /\ result[r] = "refused" => server[r] = "none"

(****************************************************************************)
(* The inductive form: the container knows of a call only after it was      *)
(* posted, and an answer agrees with what the container did.                *)
(****************************************************************************)
AnswersAgree == \A r \in Requests :
    /\ result[r] \in {"idle", "refused"} => server[r] = "none"
    /\ server[r] = "none" => response[r].status = "none"
    /\ response[r].status = "200" => server[r] = "mounted"
    /\ response[r].status = "500" => server[r] = "failed"

IndInv == TypeOK /\ AnswersAgree /\ ReturnIsTruthful

(****************************************************************************)
(* With one call per target at a time, the container never works on two     *)
(* requests for one target, unless a call gave up at the time-out and the   *)
(* caller tried again.                                                      *)
(****************************************************************************)
OverlapOnlyAfterTimeout == \A r \in Requests : \A q \in SameTarget(r) :
    server[r] = "working" /\ server[q] = "working"
        => "timeout" \in {result[r], result[q]}

(****************************************************************************)
(* Every call returns, though the container may hang with the request or    *)
(* never answer.                                                            *)
(****************************************************************************)
CallReturns == \A r \in Requests :
    result[r] = "posted" ~> result[r] \in Returns
=============================================================================
