------------------------- MODULE MountHelperProofs -------------------------
(****************************************************************************)
(* MountHelper for any number of calls and target paths.                    *)
(****************************************************************************)
EXTENDS MountHelper, TLAPS

(****************************************************************************)
(* Before the first call the container knows of nothing.                    *)
(****************************************************************************)
LEMMA InitTruthful == Init => IndInv
  BY DEF Init, IndInv, TypeOK, AnswersAgree, ReturnIsTruthful, Returns,
     Responses, Response

(****************************************************************************)
(* The client's steps, the container's work and answers, and its death,     *)
(* keep calls, work and answers in agreement.                               *)
(****************************************************************************)
LEMMA NextTruthful == IndInv /\ [Next]_vars => IndInv'
  <1> SUFFICES ASSUME IndInv, [Next]_vars PROVE IndInv'
    OBVIOUS
  <1> USE DEF IndInv, TypeOK, AnswersAgree, ReturnIsTruthful, Returns, Responses
  <1>1. ASSUME NEW r \in Requests, Post(r) PROVE IndInv'
    BY <1>1 DEF Post, Idle, Return
  <1>2. ASSUME NEW r \in Requests, Refused(r) PROVE IndInv'
    BY <1>2 DEF Refused, Idle, Return
  <1>3. ASSUME NEW r \in Requests, Timeout(r) PROVE IndInv'
    BY <1>3 DEF Timeout, Return
  <1>4. ASSUME NEW r \in Requests, Receive(r) PROVE IndInv'
    <2> DEFINE v == Verdict(response[r])
    <2>1. /\ v \in {"cut", "undecodable", "status", "nil"}
          /\ v = "nil" => response[r].status = "200"
          /\ v = "status" => response[r].status = "500"
      BY <1>4 DEF Receive, Verdict
    <2>2. r \notin described
      BY <1>4 DEF Receive
    <2>3. QED
      BY <1>4, <2>1, <2>2 DEF Receive, Return
  <1>5. ASSUME NEW r \in Requests, Work(r) PROVE IndInv'
    BY <1>5 DEF Work
  <1>6. ASSUME NEW r \in Requests, Answer(r) PROVE IndInv'
    BY <1>6 DEF Answer, Response
  <1>7. CASE ContainerDies
    BY <1>7 DEF ContainerDies, Response
  <1>8. CASE UNCHANGED vars
    BY <1>8 DEF vars
  <1>9. QED
    BY <1>1, <1>2, <1>3, <1>4, <1>5, <1>6, <1>7, <1>8 DEF Next, ClientStep

(****************************************************************************)
(* nil means mounted, the container's description means not mounted, and a  *)
(* refused connection means not tried, however calls, time-outs, late       *)
(* answers and deaths of the container interleave.                          *)
(****************************************************************************)
THEOREM MountIsTruthful == Spec => []ReturnIsTruthful
  <1>1. IndInv => ReturnIsTruthful
    BY DEF IndInv
  <1>2. QED
    BY <1>1, InitTruthful, NextTruthful, PTL DEF Spec

(****************************************************************************)
(* Calls, work and answers agree in every reachable state.                  *)
(****************************************************************************)
THEOREM MountAgrees == Spec => []IndInv
  BY InitTruthful, NextTruthful, PTL DEF Spec

-----------------------------------------------------------------------------
(****************************************************************************)
(* Overlaps.  The inductive form: of the calls for one target one at most   *)
(* waits for its answer, and the container works only on what somebody      *)
(* waits for, or gave up at the time-out.                                   *)
(****************************************************************************)
OneCallPerTarget == \A r \in Requests : \A q \in SameTarget(r) :
    ~ (result[r] = "posted" /\ result[q] = "posted")

WorkIsAwaited == \A r \in Requests : server[r] = "working" =>
    /\ response[r].status = "none"
    /\ result[r] \in {"posted", "timeout"}

OverlapInv == IndInv /\ OneCallPerTarget /\ WorkIsAwaited

(****************************************************************************)
(* A new call finds no other one for its target, and whatever ends a wait   *)
(* other than the time-out, an answer or a cut, follows the work's end.     *)
(****************************************************************************)
LEMMA NextOverlap == OverlapInv /\ [Next]_vars => OverlapInv'
  <1> SUFFICES ASSUME OverlapInv, [Next]_vars PROVE OverlapInv'
    OBVIOUS
  <1>0. IndInv'
    BY NextTruthful DEF OverlapInv
  <1> USE DEF OverlapInv, IndInv, TypeOK, OneCallPerTarget, WorkIsAwaited, SameTarget
  <1>1. ASSUME NEW r \in Requests, Post(r) PROVE OverlapInv'
    BY <1>0, <1>1 DEF Post, Idle, Return, AnswersAgree
  <1>2. ASSUME NEW r \in Requests, Refused(r) PROVE OverlapInv'
    BY <1>0, <1>2 DEF Refused, Idle, Return, AnswersAgree
  <1>3. ASSUME NEW r \in Requests, Timeout(r) PROVE OverlapInv'
    BY <1>0, <1>3 DEF Timeout, Return
  <1>4. ASSUME NEW r \in Requests, Receive(r) PROVE OverlapInv'
    <2>1. Verdict(response[r]) # "posted"
      BY <1>4 DEF Receive, Verdict, Responses
    <2>2. server[r] # "working"
      BY <1>4 DEF Receive
    <2>3. QED
      BY <1>0, <1>4, <2>1, <2>2 DEF Receive, Return
  <1>5. ASSUME NEW r \in Requests, Work(r) PROVE OverlapInv'
    BY <1>0, <1>5 DEF Work
  <1>6. ASSUME NEW r \in Requests, Answer(r) PROVE OverlapInv'
    BY <1>0, <1>6 DEF Answer
  <1>7. CASE ContainerDies
    <2>1. \A r \in Requests : server'[r] # "working"
      BY <1>7 DEF ContainerDies
    <2>2. WorkIsAwaited'
      BY <2>1
    <2>3. OneCallPerTarget'
      BY <1>7 DEF ContainerDies
    <2>4. QED
      BY <1>0, <2>2, <2>3
  <1>8. CASE UNCHANGED vars
    BY <1>0, <1>8 DEF vars
  <1>9. QED
    BY <1>1, <1>2, <1>3, <1>4, <1>5, <1>6, <1>7, <1>8 DEF Next, ClientStep

(****************************************************************************)
(* The container never works on two requests for one target, unless a call  *)
(* gave up at the time-out, for any number of calls.                        *)
(****************************************************************************)
THEOREM MountsOverlapAfterTimeout == Spec => []OverlapOnlyAfterTimeout
  <1>1. Init => OverlapInv
    BY InitTruthful DEF Init, OverlapInv, OneCallPerTarget, WorkIsAwaited
  <1>2. OverlapInv => OverlapOnlyAfterTimeout
    BY DEF OverlapInv, OneCallPerTarget, WorkIsAwaited, OverlapOnlyAfterTimeout, SameTarget
  <1>3. QED
    BY <1>1, <1>2, NextOverlap, PTL DEF Spec
=============================================================================
