------------------------- MODULE KeyProviderProofs -------------------------
(****************************************************************************)
(* KeyProvider, and the GrpcSession it extends, for any number of sessions, *)
(* callers and connects.                                                    *)
(****************************************************************************)
EXTENDS KeyProvider, TLAPS

(****************************************************************************)
(* A session keeps nothing or a connection it dialled; what is open was     *)
(* dialled; and a session that dialled once has at most the one it keeps    *)
(* open, which is why its Close finds it.                                   *)
(****************************************************************************)
ConnsOf(s) == {s} \X (1 .. MaxConnects)

SessionTypes ==
    /\ conn \in [Sessions -> Conns \cup {Nil}]
    /\ connects \in [Sessions -> Nat]
    /\ closed \subseteq Sessions
    /\ \A s \in Sessions : conn[s] \in ConnsOf(s) \cup {Nil}
    /\ \A s \in Sessions : conn[s] # Nil => conn[s][2] <= connects[s]
    /\ \A c \in open : c \in Conns /\ c[2] <= connects[c[1]]

KeepsFirst == \A s \in Sessions :
    connects[s] <= 1 => OpenedBy(s) \subseteq {conn[s]}

SessionInv == SessionTypes /\ KeepsFirst /\ CloseEndsSingleUse

(****************************************************************************)
(* The fields of a connection; Nil is none.                                 *)
(****************************************************************************)
LEMMA ConnFields ==
  /\ Nil \notin Conns
  /\ \A c \in Conns : c[1] \in Sessions /\ c[2] \in 1 .. MaxConnects /\ c = <<c[1], c[2]>>
  /\ \A s \in Sessions : ConnsOf(s) \subseteq Conns /\ \A c \in ConnsOf(s) : c[1] = s
  BY DEF Nil, Conns, ConnsOf

(****************************************************************************)
(* Connect, for the session itself or for GrpcDial of another.              *)
(****************************************************************************)
LEMMA ConnectStep ==
  ASSUME SessionInv, NEW s \in Sessions, Connect(s)
  PROVE  SessionInv' /\ open \subseteq open'
  <1> DEFINE new == <<s, connects[s] + 1>>
  <1>1. PICK c \in Conns \cup {Nil} :
           /\ c \in {new, Nil}
           /\ connects[s] < MaxConnects
           /\ connects' = [connects EXCEPT ![s] = @ + 1]
           /\ conn' = [conn EXCEPT ![s] = c]
           /\ open' = open \cup ({c} \ {Nil})
           /\ closed' = closed \ {s}
    BY DEF Connect, Dial
  <1>2. connects[s] \in Nat /\ connects'[s] = connects[s] + 1
    BY <1>1 DEF SessionInv, SessionTypes
  <1>3. new \in ConnsOf(s) /\ new[1] = s /\ new[2] = connects'[s]
    BY <1>1, <1>2, MaxConnectsAssumption DEF ConnsOf
  <1> HIDE DEF new
  <1>4. \A x \in open' : x = new \/ x \in open
    BY <1>1
  <1>5. SessionTypes'
    <2>1. conn' \in [Sessions -> Conns \cup {Nil}] /\ connects' \in [Sessions -> Nat]
      BY <1>1 DEF SessionInv, SessionTypes
    <2>2. closed' \subseteq Sessions
      BY <1>1 DEF SessionInv, SessionTypes
    <2>3. \A r \in Sessions : conn'[r] \in ConnsOf(r) \cup {Nil}
      BY <1>1, <1>3 DEF SessionInv, SessionTypes
    <2>4. ASSUME NEW x \in open' PROVE x \in Conns /\ x[2] <= connects'[x[1]]
      <3>1. CASE x = new
        BY <1>2, <1>3, <3>1, ConnFields
      <3>2. CASE x \in open
        <4>1. x \in Conns /\ x[2] \in Nat /\ x[1] \in Sessions /\ x[2] <= connects[x[1]]
          BY <3>2, ConnFields DEF SessionInv, SessionTypes
        <4>2. connects[x[1]] \in Nat /\ connects[x[1]] <= connects'[x[1]]
          BY <1>1, <4>1 DEF SessionInv, SessionTypes
        <4>3. connects'[x[1]] \in Nat
          BY <2>1, <4>1
        <4>4. QED
          BY <4>1, <4>2, <4>3
      <3>3. QED
        BY <1>4, <3>1, <3>2
    <2>5. ASSUME NEW r \in Sessions, conn'[r] # Nil PROVE conn'[r][2] <= connects'[r]
      <3>1. CASE r = s
        <4>1. conn'[s] = new
          BY <1>1, <2>5, <3>1 DEF SessionInv, SessionTypes
        <4>2. QED
          BY <1>2, <1>3, <3>1, <4>1
      <3>2. CASE r # s
        BY <1>1, <2>5, <3>2 DEF SessionInv, SessionTypes
      <3>3. QED
        BY <3>1, <3>2
    <2>6. QED
      BY <2>1, <2>2, <2>3, <2>4, <2>5 DEF SessionTypes
  <1>6. KeepsFirst'
    <2> SUFFICES ASSUME NEW r \in Sessions, connects'[r] <= 1,
                        NEW x \in open', x[1] = r
                 PROVE  x = conn'[r]
      BY DEF KeepsFirst, OpenedBy
    <2>1. CASE r = s
      <3>1. connects[s] = 0
        BY <1>2, <2>1
      <3>2. x \notin open
        BY <2>1, <3>1, ConnFields DEF SessionInv, SessionTypes
      <3>3. x = c
        BY <1>1, <3>2
      <3>4. QED
        BY <1>1, <2>1, <3>3 DEF SessionInv, SessionTypes
    <2>2. CASE r # s
      <3>1. x \in open
        BY <1>3, <1>4, <2>2
      <3>2. connects'[r] = connects[r] /\ conn'[r] = conn[r]
        BY <1>1, <2>2 DEF SessionInv, SessionTypes
      <3>3. QED
        BY <3>1, <3>2 DEF SessionInv, KeepsFirst, OpenedBy
    <2>3. QED
      BY <2>1, <2>2
  <1>7. CloseEndsSingleUse'
    <2> SUFFICES ASSUME NEW r \in closed', connects'[r] <= 1,
                        NEW x \in open', x[1] = r
                 PROVE  FALSE
      BY DEF CloseEndsSingleUse, OpenedBy
    <2>1. r \in closed /\ r # s /\ r \in Sessions
      BY <1>1 DEF SessionInv, SessionTypes
    <2>2. x \in open
      BY <1>3, <1>4, <2>1
    <2>3. connects'[r] = connects[r]
      BY <1>1, <2>1 DEF SessionInv, SessionTypes
    <2>4. QED
      BY <2>1, <2>2, <2>3 DEF SessionInv, CloseEndsSingleUse, OpenedBy
  <1>8. QED
    BY <1>1, <1>5, <1>6, <1>7 DEF SessionInv

(****************************************************************************)
(* Close.                                                                   *)
(****************************************************************************)
LEMMA CloseStep ==
  ASSUME SessionInv, NEW s \in Sessions, Close(s)
  PROVE  SessionInv' /\ \A c \in open \ open' : c[1] \in closed'
  <1>1. /\ open' = open \ {conn[s]} /\ closed' = closed \cup {s}
        /\ conn' = conn /\ connects' = connects
    BY DEF Close
  <1>2. SessionTypes'
    BY <1>1 DEF SessionInv, SessionTypes
  <1>3. KeepsFirst'
    BY <1>1 DEF SessionInv, KeepsFirst, OpenedBy
  <1>4. CloseEndsSingleUse'
    <2> SUFFICES ASSUME NEW r \in closed', connects'[r] <= 1,
                        NEW x \in open', x[1] = r
                 PROVE  FALSE
      BY DEF CloseEndsSingleUse, OpenedBy
    <2>1. x \in open /\ x # conn[s] /\ connects[r] <= 1
      BY <1>1
    <2>2. CASE r \in closed
      BY <2>1, <2>2 DEF SessionInv, CloseEndsSingleUse, OpenedBy
    <2>3. CASE r = s
      BY <2>1, <2>3 DEF SessionInv, KeepsFirst, OpenedBy
    <2>4. QED
      BY <1>1, <2>2, <2>3
  <1>5. ASSUME NEW c \in open \ open' PROVE c[1] \in closed'
    <2>1. c = conn[s] /\ c \in Conns
      BY <1>1 DEF SessionInv, SessionTypes
    <2>2. c \in ConnsOf(s)
      BY <2>1, ConnFields DEF SessionInv, SessionTypes
    <2>3. QED
      BY <1>1, <2>2, ConnFields
  <1>6. QED
    BY <1>2, <1>3, <1>4, <1>5 DEF SessionInv

(****************************************************************************)
(* Every step of the sessions keeps their invariant and closes only what    *)
(* belongs to the session that is closed.                                   *)
(****************************************************************************)
LEMMA SessionSteps ==
  ASSUME SessionInv, [Next]_vars
  PROVE  SessionInv' /\ [\A c \in open \ open' : c[1] \in closed']_vars
  <1>1. CASE UNCHANGED vars
    BY <1>1 DEF vars, SessionInv, SessionTypes, KeepsFirst, CloseEndsSingleUse, OpenedBy
  <1>2. CASE Next
    BY <1>2, ConnectStep, CloseStep DEF Next, GrpcDial
  <1>3. QED
    BY <1>1, <1>2

(****************************************************************************)
(* In KeyProvider's steps the sessions make a step of their own or none.    *)
(****************************************************************************)
LEMMA KeyStepIsSessionStep == [KeyNext]_<<vars, keyVars>> => [Next]_vars
  BY DEF KeyNext, SessionStep, NewAPIKeyProviderClient, Invoke, HandlerFails, Handler,
     Deliver, Answered, Refused, Broken, Lost, Report, Return

(****************************************************************************)
(* The sessions' invariant holds in every state of KeyProvider.             *)
(****************************************************************************)
LEMMA SessionInduction == KeySpec => []SessionInv
  <1>1. KeyInit => SessionInv
    <2> SUFFICES ASSUME Init PROVE SessionInv
      BY DEF KeyInit
    <2>1. SessionTypes
      BY DEF Init, SessionTypes
    <2>2. KeepsFirst /\ CloseEndsSingleUse
      BY DEF Init, KeepsFirst, CloseEndsSingleUse, OpenedBy
    <2>3. QED
      BY <2>1, <2>2 DEF SessionInv
  <1>2. QED
    BY <1>1, KeyStepIsSessionStep, SessionSteps, PTL DEF KeySpec

(****************************************************************************)
(* A session that dialled once and was closed has nothing open, whoever     *)
(* asked it to dial.                                                        *)
(****************************************************************************)
THEOREM SingleUseIsClosed == KeySpec => []CloseEndsSingleUse
  <1>1. SessionInv => CloseEndsSingleUse
    BY DEF SessionInv
  <1>2. QED
    BY <1>1, SessionInduction, PTL

(****************************************************************************)
(* No step closes a connection but a Close of the session that dialled it.  *)
(****************************************************************************)
THEOREM OthersAreKept == KeySpec => CloseKeepsOthers
  <1>1. QED
    BY SessionInduction, KeyStepIsSessionStep, SessionSteps, PTL DEF KeySpec, CloseKeepsOthers

-----------------------------------------------------------------------------
(****************************************************************************)
(* The connection of a stub was dialled, so that no later one is the same.  *)
(****************************************************************************)
ClientDialled == \A k \in Callers :
    client[k] # Nil => client[k] \in Conns /\ client[k][2] <= connects[client[k][1]]

(****************************************************************************)
(* A request names the path of the method that was called, until its call   *)
(* returns, and the answer that is on its way is of that method; a call     *)
(* that lost its connection finds it closed until Invoke has returned an    *)
(* error; and while a call lasts it has returned nothing.                   *)
(****************************************************************************)
CallInv(k) ==
    /\ pc[k] = "sent" => method[k] \in Methods /\ path[k] = Path[method[k]]
    /\ pc[k] = "answered" => out[k] = method[k]
    /\ pc[k] = "returned" /\ err[k] = "nil" => out[k] = method[k] /\ ~cut[k]
    /\ pc[k] \in UnderWay /\ cut[k] => client[k] \notin open
    /\ pc[k] # "idle" => got[k] = NoKey

KeyTypes ==
    /\ client \in [Callers -> Conns \cup {Nil}]
    /\ pc \in [Callers -> {"idle", "returned"} \cup UnderWay]
    /\ cut \in [Callers -> BOOLEAN]
    /\ DOMAIN method = Callers /\ DOMAIN path = Callers /\ DOMAIN out = Callers
    /\ DOMAIN err = Callers /\ DOMAIN got = Callers

KeyInv ==
    /\ KeyTypes /\ ClientDialled
    /\ \A k \in Callers : CallInv(k)
    /\ KeyIsOwn /\ CutCallHasNoKey

(****************************************************************************)
(* The service description undoes the path of the stub: no method of the    *)
(* client reaches the other one of the server.                              *)
(****************************************************************************)
LEMMA PathIsServed == \A m \in Methods : serviceDesc[Path[m]] = m
  BY DEF Methods, Path, serviceDesc, VPCPath, ContainerPath

(****************************************************************************)
(* No session dials a connection again that a stub has.                     *)
(****************************************************************************)
LEMMA ClosedStaysClosed ==
  ASSUME SessionInv, ClientDialled, Next, NEW k \in Callers, client[k] # Nil,
         client[k] \notin open
  PROVE  client[k] \notin open'
  <1>1. ASSUME NEW s \in Sessions, Connect(s) PROVE client[k] \notin open'
    <2>1. PICK c : /\ c \in {<<s, connects[s] + 1>>, Nil}
                   /\ open' = open \cup ({c} \ {Nil})
      BY <1>1 DEF Connect, Dial
    <2>2. client[k] # <<s, connects[s] + 1>>
      BY ConnFields DEF ClientDialled, SessionInv, SessionTypes
    <2>3. QED
      BY <2>1, <2>2
  <1>2. ASSUME NEW s \in Sessions, Close(s) PROVE client[k] \notin open'
    BY <1>2 DEF Close
  <1>3. QED
    BY <1>1, <1>2 DEF Next, GrpcDial

LEMMA DialsGrow ==
  ASSUME SessionInv, Next, NEW s \in Sessions
  PROVE  connects[s] \in Nat /\ connects'[s] \in Nat /\ connects[s] <= connects'[s]
  <1>1. ASSUME NEW r \in Sessions, Connect(r) PROVE connects' = [connects EXCEPT ![r] = @ + 1]
    BY <1>1 DEF Connect, Dial
  <1>2. ASSUME NEW r \in Sessions, Close(r) PROVE connects' = connects
    BY <1>2 DEF Close
  <1>3. QED
    BY <1>1, <1>2 DEF Next, GrpcDial, SessionInv, SessionTypes

(****************************************************************************)
(* A step of the sessions.                                                  *)
(****************************************************************************)
LEMMA KeySessionStep ==
  ASSUME SessionInv, KeyInv, SessionStep
  PROVE  KeyInv'
  <1>1. /\ Next
        /\ cut' = [k \in Callers |-> \/ cut[k]
                                     \/ pc[k] \in UnderWay /\ client[k] \notin open']
        /\ UNCHANGED <<client, pc, method, path, out, err, got>>
    BY DEF SessionStep
  <1>2. KeyTypes'
    BY <1>1 DEF KeyInv, KeyTypes
  <1>3. ClientDialled'
    <2> SUFFICES ASSUME NEW k \in Callers, client[k] # Nil
                 PROVE  client[k] \in Conns /\ client[k][2] <= connects'[client[k][1]]
      BY <1>1 DEF ClientDialled
    <2>1. client[k] \in Conns /\ client[k][2] <= connects[client[k][1]]
      BY DEF KeyInv, ClientDialled
    <2>2. client[k][1] \in Sessions /\ client[k][2] \in Nat
      BY <2>1, ConnFields
    <2>3. QED
      BY <1>1, <2>1, <2>2, DialsGrow
  <1>4. ASSUME NEW k \in Callers
        PROVE  CallInv(k)' /\ (cut'[k] => got'[k] = NoKey)
    <2>1. CallInv(k) /\ (cut[k] => got[k] = NoKey)
      BY DEF KeyInv, CutCallHasNoKey
    <2>2. cut'[k] <=> (cut[k] \/ (pc[k] \in UnderWay /\ client[k] \notin open'))
      BY <1>1
    <2>3. Nil \notin open'
      BY <1>1, SessionSteps, ConnFields DEF SessionInv, SessionTypes
    <2>4. client[k] \notin open => client[k] \notin open'
      BY <1>1, <2>3, ClosedStaysClosed DEF KeyInv
    <2>5. CallInv(k)'
      BY <1>1, <2>1, <2>2, <2>4 DEF CallInv, UnderWay
    <2>6. QED
      BY <1>1, <2>1, <2>2, <2>5 DEF CallInv, UnderWay
  <1>5. KeyIsOwn' /\ CutCallHasNoKey'
    BY <1>1, <1>4 DEF KeyInv, KeyIsOwn, CutCallHasNoKey
  <1>6. QED
    BY <1>2, <1>3, <1>4, <1>5 DEF KeyInv

(****************************************************************************)
(* A caller's own step leaves the others as they are: it is enough to look  *)
(* at that caller.                                                          *)
(****************************************************************************)
LEMMA OneCalls ==
  ASSUME KeyInv, KeyTypes', ClientDialled', NEW k \in Callers, UNCHANGED vars,
         \A j \in Callers : j # k =>
           /\ client'[j] = client[j] /\ pc'[j] = pc[j] /\ method'[j] = method[j]
           /\ path'[j] = path[j] /\ out'[j] = out[j] /\ err'[j] = err[j]
           /\ got'[j] = got[j] /\ cut'[j] = cut[j],
         CallInv(k)', got'[k] # NoKey => got'[k] = method'[k], cut'[k] => got'[k] = NoKey
  PROVE  KeyInv'
  <1>1. open' = open
    BY DEF vars
  <1>2. \A j \in Callers : CallInv(j)'
    BY <1>1 DEF KeyInv, CallInv
  <1>3. KeyIsOwn' /\ CutCallHasNoKey'
    BY DEF KeyInv, KeyIsOwn, CutCallHasNoKey
  <1>4. QED
    BY <1>2, <1>3 DEF KeyInv

(****************************************************************************)
(* Every step of a call keeps the invariant of the keys.                    *)
(****************************************************************************)
LEMMA KeySteps ==
  ASSUME SessionInv, KeyInv, NEW k \in Callers,
         \/ \E c \in Conns : NewAPIKeyProviderClient(k, c)
         \/ \E m \in Methods : Invoke(k, m)
         \/ HandlerFails(k) \/ Handler(k)
         \/ Deliver(k) \/ Lost(k) \/ Return(k)
  PROVE  KeyInv'
  <1>0. /\ KeyTypes /\ ClientDialled /\ CallInv(k)
        /\ got[k] # NoKey => got[k] = method[k]
        /\ cut[k] => got[k] = NoKey
    BY DEF KeyInv, KeyIsOwn, CutCallHasNoKey
  <1>1. ASSUME NEW c \in Conns, NewAPIKeyProviderClient(k, c) PROVE KeyInv'
    <2>1. /\ pc[k] = "idle" /\ c \in open \cup {conn[s] : s \in Sessions}
          /\ client' = [client EXCEPT ![k] = c]
          /\ UNCHANGED <<vars, pc, method, path, out, err, got, cut>>
      BY <1>1 DEF NewAPIKeyProviderClient
    <2>2. c[2] <= connects[c[1]]
      <3>1. CASE c \in open
        BY <3>1 DEF SessionInv, SessionTypes
      <3>2. ASSUME NEW s \in Sessions, c = conn[s] PROVE c[2] <= connects[c[1]]
        BY <3>2, ConnFields DEF SessionInv, SessionTypes
      <3>3. QED
        BY <2>1, <3>1, <3>2
    <2>3. KeyTypes' /\ ClientDialled'
      BY <1>0, <2>1, <2>2 DEF KeyTypes, ClientDialled, vars
    <2>4. CallInv(k)'
      BY <1>0, <2>1 DEF CallInv, UnderWay
    <2>5. QED
      BY <1>0, <2>1, <2>3, <2>4, OneCalls DEF KeyTypes
  <1>2. ASSUME NEW m \in Methods, Invoke(k, m) PROVE KeyInv'
    <2>1. /\ pc' = [pc EXCEPT ![k] = IF client[k] \in open THEN "sent" ELSE "failed"]
          /\ method' = [method EXCEPT ![k] = m]
          /\ path' = [path EXCEPT ![k] = Path[m]]
          /\ got' = [got EXCEPT ![k] = NoKey]
          /\ cut' = [cut EXCEPT ![k] = client[k] \notin open]
          /\ UNCHANGED <<vars, client, out, err>>
      BY <1>2 DEF Invoke, Goto
    <2>2. KeyTypes' /\ ClientDialled'
      BY <1>0, <2>1 DEF KeyTypes, ClientDialled, vars, UnderWay
    <2>3. CallInv(k)'
      BY <1>0, <2>1 DEF CallInv, KeyTypes, UnderWay, vars
    <2>4. QED
      BY <1>0, <2>1, <2>2, <2>3, OneCalls DEF KeyTypes
  <1>3. CASE HandlerFails(k)
    <2>1. /\ pc[k] = "sent" /\ pc' = [pc EXCEPT ![k] = "refused"]
          /\ UNCHANGED <<vars, client, method, path, out, err, got, cut>>
      BY <1>3 DEF HandlerFails, Goto
    <2>2. KeyTypes' /\ ClientDialled'
      BY <1>0, <2>1 DEF KeyTypes, ClientDialled, vars, UnderWay
    <2>3. CallInv(k)'
      BY <1>0, <2>1 DEF CallInv, KeyTypes, UnderWay, vars
    <2>4. QED
      BY <1>0, <2>1, <2>2, <2>3, OneCalls DEF KeyTypes
  <1>4. CASE Handler(k)
    <2>1. /\ pc[k] = "sent" /\ pc' = [pc EXCEPT ![k] = "answered"]
          /\ out' = [out EXCEPT ![k] = serviceDesc[path[k]]]
          /\ UNCHANGED <<vars, client, method, path, err, got, cut>>
      BY <1>4 DEF Handler, Goto
    <2>2. serviceDesc[path[k]] = method[k]
      BY <1>0, <2>1, PathIsServed DEF CallInv
    <2>3. KeyTypes' /\ ClientDialled'
      BY <1>0, <2>1 DEF KeyTypes, ClientDialled, vars, UnderWay
    <2>4. CallInv(k)'
      BY <1>0, <2>1, <2>2 DEF CallInv, KeyTypes, UnderWay, vars
    <2>5. QED
      BY <1>0, <2>1, <2>3, <2>4, OneCalls DEF KeyTypes
  <1>5. ASSUME NEW e, NEW lost \in BOOLEAN, pc[k] \in UnderWay, Report(k, pc[k], e),
               cut' = [cut EXCEPT ![k] = lost],
               e = "nil" => out[k] = method[k] /\ ~lost
        PROVE  KeyInv'
    <2>1. /\ pc' = [pc EXCEPT ![k] = "returned"]
          /\ err' = [err EXCEPT ![k] = e]
          /\ UNCHANGED <<vars, client, method, path, out, got>>
      BY <1>5 DEF Report, Goto
    <2>2. KeyTypes' /\ ClientDialled'
      BY <1>0, <1>5, <2>1 DEF KeyTypes, ClientDialled, vars
    <2>3. CallInv(k)'
      BY <1>0, <1>5, <2>1 DEF CallInv, KeyTypes, UnderWay, vars
    <2>4. got'[k] = NoKey
      BY <1>0, <1>5, <2>1 DEF CallInv, UnderWay
    <2>5. QED
      BY <1>0, <1>5, <2>1, <2>2, <2>3, <2>4, OneCalls DEF KeyTypes
  <1>6. cut[k] \in BOOLEAN /\ cut = [cut EXCEPT ![k] = cut[k]]
    BY <1>0 DEF KeyTypes
  <1>7. CASE Answered(k)
    <2>1. pc[k] = "answered" /\ client[k] \in open /\ Report(k, pc[k], "nil") /\ cut' = cut
      BY <1>7 DEF Answered, Report, Goto
    <2>2. out[k] = method[k] /\ ~cut[k] /\ pc[k] \in UnderWay
      BY <1>0, <2>1 DEF CallInv, UnderWay
    <2>3. QED
      BY <1>5, <1>6, <2>1, <2>2
  <1>8. CASE Refused(k) \/ Broken(k)
    <2>1. pc[k] \in UnderWay /\ Report(k, pc[k], "error") /\ cut' = cut
      BY <1>8 DEF Refused, Broken, Report, Goto, UnderWay
    <2>2. QED
      BY <1>5, <1>6, <2>1
  <1>9. CASE Lost(k)
    BY <1>5, <1>9 DEF Lost
  <1>10. CASE Return(k)
    <2>1. /\ pc[k] = "returned" /\ pc' = [pc EXCEPT ![k] = "idle"]
          /\ got' = [got EXCEPT ![k] = StubReturn(k)]
          /\ path' = [path EXCEPT ![k] = "none"]
          /\ out' = [out EXCEPT ![k] = NewKey]
          /\ err' = [err EXCEPT ![k] = "nil"]
          /\ UNCHANGED <<vars, client, method, cut>>
      BY <1>10 DEF Return, Goto
    <2>2. KeyTypes' /\ ClientDialled'
      BY <1>0, <2>1 DEF KeyTypes, ClientDialled, vars
    <2>3. CallInv(k)'
      BY <1>0, <2>1 DEF CallInv, KeyTypes, UnderWay
    <2>4. StubReturn(k) # NoKey => StubReturn(k) = method[k] /\ ~cut[k]
      BY <1>0, <2>1 DEF StubReturn, CallInv
    <2>5. (got'[k] # NoKey => got'[k] = method'[k]) /\ (cut'[k] => got'[k] = NoKey)
      BY <1>0, <2>1, <2>4 DEF KeyTypes
    <2>6. QED
      BY <1>0, <2>1, <2>2, <2>3, <2>5, OneCalls DEF KeyTypes
  <1>11. QED
    BY <1>1, <1>2, <1>3, <1>4, <1>7, <1>8, <1>9, <1>10 DEF Deliver

(****************************************************************************)
(* The invariant of the keys holds in every state.                          *)
(****************************************************************************)
LEMMA KeyInduction == KeySpec => []KeyInv
  <1>1. KeyInit => KeyInv
    BY DEF KeyInit, KeyInv, KeyTypes, ClientDialled, CallInv, UnderWay, KeyIsOwn, CutCallHasNoKey
  <1>2. SessionInv /\ KeyInv /\ [KeyNext]_<<vars, keyVars>> => KeyInv'
    <2> SUFFICES ASSUME SessionInv, KeyInv, [KeyNext]_<<vars, keyVars>> PROVE KeyInv'
      OBVIOUS
    <2>1. CASE UNCHANGED <<vars, keyVars>>
      BY <2>1 DEF vars, keyVars, KeyInv, KeyTypes, ClientDialled, CallInv, KeyIsOwn, CutCallHasNoKey
    <2>2. QED
      BY <2>1, KeySessionStep, KeySteps DEF KeyNext
  <1>3. QED
    BY <1>1, <1>2, SessionInduction, PTL DEF KeySpec

(****************************************************************************)
(* A key that a method of the stub returns was made by that method of the   *)
(* server, for any number of callers that share connections.                *)
(****************************************************************************)
THEOREM CallersGetTheirKey == KeySpec => []KeyIsOwn
  <1>1. KeyInv => KeyIsOwn
    BY DEF KeyInv
  <1>2. QED
    BY <1>1, KeyInduction, PTL

(****************************************************************************)
(* A call whose connection was closed or lost under it returns no key,      *)
(* however far the answer had come.                                         *)
(****************************************************************************)
THEOREM CutCallsGetNoKey == KeySpec => []CutCallHasNoKey
  <1>1. KeyInv => CutCallHasNoKey
    BY DEF KeyInv
  <1>2. QED
    BY <1>1, KeyInduction, PTL
=============================================================================
