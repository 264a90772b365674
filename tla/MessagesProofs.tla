--------------------------- MODULE MessagesProofs ---------------------------
(****************************************************************************)
(* Messages for any number of handlers, whatever codes they report.         *)
(****************************************************************************)
EXTENDS Messages, TLAPS

(****************************************************************************)
(* The entries of one type.                                                 *)
(****************************************************************************)
LEMMA EntriesOfType ==
  ASSUME NEW type, NEW codes
  PROVE  /\ \A e \in Entries(type, codes) : e.type = type
         /\ \A c \in codes : \E e \in Entries(type, codes) : e.code = c
  <1>1. \A e \in Entries(type, codes) : e.type = type
    BY DEF Entries
  <1>2. ASSUME NEW c \in codes PROVE \E e \in Entries(type, codes) : e.code = c
    <2> DEFINE e == [code |-> c, type |-> type]
    <2>1. e \in Entries(type, codes) /\ e.code = c
      BY DEF Entries
    <2> HIDE DEF e
    <2>2. QED
      BY <2>1
  <1>3. QED
    BY <1>1, <1>2

(****************************************************************************)
(* No entry of the table has the type OK.                                   *)
(****************************************************************************)
LEMMA EntriesAreErrors == \A e \in messagesEn : e.type # "OK"
  <1>1. \A e \in FirstMessages : e.type # "OK"
    BY EntriesOfType DEF FirstMessages
  <1>2. \A e \in SecondMessages : e.type # "OK"
    BY EntriesOfType DEF SecondMessages
  <1>3. \A e \in ThirdMessages : e.type # "OK"
    BY EntriesOfType DEF ThirdMessages
  <1>4. QED
    BY <1>1, <1>2, <1>3 DEF messagesEn

(****************************************************************************)
(* Every reason code has an entry.                                          *)
(****************************************************************************)
LEMMA EveryCodeHasEntry == \A c \in ReasonCodes : \E e \in messagesEn : e.code = c
  <1> DEFINE
        FirstCodes ==
          {"MethodUnimplemented", "MethodUnsupported", "MissingVolumeName",
           "MissingSnapshotName", "MissingSourceVolumeID",
           "UnsupportedVolumeContentSource", "NoVolumeCapabilities",
           "VolumeCapabilitiesNotSupported", "InvalidParameters",
           "VolumeInvalidArguments", "EmptyVolumeID", "EmptySnapshotID",
           "EmptyNodeID", "ObjectNotFound", "InternalError",
           "VolumeCreationFailed", "VolumeAlreadyExists",
           "SnapshotAlreadyExists", "EndpointNotReachable", "Timeout"}
        SecondCodes ==
          {"ProfileNotAllowlisted", "FailedPrecondition",
           "MountPointValidateError", "NoStagingTargetPath", "NoTargetPath",
           "EmptyDevicePath", "EmptyVolumePath", "UnmountFailed",
           "MountFailed", "DevicePathFindFailed", "DevicePathNotFound",
           "TargetPathCheckFailed", "TargetPathCreateFailed",
           "VolumeMountCheckFailed", "FormatAndMountFailed",
           "BlockDeviceCheckFailed", "NodeMetadataInitFailed",
           "DevicePathNotExists"}
        ThirdCodes ==
          {"GetDeviceInfoFailed", "GetFSInfoFailed", "RemoveMountTargetFailed",
           "CreateMountTargetFailed", "MountingTargetFailed",
           "MetadataServiceNotEnabled", "ListVolumesFailed",
           "ListSnapshotsFailed", "FileSystemResizeFailed",
           "DriverNotConfigured", "UnresponsiveMountHelperContainerUtility",
           "StartVolumeIDNotFound", "StartSnapshotIDNotFound",
           "VolumePathNotMounted", "SubnetIDListNotFound", "SubnetFindFailed"}
  <1>1. \A c \in FirstCodes : \E e \in FirstMessages : e.code = c
    BY EntriesOfType DEF FirstMessages
  <1>2. \A c \in SecondCodes : \E e \in SecondMessages : e.code = c
    BY EntriesOfType DEF SecondMessages
  <1>3. \A c \in ThirdCodes : \E e \in ThirdMessages : e.code = c
    BY EntriesOfType DEF ThirdMessages
  <1>4. ReasonCodes \subseteq FirstCodes \cup SecondCodes \cup ThirdCodes
    BY DEF ReasonCodes
  <1> HIDE DEF FirstCodes, SecondCodes, ThirdCodes
  <1>5. QED
    BY <1>1, <1>2, <1>3, <1>4 DEF messagesEn

(* The messages the handlers build. *)
Types == {e.type : e \in messagesEn} \cup {"OK"}

MessageSet == [Code : ReasonCodes \cup {""}, Type : Types, RequestID : Handlers \cup {""},
               BackendError : Causes, CSIError : Causes]

(****************************************************************************)
(* The message of a reason code is an error and speaks of no request yet.   *)
(****************************************************************************)
LEMMA TableMessage ==
  ASSUME NEW code \in ReasonCodes
  PROVE  /\ InitMessages[code] \in MessageSet
         /\ InitMessages[code].Type # "OK"
         /\ InitMessages[code].BackendError = "" /\ InitMessages[code].CSIError = ""
  <1> DEFINE entries == {e \in messagesEn : e.code = code}
             type == (CHOOSE e \in entries : TRUE).type
  <1>1. entries # {}
    BY EveryCodeHasEntry
  <1>2. (CHOOSE e \in entries : TRUE) \in entries
    BY <1>1
  <1>3. type # "OK" /\ type \in Types
    BY <1>2, EntriesAreErrors DEF Types
  <1>4. InitMessages[code] = [NoMessage EXCEPT !.Code = CodeOf(code), !.Type = type]
    BY <1>1 DEF InitMessages
  <1>5. PICK t \in Types :
           /\ t # "OK"
           /\ InitMessages[code] = [NoMessage EXCEPT !.Code = CodeOf(code), !.Type = t]
    BY <1>3, <1>4, Zenon
  <1> DEFINE m == [Code |-> CodeOf(code), Type |-> t, RequestID |-> "",
                   BackendError |-> "", CSIError |-> ""]
  <1>6. InitMessages[code] = m
    BY <1>5 DEF NoMessage
  <1>7. CodeOf(code) \in ReasonCodes /\ "" \in Causes
    BY DEF CodeOf, ReasonCodes, Causes
  <1>8. m \in MessageSet /\ m.Type = t /\ m.BackendError = "" /\ m.CSIError = ""
    BY <1>7 DEF MessageSet
  <1> HIDE DEF m
  <1>9. QED
    BY <1>5, <1>6, <1>8, Zenon

(****************************************************************************)
(* The inductive invariant: the table stays as it was made, and the copy    *)
(* and the error of a handler depend on its own call alone.                 *)
(****************************************************************************)
Message(h) == InitMessages[Reason(call[h])]

MessagesInv ==
    /\ MessagesEn = InitMessages
    /\ pc \in [Handlers -> {"idle", "lookup", "fill", "return"}]
    /\ DOMAIN call = Handlers /\ DOMAIN userMsg = Handlers /\ DOMAIN returned = Handlers
    /\ \A h \in Handlers :
         /\ call[h] \in Calls(h) \cup {NoCall}
         /\ pc[h] # "idle" => call[h] # NoCall
         /\ pc[h] = "fill" => userMsg[h] = Message(h)
         /\ pc[h] = "return" => userMsg[h] = Filled(h, Message(h))
         /\ Done(h) => returned[h] = Info(Filled(h, Message(h)))

(****************************************************************************)
(* While a handler's call stays the same, so does what it is to build.      *)
(****************************************************************************)
LEMMA SameCall ==
  ASSUME NEW h \in Handlers, call'[h] = call[h]
  PROVE  Message(h)' = Message(h) /\ \A msg : Filled(h, msg)' = Filled(h, msg)
  BY DEF Message, Filled

(****************************************************************************)
(* Every step of a handler keeps the invariant.                             *)
(****************************************************************************)
LEMMA HandlerSteps ==
  ASSUME MessagesInv, NEW h \in Handlers,
         Begin(h) \/ GetCSIMessage(h) \/ Fill(h) \/ Return(h)
  PROVE  MessagesInv'
  <1>0. /\ MessagesEn' = MessagesEn
        /\ \E to \in {"idle", "lookup", "fill", "return"} : pc' = [pc EXCEPT ![h] = to]
        /\ DOMAIN call' = Handlers /\ DOMAIN userMsg' = Handlers /\ DOMAIN returned' = Handlers
    BY DEF MessagesInv, Begin, GetCSIMessage, Fill, Return, Goto
  <1>1. ASSUME NEW k \in Handlers, k # h
        PROVE  /\ call'[k] = call[k] /\ pc'[k] = pc[k]
               /\ userMsg'[k] = userMsg[k] /\ returned'[k] = returned[k]
    BY <1>1 DEF MessagesInv, Begin, GetCSIMessage, Fill, Return, Goto
  <1>2. ASSUME /\ call'[h] \in Calls(h) /\ call'[h] # NoCall
               /\ pc'[h] = "fill" => userMsg'[h] = Message(h)'
               /\ pc'[h] = "return" => userMsg'[h] = Filled(h, Message(h))'
               /\ pc'[h] = "idle" => returned'[h] = Info(Filled(h, Message(h)))'
        PROVE  MessagesInv'
    <2>1. ASSUME NEW k \in Handlers, k # h
          PROVE  /\ call'[k] \in Calls(k) \cup {NoCall}
                 /\ pc'[k] # "idle" => call'[k] # NoCall
                 /\ pc'[k] = "fill" => userMsg'[k] = Message(k)'
                 /\ pc'[k] = "return" => userMsg'[k] = Filled(k, Message(k))'
                 /\ Done(k)' => returned'[k] = Info(Filled(k, Message(k)))'
      <3>1. Message(k)' = Message(k) /\ Filled(k, Message(k))' = Filled(k, Message(k))
        BY <1>1, <2>1, SameCall DEF Message, Filled
      <3>2. Done(k)' <=> Done(k)
        BY <1>1, <2>1 DEF Done
      <3>3. Info(Filled(k, Message(k)))' = Info(Filled(k, Message(k)))
        BY <3>1 DEF Info
      <3>4. QED
        BY <1>1, <2>1, <3>1, <3>2, <3>3 DEF MessagesInv
    <2>2. pc' \in [Handlers -> {"idle", "lookup", "fill", "return"}]
      BY <1>0 DEF MessagesInv
    <2>3. \A k \in Handlers :
            /\ call'[k] \in Calls(k) \cup {NoCall}
            /\ pc'[k] # "idle" => call'[k] # NoCall
            /\ pc'[k] = "fill" => userMsg'[k] = Message(k)'
            /\ pc'[k] = "return" => userMsg'[k] = Filled(k, Message(k))'
            /\ Done(k)' => returned'[k] = Info(Filled(k, Message(k)))'
      BY <1>2, <2>1 DEF Done
    <2>4. QED
      BY <1>0, <2>2, <2>3 DEF MessagesInv
  <1>3. CASE Begin(h)
    <2>1. PICK c \in Calls(h) : call' = [call EXCEPT ![h] = c]
      BY <1>3 DEF Begin
    <2>2. c # NoCall
      <3>1. c.op # "none" /\ NoCall.op = "none"
        BY DEF Calls, NoCall
      <3>2. QED
        BY <3>1
    <2>3. call'[h] = c /\ pc'[h] = "lookup"
      BY <1>3, <2>1 DEF Begin, Goto, MessagesInv
    <2>4. QED
      BY <1>2, <2>2, <2>3
  <1>4. ASSUME call' = call, pc[h] # "idle"
        PROVE  /\ call'[h] \in Calls(h) /\ call'[h] # NoCall
               /\ Message(h)' = Message(h)
               /\ Filled(h, Message(h))' = Filled(h, Message(h))
               /\ Info(Filled(h, Message(h)))' = Info(Filled(h, Message(h)))
    <2>1. call'[h] \in Calls(h) /\ call'[h] # NoCall
      BY <1>4 DEF MessagesInv
    <2>2. Message(h)' = Message(h) /\ Filled(h, Message(h))' = Filled(h, Message(h))
      BY <1>4 DEF Message, Filled
    <2>3. QED
      BY <2>1, <2>2 DEF Info
  <1>5. CASE GetCSIMessage(h)
    <2>1. pc[h] = "lookup" /\ pc'[h] = "fill" /\ call' = call
      BY <1>5 DEF GetCSIMessage, Goto, MessagesInv
    <2>2. userMsg'[h] = Message(h)
      BY <1>5 DEF GetCSIMessage, MessagesInv, Message
    <2>3. QED
      BY <1>2, <1>4, <2>1, <2>2
  <1>6. CASE Fill(h)
    <2>1. pc[h] = "fill" /\ pc'[h] = "return" /\ call' = call
      BY <1>6 DEF Fill, Goto, MessagesInv
    <2>2. userMsg'[h] = Filled(h, userMsg[h]) /\ userMsg[h] = Message(h)
      BY <1>6, <2>1 DEF Fill, MessagesInv
    <2>3. QED
      BY <1>2, <1>4, <2>1, <2>2
  <1>7. CASE Return(h)
    <2>1. pc[h] = "return" /\ pc'[h] = "idle" /\ call' = call
      BY <1>7 DEF Return, Goto, MessagesInv
    <2>2. returned'[h] = Info(userMsg[h]) /\ userMsg[h] = Filled(h, Message(h))
      BY <1>7, <2>1 DEF Return, MessagesInv
    <2>3. QED
      BY <1>2, <1>4, <2>1, <2>2
  <1>8. QED
    BY <1>3, <1>5, <1>6, <1>7

(****************************************************************************)
(* The inductive invariant holds at first and is kept by every step.        *)
(****************************************************************************)
LEMMA MessagesInduction == Spec => []MessagesInv
  <1>1. Init => MessagesInv
    BY DEF Init, MessagesInv, Done
  <1>2. MessagesInv /\ UNCHANGED vars => MessagesInv'
    <2> SUFFICES ASSUME MessagesInv, UNCHANGED vars PROVE MessagesInv'
      OBVIOUS
    <2>1. UNCHANGED MessagesEn /\ UNCHANGED pc /\ UNCHANGED call
          /\ UNCHANGED userMsg /\ UNCHANGED returned
      BY DEF vars
    <2>2. ASSUME NEW k \in Handlers
          PROVE  /\ Message(k)' = Message(k)
                 /\ Filled(k, Message(k))' = Filled(k, Message(k))
                 /\ Info(Filled(k, Message(k)))' = Info(Filled(k, Message(k)))
                 /\ Done(k)' <=> Done(k)
      BY <2>1 DEF Message, Filled, Info, Done
    <2>3. QED
      BY <2>1, <2>2 DEF MessagesInv
  <1>3. MessagesInv /\ [Next]_vars => MessagesInv'
    BY <1>2, HandlerSteps DEF Next
  <1>4. QED
    BY <1>1, <1>3, PTL DEF Spec

(****************************************************************************)
(* What a call returned is built from the message of its code: an error,    *)
(* with the handler's request ID and its own cause.                         *)
(****************************************************************************)
LEMMA ReturnedError ==
  ASSUME MessagesInv, NEW h \in Handlers, Done(h)
  PROVE  /\ returned[h].Type # "OK"
         /\ returned[h].RequestID = h
         /\ call[h].op = "GetCSIError" =>
              returned[h].CSIError = call[h].err /\ returned[h].BackendError = ""
         /\ call[h].op = "GetCSIBackendError" => returned[h].BackendError = call[h].err
  <1>1. call[h] \in Calls(h) /\ returned[h] = Info(Filled(h, Message(h)))
    BY DEF MessagesInv, Done
  <1>2. call[h].op \in {"GetCSIError", "GetCSIBackendError"} /\ call[h].err \in Causes
    BY <1>1 DEF Calls
  <1>3. Reason(call[h]) \in ReasonCodes
    <2>1. CASE call[h].op = "GetCSIError"
      BY <1>1, <2>1, CodesAssumption DEF Reason, Calls
    <2>2. CASE call[h].op # "GetCSIError"
      BY <2>2 DEF Reason, ReasonCodes
    <2>3. QED
      BY <2>1, <2>2
  <1>4. /\ Message(h) \in MessageSet
        /\ Message(h).Type # "OK" /\ Message(h).BackendError = "" /\ Message(h).CSIError = ""
    BY <1>3, TableMessage DEF Message
  <1>5. CASE call[h].op = "GetCSIError"
    <2>1. /\ Filled(h, Message(h)).Type # "OK"
          /\ Filled(h, Message(h)).RequestID = h
          /\ Filled(h, Message(h)).CSIError = call[h].err
          /\ Filled(h, Message(h)).BackendError = ""
      BY <1>4, <1>5 DEF Filled, MessageSet
    <2>2. QED
      BY <1>1, <1>5, <2>1 DEF Info
  <1>6. CASE call[h].op = "GetCSIBackendError"
    <2>1. /\ Filled(h, Message(h)) \in [Code : ReasonCodes \cup {""}, Type : Types,
             RequestID : Handlers \cup {""}, BackendError : Causes, CSIError : Causes]
          /\ Filled(h, Message(h)).Type # "OK"
          /\ Filled(h, Message(h)).RequestID = h
          /\ Filled(h, Message(h)).BackendError = call[h].err
      BY <1>2, <1>4, <1>6 DEF Filled, MessageSet
    <2>2. QED
      BY <1>1, <1>6, <2>1 DEF Info
  <1>7. QED
    BY <1>2, <1>5, <1>6

(****************************************************************************)
(* No failure is reported as OK, for every reason code of reason_code.go.   *)
(****************************************************************************)
THEOREM FailuresAreErrors == Spec => []NoErrorSwallowed
  <1>1. MessagesInv => NoErrorSwallowed
    BY ReturnedError DEF NoErrorSwallowed
  <1>2. QED
    BY <1>1, MessagesInduction, PTL

(****************************************************************************)
(* An error speaks of its own request and cause, however many handlers use  *)
(* the same entry of the table at once.                                     *)
(****************************************************************************)
THEOREM ErrorsAreOwn == Spec => []ErrorIsOwn
  <1>1. MessagesInv => ErrorIsOwn
    BY ReturnedError DEF ErrorIsOwn
  <1>2. QED
    BY <1>1, MessagesInduction, PTL
=============================================================================
