------------------------------ MODULE Messages ------------------------------
(****************************************************************************)
(* pkg/messages/messages.go: the errors a driver returns.  A handler copies *)
(* the message of a reason code out of the table MessagesEn, fills in its   *)
(* own request ID and cause, and returns it as a gRPC status, which is no   *)
(* error at all if the message's type is OK.  Many handlers do so at once;  *)
(* the driver assigns MessagesEn before it serves requests.                 *)
(****************************************************************************)
EXTENDS MessageTable

CONSTANTS
    Handlers,  \* the request handlers; each has a request ID of its own
    Codes      \* Codes[h]: the reason codes that h reports

ASSUME CodesAssumption == Codes \in [Handlers -> SUBSET ReasonCodes]

(* What the text of an error says, up to its "RC:xxx": no error, a server   *)
(* error of the cloud, one of the client's, or one without such a code.     *)
Causes == {"", "RC:5xx", "RC:4xx", "other"}

(* The fields of Message; "" is a string not set, OK the zero type. *)
NoMessage == [Code |-> "", Type |-> "OK", RequestID |-> "", BackendError |-> "",
              CSIError |-> ""]

VARIABLES
    MessagesEn,  \* the table: for every reason code its message, if it has one
    pc,          \* where each handler is
    call,        \* the call it makes
    userMsg,     \* its copy of the message
    returned     \* what its call returned

vars == <<MessagesEn, pc, call, userMsg, returned>>

Calls(h) == [op : {"GetCSIError"}, code : Codes[h], err : Causes]
            \cup [op : {"GetCSIBackendError"}, code : {""}, err : Causes]

NoCall == [op |-> "none", code |-> "", err |-> ""]

(* The entry of ProfileNotAllowlisted has another entry's Code. *)
CodeOf(code) == IF code = "ProfileNotAllowlisted" THEN "FailedPrecondition" ELSE code

InitMessages == [code \in ReasonCodes |->
    LET entries == {e \in messagesEn : e.code = code}
    IN  IF entries = {} THEN NoMessage
        ELSE [NoMessage EXCEPT !.Code = CodeOf(code),
                               !.Type = (CHOOSE e \in entries : TRUE).type]]

Init ==
    /\ MessagesEn = InitMessages
    /\ pc = [h \in Handlers |-> "idle"]
    /\ call = [h \in Handlers |-> NoCall]
    /\ userMsg = [h \in Handlers |-> NoMessage]
    /\ returned = [h \in Handlers |-> NoMessage]

Goto(h, from, to) ==
    /\ pc[h] = from
    /\ pc' = [pc EXCEPT ![h] = to]

Begin(h) ==
    /\ Goto(h, "idle", "lookup")
    /\ \E c \in Calls(h) : call' = [call EXCEPT ![h] = c]
    /\ returned' = [returned EXCEPT ![h] = NoMessage]
    /\ UNCHANGED <<MessagesEn, userMsg>>

(* 5xx is the server's fault, everything else the client's. *)
Reason(c) == IF c.op = "GetCSIError" THEN c.code
             ELSE IF c.err = "RC:5xx" THEN "InternalError"
             ELSE "InvalidParameters"

(* userMsg := MessagesEn[code]: a copy. *)
GetCSIMessage(h) ==
    /\ Goto(h, "lookup", "fill")
    /\ userMsg' = [userMsg EXCEPT ![h] = MessagesEn[Reason(call[h])]]
    /\ UNCHANGED <<MessagesEn, call, returned>>

Filled(h, msg) ==
    IF call[h].op = "GetCSIError"
    THEN [msg EXCEPT !.RequestID = h,
                     !.CSIError = IF call[h].err = "" THEN @ ELSE call[h].err]
    ELSE [msg EXCEPT !.RequestID = h, !.BackendError = call[h].err]

(* Mutant: the message in the table is filled in, not a copy. *)
FillTable(h) ==
    /\ Goto(h, "fill", "return")
    /\ MessagesEn' = [MessagesEn EXCEPT ![Reason(call[h])] = Filled(h, userMsg[h])]
    /\ userMsg' = [userMsg EXCEPT ![h] = Filled(h, userMsg[h])]
    /\ UNCHANGED <<call, returned>>

Fill(h) ==
    /\ Goto(h, "fill", "return")
    /\ userMsg' = [userMsg EXCEPT ![h] = Filled(h, userMsg[h])]
    /\ UNCHANGED <<MessagesEn, call, returned>>

(* Info: which of the fields the text of the error has. *)
Info(msg) ==
    IF msg.BackendError # "" THEN [msg EXCEPT !.Code = "", !.CSIError = ""]
    ELSE msg

(* return status.Error(userMsg.Type, userMsg.Info()) *)
Return(h) ==
    /\ Goto(h, "return", "idle")
    /\ returned' = [returned EXCEPT ![h] = Info(userMsg[h])]
    /\ userMsg' = [userMsg EXCEPT ![h] = NoMessage]
    /\ UNCHANGED <<MessagesEn, call>>

Next == \E h \in Handlers : Begin(h) \/ GetCSIMessage(h) \/ Fill(h) \/ Return(h)

Spec == Init /\ [][Next]_vars

-----------------------------------------------------------------------------
Done(h) == pc[h] = "idle" /\ call[h] # NoCall

(****************************************************************************)
(* No failure is swallowed: what GetCSIError and GetCSIBackendError return  *)
(* is an error (its type is not OK) for every reason code there is.         *)
(****************************************************************************)
NoErrorSwallowed == \A h \in Handlers : Done(h) => returned[h].Type # "OK"

(****************************************************************************)
(* An error speaks of its own request: its ID, and its cause or, without a  *)
(* cause, none, whatever messages other handlers built from the same entry, *)
(* at the same time or before.                                              *)
(****************************************************************************)
ErrorIsOwn == \A h \in Handlers : Done(h) =>
    /\ returned[h].RequestID = h
    /\ call[h].op = "GetCSIError" =>
         returned[h].CSIError = call[h].err /\ returned[h].BackendError = ""
    /\ call[h].op = "GetCSIBackendError" => returned[h].BackendError = call[h].err
=============================================================================
