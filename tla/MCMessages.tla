----------------------------- MODULE MCMessages -----------------------------
(* Model checking Messages: h1 reports every reason code there is, while h2 *)
(* reports two of them again and again.                                     *)
EXTENDS Messages, TLC

MCHandlers == {"h1", "h2"}
MCCodes    == ("h1" :> ReasonCodes @@ "h2" :> {"InternalError", "Timeout"})
=============================================================================
