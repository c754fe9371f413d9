--------------------------- MODULE MCWebsiteQueue ---------------------------
(* Small instances of WebsiteQueue for TLC.                                *)
EXTENDS WebsiteQueue, TLC

CONSTANTS c1, c2, c3

(* An asker that also uploads, a goroutine that logs or reconfigures, and  *)
(* one that sends or switches the sharing of errors.                       *)
Mixed == (c1 :> {"ask", "file"}) @@ (c2 :> {"log", "new"}) @@ (c3 :> {"send", "toggle"})

(* Callers of GetData and senders only.                                    *)
AskAndSend == (c1 :> {"ask"}) @@ (c2 :> {"send"}) @@ (c3 :> {"send"})
=============================================================================
