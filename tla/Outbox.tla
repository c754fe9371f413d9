------------------------------- MODULE Outbox -------------------------------
(***************************************************************************)
(* What the website client promises to the rest of the program: it is a    *)
(* bounded queue of requests. They are handled one at a time, each of them *)
(* once, in the order they came. A request is sent unless the key is known *)
(* to be bad when its turn comes; a key becomes bad when a request that    *)
(* was sent is rejected; and a new key comes between two requests only.    *)
(***************************************************************************)
EXTENDS Integers, Sequences

CONSTANTS Requests, Cap

VARIABLES
  pending,     (* the requests, the one that is handled first              *)
  mode,        (* what becomes of that one: "idle", "sending", "refused"   *)
               (* or "rejected"                                            *)
  refusing     (* the key is known to be bad                               *)

vars == <<pending, mode, refusing>>

Init == pending = <<>> /\ mode = "idle" /\ refusing \in BOOLEAN

Submit(r) ==
  /\ Len(pending) < Cap
  /\ pending' = Append(pending, r)
  /\ UNCHANGED <<mode, refusing>>

Begin ==
  /\ mode = "idle" /\ pending # <<>>
  /\ mode' = IF refusing THEN "refused" ELSE "sending"
  /\ UNCHANGED <<pending, refusing>>

Reject ==
  /\ mode = "sending"
  /\ mode' = "rejected" /\ refusing' = TRUE
  /\ UNCHANGED pending

Finish ==
  /\ mode # "idle"
  /\ mode' = "idle"
  /\ pending' = Tail(pending)
  /\ UNCHANGED refusing

Configure ==
  /\ mode = "idle"
  /\ refusing' \in BOOLEAN
  /\ UNCHANGED <<pending, mode>>

Next ==
  \/ \E r \in Requests : Submit(r)
  \/ Begin \/ Reject \/ Finish \/ Configure

Spec == Init /\ [][Next]_vars
=============================================================================
