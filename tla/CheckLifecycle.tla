--------------------------- MODULE CheckLifecycle ---------------------------
(***************************************************************************)
(* What the service checker promises to the rest of the client, without    *)
(* its channels and goroutines: between the moment it opens and the moment *)
(* it closes it checks services, each by one check at a time; what a check *)
(* finds becomes the state of its service while that check is under way    *)
(* and at no other time; and it closes only when no check is under way,    *)
(* for good.                                                               *)
(***************************************************************************)
CONSTANTS Svcs, Verdicts, Unknown

VARIABLES
  phase,       (* "off", "open" or "closed"                                *)
  checking,    (* the services under check                                 *)
  state        (* the state of each service                                *)

vars == <<phase, checking, state>>

Init ==
  /\ phase = "off"
  /\ checking = {}
  /\ state = [s \in Svcs |-> Unknown]

(* Saved states may come back before the first check.                      *)
Restore ==
  /\ phase = "off"
  /\ state' \in [Svcs -> Verdicts \cup {Unknown}]
  /\ UNCHANGED <<phase, checking>>

Open ==
  /\ phase = "off"
  /\ phase' = "open"
  /\ UNCHANGED <<checking, state>>

Begin(s) ==
  /\ phase = "open" /\ s \notin checking
  /\ checking' = checking \cup {s}
  /\ UNCHANGED <<phase, state>>

Record(s, v) ==
  /\ s \in checking
  /\ state' = [state EXCEPT ![s] = v]
  /\ UNCHANGED <<phase, checking>>

End(s) ==
  /\ s \in checking
  /\ checking' = checking \ {s}
  /\ UNCHANGED <<phase, state>>

(* It may close without ever having opened.                                *)
Close ==
  /\ phase \in {"off", "open"} /\ checking = {}
  /\ phase' = "closed"
  /\ UNCHANGED <<checking, state>>

Next ==
  \/ Restore \/ Open \/ Close
  \/ \E s \in Svcs : Begin(s) \/ End(s) \/ \E v \in Verdicts : Record(s, v)

Spec == Init /\ [][Next]_vars
=============================================================================
