---------------------------- MODULE MCTriggerLoop ----------------------------
(* Small instances of TriggerLoop for TLC.                                 *)
EXTENDS TriggerLoop
=============================================================================
