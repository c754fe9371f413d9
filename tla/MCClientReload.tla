---------------------------- MODULE MCClientReload ----------------------------
(* Small instances of ClientReload for TLC.                                *)
EXTENDS ClientReload
=============================================================================
