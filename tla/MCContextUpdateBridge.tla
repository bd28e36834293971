------------------------ MODULE MCContextUpdateBridge ------------------------
(***************************************************************************)
(* Small instances of ContextUpdateBridge for TLC.  The deadlock check is  *)
(* off in their configurations: with the sequence bound used up and the    *)
(* worker waiting for work, the bridge really has nothing to do.           *)
(***************************************************************************)
EXTENDS ContextUpdateBridge
=============================================================================
