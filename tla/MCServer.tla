-------------------------------- MODULE MCServer --------------------------------
(* ServerLifecycle with a few callers. *)
EXTENDS ServerLifecycle
=============================================================================
