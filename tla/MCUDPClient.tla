----------------------------- MODULE MCUDPClient -----------------------------
(***************************************************************************)
(* UDPClient for model-checking; its constants are given in the .cfg.      *)
(***************************************************************************)
EXTENDS UDPClient
=============================================================================
