---------------------------- MODULE MCSSLClient ----------------------------
(***************************************************************************)
(* SSLClient for model-checking; its constants are given in the .cfg.      *)
(***************************************************************************)
EXTENDS SSLClient
=============================================================================
