---------------------------- MODULE MCTCPServer ----------------------------
(***************************************************************************)
(* TCPServer for model-checking; its constants are given in the .cfg.      *)
(***************************************************************************)
EXTENDS TCPServer
=============================================================================
