----------------------------- MODULE MCService -----------------------------
(***************************************************************************)
(* Service for model-checking; its constants are given in the .cfg.        *)
(***************************************************************************)
EXTENDS Service
=============================================================================
