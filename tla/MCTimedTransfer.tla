-------------------------- MODULE MCTimedTransfer --------------------------
(***************************************************************************)
(* TimedTransfer for model-checking; its constants are given in the .cfg.  *)
(***************************************************************************)
EXTENDS TimedTransfer
=============================================================================
