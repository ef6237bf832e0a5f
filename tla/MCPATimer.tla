----------------------------- MODULE MCPATimer -----------------------------
(***************************************************************************)
(* Constants for model-checking PATimer.                                   *)
(***************************************************************************)
EXTENDS PATimer

\* What the uninitialised state of a fresh timer may hold, but for the value of
\* EXECUTE: such a timer could never be started.
NotRunning == States \ {"EXECUTE"}
=============================================================================
