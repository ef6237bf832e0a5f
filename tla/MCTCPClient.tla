---------------------------- MODULE MCTCPClient ----------------------------
(***************************************************************************)
(* Constants for model-checking TCPClient.                                 *)
(***************************************************************************)
EXTENDS TCPClient, TLC

\* Every call; ReconnectAsync is DisconnectAsync, a wait and ConnectAsync.
SendCalls == CallNames \ {"ReconnectAsync"}

\* Everything but stopping for good.
LifecycleCalls == CallNames \ {"DisconnectAndStop"}

\* The calls main() of the demo client makes.
DemoCalls == {"ConnectAsync", "SendAsync", "ReceiveAsync", "DisconnectAndStop"}

UserSymmetry == Permutations(Users)
=============================================================================
