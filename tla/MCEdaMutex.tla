----------------------------- MODULE MCEdaMutex -----------------------------
(* Three EDAs: of three priorities, or two at the lower of two.               *)
EXTENDS EdaMutex, TLC

CONSTANTS low, mid, high

MCPriority == low :> 0 @@ mid :> 1 @@ high :> 2
MCTwoLow   == low :> 0 @@ mid :> 0 @@ high :> 1
=============================================================================
