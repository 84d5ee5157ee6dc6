----------------------------- MODULE MCEvtqList -----------------------------
(* Two priorities; an EDA at the lower one and two that share the higher.     *)
EXTENDS EvtqList, TLC

CONSTANTS low, high1, high2

MCPriority == low :> 0 @@ high1 :> 1 @@ high2 :> 1
=============================================================================
