------------------------------- MODULE MCMsgOps -------------------------------
(* The message operations on the pools of MCPools. *)
EXTENDS MsgOps, MCPools

MCOptions == [deterministic : BOOLEAN, skipUnknown : BOOLEAN]
=============================================================================
