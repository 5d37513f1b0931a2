------------------------------ MODULE MCDecoder ------------------------------
(* The decoder on pools of MCPools. *)
EXTENDS Content, MCPools
=============================================================================
