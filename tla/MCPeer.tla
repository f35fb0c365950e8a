------------------------------- MODULE MCPeer --------------------------------
(* Two messages to one agent.                                              *)
EXTENDS Peer
=============================================================================
