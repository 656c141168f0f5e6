----------------------------- MODULE MCPeerRPC ------------------------------
(* Two connections from one subnet.                                         *)
EXTENDS PeerRPC

CONSTANTS c1, c2, s1

MCSubnet == [c \in Conns |-> s1]
=============================================================================
