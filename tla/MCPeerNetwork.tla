---------------------------- MODULE MCPeerNetwork ----------------------------
(* PeerNetwork with two bootnodes; the address of one does not name its peer. *)
EXTENDS PeerNetwork

CONSTANTS p1, p2

MCBootnodes == {[peer |-> p1, p2p |-> TRUE], [peer |-> p2, p2p |-> FALSE]}
=============================================================================
