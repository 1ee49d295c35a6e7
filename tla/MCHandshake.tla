---------------------------- MODULE MCHandshake ----------------------------
(* Two interchangeable peers. *)
EXTENDS Handshake, TLC

CONSTANTS a, b

MCPeers == {a, b}
PeerSymmetry == Permutations(MCPeers)

=============================================================================
