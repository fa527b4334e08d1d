------------------------- MODULE MCPeerConnection -------------------------
(***************************************************************************)
(* Instances of PeerConnection: messages are model values.                 *)
(***************************************************************************)
EXTENDS PeerConnection

CONSTANTS m1, m2, k1, caller

=============================================================================
