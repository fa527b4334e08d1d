----------------------------- MODULE MCTorrent -----------------------------
(***************************************************************************)
(* An instance of Torrent for two peers' handlers: a piece of two blocks   *)
(* beside a piece of one.                                                  *)
(***************************************************************************)
EXTENDS Torrent

CONSTANTS p1, p2

MCBlocks  == {<<0, 0>>, <<0, 1>>, <<1, 0>>}
MCPieces  == {b[1] : b \in Blocks}
MCPieceOf == [b \in Blocks |-> b[1]]
MCPeers   == {p1, p2}

=============================================================================
