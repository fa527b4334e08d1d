---------------------------- MODULE MCDownload ----------------------------
(***************************************************************************)
(* Instances of Download for two peers.                                    *)
(***************************************************************************)
EXTENDS Download, TLC

CONSTANTS p1, p2

OnePiece  == {<<0, 0>>, <<0, 1>>}
TwoPieces == {<<0, 0>>, <<1, 0>>}

MCPieces  == {b[1] : b \in Blocks}
MCPieceOf == [b \in Blocks |-> b[1]]
MCBlockList == [i \in MCPieces |->
                  [k \in 1 .. Cardinality({b \in Blocks : b[1] = i}) |-> <<i, k - 1>>]]
OnePeer == {p1}
TwoPeers == {p1, p2}

Symmetry == Permutations(TwoPeers)

=============================================================================
