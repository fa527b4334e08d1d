----------------------------- MODULE MCTransfer -----------------------------
(***************************************************************************)
(* An instance of Transfer with the program's name of the protocol and     *)
(* blocks of 256 bytes, so that lengths and offsets need two bytes.        *)
(***************************************************************************)
EXTENDS Transfer

MCLayouts ==
    {[length |-> 9,   pieceLength |-> 1],      \* more pieces than bits in a byte
     [length |-> 513, pieceLength |-> 512],    \* a last piece of one byte
     [length |-> 512, pieceLength |-> 256],    \* a last piece that is full
     [length |-> 700, pieceLength |-> 300]}    \* beyond OffsetModulus

MCProtocolName == [i \in 1 .. 19 |-> 66]
MCPeerIdBytes  == [i \in 1 .. 20 |-> i]
MCInfoHash     == [i \in 1 .. 20 |-> 100 + i]
MCOtherHash    == [i \in 1 .. 20 |-> 100 + (i % 20)]
MCStalePrefix  == {0, 18, 20}

\* The hypothesis under which OwnTorrentOnly is proved.
ASSUME MCUnmistakable == Unmistakable

=============================================================================
