----------------------------- MODULE Datagrams ------------------------------
(***************************************************************************)
(* The datagrams of the tracker's protocol as bytes (udp_tracker.cpp,      *)
(* serialization.cpp): operators only, used by Startup.                    *)
(*                                                                         *)
(* A number of the program is the sequence of its bytes, the lowest first, *)
(* as a little-endian machine keeps it: so serialize() writes it as it is  *)
(* and deserialize() reads it as it is.                                    *)
(***************************************************************************)
EXTENDS Integers, Sequences, SequencesExt, FiniteSetsExt

\* The numbers below 2^31, and those of a uint16_t
Uint31 == {n \in Nat : n \div 256 < 128 * (256 * 256)}
Uint16 == {n \in Nat : n < 256 * 256}

\* A number below 2^31 of w bytes, and a number of two or four bytes back
Number(w, n) ==
    LET a     == n \div 256
        b     == a \div 256
        bytes == <<n % 256, a % 256, b % 256, b \div 256>>
    IN  [i \in 1 .. w |-> IF i > 4 THEN 0 ELSE bytes[i]]
AsNat(num) ==
    num[1] + 256 * (num[2] + (IF Len(num) = 2 THEN 0 ELSE 256 * (num[3] + 256 * num[4])))

\* native_to_big and big_to_native
Swapped(num) == Reverse(num)

\* MAGIC_CONNECTION_ID, 0x41727101980
Magic == <<128, 25, 16, 39, 23, 4, 0, 0>>

STARTED == 2

-----------------------------------------------------------------------------
(* Requests                                                                 *)

Header(req) == Swapped(req.connection_id) \o Swapped(req.action) \o Swapped(req.transaction_id)

ConnectRequest(tid) == [connection_id |-> Magic, action |-> Number(4, 0), transaction_id |-> tid]

\* A slip of make_announce_request's request: the port is sent as the machine keeps it.
AnnouncePortNative(req) ==
    Header(req) \o req.info_hash \o req.peer_id
        \o Swapped(req.downloaded) \o Swapped(req.left) \o Swapped(req.uploaded)
        \o Swapped(req.event) \o Swapped(req.ip_addr) \o Swapped(req.key)
        \o Swapped(req.num_want) \o req.port

Announce(req) ==
    Header(req) \o req.info_hash \o req.peer_id
        \o Swapped(req.downloaded) \o Swapped(req.left) \o Swapped(req.uploaded)
        \o Swapped(req.event) \o Swapped(req.ip_addr) \o Swapped(req.key)
        \o Swapped(req.num_want) \o Swapped(req.port)

Serialized(req) == IF "info_hash" \in DOMAIN req THEN Announce(req) ELSE Header(req)

-----------------------------------------------------------------------------
(* Responses.  The buffer is of 1020 zeroes before a datagram comes, and    *)
(* nothing is known of the datagram's length afterwards.                    *)

BufferSize == 1020

ResBuf(datagram) == datagram \o [i \in 1 .. BufferSize - Len(datagram) |-> 0]

\* deserialize() of the w bytes at an offset, with big_to_native
Field(d, offset, w) == Swapped(SubSeq(d, offset + 1, offset + w))

\* As many peers as leechers and seeders are said to be, each of six bytes;
\* Deserializer::get throws when they do not fit the buffer.
NumPeers(d)      == AsNat(Field(d, 12, 4)) + AsNat(Field(d, 16, 4))
PeersOverrun(d)  == 20 + 6 * NumPeers(d) > Len(d)
Peers(d) ==
    [i \in 1 .. NumPeers(d) |-> [ip |-> Field(d, 14 + 6 * i, 4), port |-> Field(d, 18 + 6 * i, 2)]]

\* A text ends at its first zero byte.
ErrorMessage(d) == SubSeq(d, 9, Min({i \in 9 .. Len(d) + 1 : i > Len(d) \/ d[i] = 0}) - 1)

=============================================================================
