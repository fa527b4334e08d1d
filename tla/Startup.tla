------------------------------ MODULE Startup -------------------------------
(***************************************************************************)
(* The start of the client: the metainfo file is decoded (bencode.h) and   *)
(* read (metainfo.cpp), the manager makes a peer id and the tracker        *)
(* (manager.cpp), the tracker is asked (udp_tracker.cpp) and the peers it  *)
(* lists are connected to (peer_handler.cpp).  An exception ends the       *)
(* program.                                                                *)
(*                                                                         *)
(* The data are real here: texts and bytes, and the model's instance takes *)
(* the real SHA-1 of the info dict.  The retransmissions and the timers of *)
(* the tracker are in UdpTracker.                                          *)
(***************************************************************************)
EXTENDS Bencode, Datagrams

CONSTANTS
    Files,           \* metainfo files: a text, what its publisher knows of it, and what is to come of it
    Hosts, Services, \* names that resolve
    LocalEndpoints,  \* local_endpoints of PeerHandler
    Pids,            \* process ids
    Random(_),       \* the sequences of so many bytes the random generator may make
    Hash(_),         \* sha1::computeHash
    Swarms           \* what a tracker answers: [peers, leechers, seeders] or [message]

ASSUME StartupAssumption ==
    /\ \A i \in DOMAIN Files :
          DOMAIN Files[i] = {"text", "outcome", "announce", "piece_length", "pieces", "length", "info_hash"}
    /\ Pids \subseteq Nat
    /\ \A n \in {4, 10} : Random(n) \subseteq [1 .. n -> 0 .. 255]
    /\ \A s \in Swarms :
          \/ /\ DOMAIN s = {"message"}
             /\ s.message \in Seq(1 .. 255) /\ 8 + Len(s.message) <= BufferSize
          \/ /\ DOMAIN s = {"peers", "leechers", "seeders"}
             /\ s.leechers \in Uint31 /\ s.seeders \in Uint31
             /\ s.peers \in Seq([address : [1 .. 4 -> 0 .. 255], port : Uint16])
             /\ 20 + 6 * Len(s.peers) <= BufferSize

VARIABLES
    file, cut,     \* the metainfo file, and how much of it is on the disk
    dec,           \* the local variables of basic_decode
    phase,         \* where the program is
    metainfo,      \* Metainfo
    peer_id, key,  \* of the manager and of the tracker
    queue,         \* req_queue: the requests it holds, the first one is cur_req
    connection_id,
    req_buf,       \* the request that was sent
    response,      \* the datagram that was received
    contacted,     \* the endpoints PeerHandler::add_peer connects to, in order
    complaint,     \* the tracker's error, as reported
    asked,         \* what the tracker understood of the announce
    answered       \* what it answered that was handled

vars == <<file, cut, dec, phase, metainfo, peer_id, key, queue, connection_id, req_buf,
          response, contacted, complaint, asked, answered>>
trackerVars == <<queue, connection_id, req_buf, response, contacted, complaint, asked, answered>>

None == [none |-> TRUE]

-----------------------------------------------------------------------------
(* The metainfo file                                                        *)

Text == SubSeq(Files[file].text, 1, cut)

Bytes(text) == [i \in 1 .. Len(text) |-> 31 + Rank(At(text, i))]

Decode ==
    /\ phase = "decoding"
    /\ dec' = Iteration(Text, dec)
    /\ phase' = IF dec'.outcome = "running" THEN "decoding"
                ELSE IF dec'.outcome = "error" THEN "refused" ELSE "decoded"
    /\ UNCHANGED <<file, cut, metainfo, peer_id, key, trackerVars>>

\* operator[] of a map: what is missing becomes the integer 0, and stays in the map.
WithEntry(nodes, dict, name) ==
    IF name \in DOMAIN nodes[dict].value THEN nodes
    ELSE Append([nodes EXCEPT ![dict].value = @ @@ (name :> Len(nodes) + 1)],
                [kind |-> "int", value |-> 0])

Entry(nodes, dict, name) == nodes[nodes[dict].value[name]]

\* A long long in a uint64_t
Unsigned(v) == IF v < 0 THEN v + 2 * (MaxInteger + 1) ELSE v

\* Metainfo::Metainfo.  std::get throws when a value is of another kind.
ReadMetainfo ==
    LET top  == WithEntry(WithEntry(dec.nodes, 1, "announce"), 1, "info")
        id   == top[1].value["info"]
        info == WithEntry(WithEntry(WithEntry(top, id, "piece length"), id, "pieces"), id, "length")
        Has(d, name, kind) == Entry(info, d, name).kind = kind
        pieces_string == Entry(info, id, "pieces").value
    IN /\ phase = "decoded"
       /\ IF /\ dec.nodes[1].kind = "dict"
             /\ Entry(top, 1, "announce").kind = "string"
             /\ Entry(top, 1, "info").kind = "dict"
             /\ Has(id, "piece length", "int") /\ Has(id, "pieces", "string") /\ Has(id, "length", "int")
          THEN /\ metainfo' = [announce     |-> Entry(info, 1, "announce").value,
                               piece_length |-> Unsigned(Entry(info, id, "piece length").value),
                               pieces       |-> [i \in 1 .. Len(pieces_string) \div 20 |->
                                                  SubSeq(pieces_string, 20 * i - 19, 20 * i)],
                               length       |-> Unsigned(Entry(info, id, "length").value),
                               info_hash    |-> Hash(Bytes(Encoding(info)[id]))]
               /\ phase' = "read"
          ELSE phase' = "refused" /\ UNCHANGED metainfo
       /\ UNCHANGED <<file, cut, dec, peer_id, key, trackerVars>>

-----------------------------------------------------------------------------
(* Manager                                                                  *)

\* The bytes of "ftorrent"
ClientName == <<102, 116, 111, 114, 114, 101, 110, 116>>

\* generate_peer_id: four bits of each byte of the process id, of which the
\* random bytes leave two
PeerId(pid, random) ==
    ClientName \o <<pid % 16, (pid \div 256) % 16>> \o random

\* string::find: the offset from 0, or -1
Find(text, what) ==
    LET found == {i \in 0 .. Len(text) - Len(what) : SubSeq(text, i + 1, i + Len(what)) = what}
    IN IF found = {} THEN -1 ELSE Min(found)

Before(text, offset) == IF offset = -1 THEN text ELSE SubSeq(text, 1, offset)
From(text, offset)   == SubSeq(text, offset + 1, Len(text))

\* init_tracker, with the constructor of UdpTracker.  Without a separator the
\* arithmetic goes on from -1; substr throws beyond the end.
InitTracker ==
    LET url       == metainfo.announce
        separator == Find(url, "://")
        rest      == From(url, separator + 3)
        colon     == Find(rest, ":")
    IN /\ phase = "read"
       /\ \E pid \in Pids, random \in Random(10) : peer_id' = PeerId(pid, random)
       /\ IF /\ separator + 3 <= Len(url) /\ Before(url, separator) = "udp"
             /\ Before(rest, colon) \in Hosts /\ From(rest, colon + 1) \in Services
          THEN phase' = "made" /\ \E k \in Random(4) : key' = k
          ELSE phase' = "refused" /\ UNCHANGED key
       /\ UNCHANGED <<file, cut, dec, metainfo, trackerVars>>

-----------------------------------------------------------------------------
(* UdpTracker                                                               *)

AnnounceRequest(tid) ==
    [connection_id |-> Magic, action |-> Number(4, 1), transaction_id |-> tid,
     info_hash |-> metainfo.info_hash, peer_id |-> peer_id,
     downloaded |-> Number(8, 0), left |-> Number(8, 12000), uploaded |-> Number(8, 0),
     event |-> Number(4, STARTED), ip_addr |-> Number(4, 0), key |-> key,
     num_want |-> Number(4, 50), port |-> Number(2, 6881)]

\* send_request, once the queue is q and the connection c
SendRequest(q, c) ==
    /\ queue' = q /\ connection_id' = c
    /\ IF q = <<>> THEN phase' = "asked" /\ UNCHANGED req_buf
       ELSE /\ req_buf' = Serialized([Head(q) EXCEPT !.connection_id = c])
            /\ phase' = "sent"

Run ==
    /\ phase = "made"
    /\ \E s, t \in Random(4) : s # t /\ SendRequest(<<ConnectRequest(s), AnnounceRequest(t)>>, Magic)
    /\ UNCHANGED <<file, cut, dec, metainfo, peer_id, key, response, contacted, complaint, asked, answered>>

\* add_peer: the endpoint whose address native_to_big makes of the number
Endpoint(peer) == [address |-> Swapped(peer.ip), port |-> AsNat(peer.port)]

Foreign(endpoints) == SelectSeq(endpoints, LAMBDA e : e \notin LocalEndpoints)

AddPeers(peers) == Foreign([i \in DOMAIN peers |-> Endpoint(peers[i])])

\* handle_response, and what follows it in the handler of the receive
HandleResponse ==
    LET d      == ResBuf(response.datagram)
        action == AsNat(Field(d, 0, 4))
    IN /\ phase = "answered"
       /\ IF Field(d, 4, 4) # Head(queue).transaction_id \/ action \notin {0, 1, 3}
          THEN SendRequest(queue, connection_id) /\ UNCHANGED <<contacted, complaint, answered>>
          ELSE /\ answered' = response.swarm
               /\ CASE action = 0 ->
                         /\ SendRequest(Tail(queue), Field(d, 8, 8))
                         /\ UNCHANGED <<contacted, complaint>>
                    [] action = 1 /\ PeersOverrun(d) ->
                         /\ phase' = "failed"
                         /\ queue' = Tail(queue)
                         /\ UNCHANGED <<req_buf, connection_id, contacted, complaint>>
                    [] action = 1 /\ ~PeersOverrun(d) ->
                         /\ contacted' = AddPeers(Peers(d))
                         /\ SendRequest(Tail(queue), connection_id)
                         /\ UNCHANGED complaint
                    [] action = 3 ->
                         /\ complaint' = ErrorMessage(d)
                         /\ SendRequest(Tail(queue), connection_id)
                         /\ UNCHANGED contacted
       /\ UNCHANGED <<file, cut, dec, metainfo, peer_id, key, response, asked>>

-----------------------------------------------------------------------------
(* The tracker: numbers have their highest byte first.                      *)

Assigned == <<1, 2, 3, 4, 5, 6, 7, 8>>
Part(first, last) == SubSeq(req_buf, first + 1, last)

IsConnect  == Len(req_buf) = 16 /\ Part(0, 12) = <<0, 0, 4, 23, 39, 16, 25, 128>> \o <<0, 0, 0, 0>>
IsAnnounce == Len(req_buf) = 98 /\ Part(0, 12) = Assigned \o <<0, 0, 0, 1>>

PeerBytes(peer) == peer.address \o Swapped(Number(2, peer.port))

Listing(swarm) ==
    <<0, 0, 0, 1>> \o Part(12, 16) \o Swapped(Number(4, 1800))
        \o Swapped(Number(4, swarm.leechers)) \o Swapped(Number(4, swarm.seeders))
        \o [j \in 1 .. 6 * Len(swarm.peers) |->
                PeerBytes(swarm.peers[1 + ((j - 1) \div 6)])[1 + ((j - 1) % 6)]]

\* An answer may be to an earlier request, with another transaction id.
Answers ==
    IF IsConnect
    THEN {[swarm |-> None, datagram |-> <<0, 0, 0, 0>> \o Part(12, 16) \o Assigned]}
    ELSE UNION {IF "message" \in DOMAIN s
                THEN {[swarm |-> s, datagram |-> <<0, 0, 0, 3>> \o Part(12, 16) \o s.message]}
                ELSE {[swarm |-> s, datagram |-> Listing(s)]} : s \in Swarms}

TrackerAnswers ==
    /\ phase = "sent" /\ (IsConnect \/ IsAnnounce)
    /\ phase' = "answered"
    /\ \/ response' \in Answers
       \/ response' = [swarm |-> None, datagram |-> <<0, 0, 0, 0>> \o <<0, 0, 0, 0>> \o Assigned]
    /\ asked' = IF ~IsAnnounce THEN asked
                ELSE [info_hash |-> Part(16, 36), peer_id |-> Part(36, 56), downloaded |-> Part(56, 64),
                      left |-> Part(64, 72), uploaded |-> Part(72, 80), event |-> Part(80, 84),
                      ip |-> Part(84, 88), key |-> Part(88, 92), num_want |-> Part(92, 96), port |-> Part(96, 98)]
    /\ UNCHANGED <<file, cut, dec, metainfo, peer_id, key, queue, connection_id, req_buf,
                   contacted, complaint, answered>>

-----------------------------------------------------------------------------

Init ==
    /\ file \in DOMAIN Files /\ cut \in 0 .. Len(Files[file].text)
    /\ dec = DecodeStart /\ phase = "decoding"
    /\ metainfo = None /\ peer_id = <<>> /\ key = <<>>
    /\ queue = <<>> /\ connection_id = Magic /\ req_buf = <<>> /\ response = None
    /\ contacted = <<>> /\ complaint = <<>> /\ asked = None /\ answered = None

Next == Decode \/ ReadMetainfo \/ InitTracker \/ Run \/ TrackerAnswers \/ HandleResponse

Spec == Init /\ [][Next]_vars

-----------------------------------------------------------------------------
(* Properties                                                               *)

\* What bencode::decode and Metainfo::Metainfo make of a file is what its
\* publisher knows of it, the info hash included, which is taken of the dict
\* encoded again; a file that lost its end, whose numbers are out of range, or
\* that names a key twice is refused, and no other.
MetainfoAsPublished ==
    /\ metainfo # None =>
          /\ cut = Len(Files[file].text) /\ Files[file].outcome # "refused"
          /\ Files[file].outcome = "read" =>
                metainfo = [n \in DOMAIN metainfo |-> Files[file][n]]
    /\ phase = "refused" /\ metainfo = None => cut < Len(Files[file].text) \/ Files[file].outcome # "read"

\* The tracker understands the announce as the client means it: whatever its
\* fields are on the machine, each is written with its highest byte first.
UnderstoodAsMeant ==
    asked # None =>
        /\ asked = [info_hash |-> metainfo.info_hash, peer_id |-> peer_id,
                    downloaded |-> <<0, 0, 0, 0, 0, 0, 0, 0>>, left |-> <<0, 0, 0, 0, 0, 0, 46, 224>>,
                    uploaded |-> <<0, 0, 0, 0, 0, 0, 0, 0>>,
                    event |-> <<0, 0, 0, 2>>, ip |-> <<0, 0, 0, 0>>, key |-> Swapped(key),
                    num_want |-> <<0, 0, 0, 50>>, port |-> <<26, 225>>]
        /\ SubSeq(peer_id, 1, 8) = ClientName /\ Len(peer_id) = 20

\* The endpoints add_peer connects to are those that the tracker listed, in
\* their order, without the client's own, and its errors are reported as they
\* were sent.  When the tracker counts more peers than it lists, endpoints
\* 0.0.0.0:0 follow, and the program ends if they overrun the buffer.
HandledAsAnswered ==
    answered # None =>
        IF "message" \in DOMAIN answered THEN complaint = answered.message /\ contacted = <<>>
        ELSE LET count   == answered.leechers + answered.seeders
                 phantom == [address |-> <<0, 0, 0, 0>>, port |-> 0]
             IN IF 20 + 6 * count > BufferSize THEN phase = "failed"
                ELSE contacted = Foreign([i \in 1 .. count |->
                                              IF i <= Len(answered.peers) THEN answered.peers[i] ELSE phantom])

\* The tracker knows every request send_request sends for what it is, and what
\* is understood and answered is what was meant on the other side.
AnswersAsSent ==
    /\ phase = "sent" => IsConnect \/ IsAnnounce
    /\ UnderstoodAsMeant
    /\ HandledAsAnswered

=============================================================================
