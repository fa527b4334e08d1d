----------------------------- MODULE MCStartup -----------------------------
(***************************************************************************)
(* Metainfo files of a few pieces for TLC, with the SHA-1 of their info    *)
(* dicts as any other implementation computes it, and what a tracker may   *)
(* answer.  The largest integer is 40000.                                  *)
(***************************************************************************)
EXTENDS Startup

Digestpp == INSTANCE MerkleDamgard
MCHash(data) == Digestpp!ComputeHash(data)
Hex(s) == Digestpp!Hex(s)

MCFiles == <<
    [text |-> "d8:announce11:udp://tr:694:infod6:lengthi100e4:name6:a file12:piece le" \o
               "ngthi64e6:pieces40:Zq<7#kd_~W0pL!m:e3@x0123456789abcdefghijee",
     outcome |-> "read", announce |-> "udp://tr:69", piece_length |-> 64,
     pieces |-> <<"Zq<7#kd_~W0pL!m:e3@x", "0123456789abcdefghij">>, length |-> 100, info_hash |-> Hex("40dc77c22f95a33abb4034dbcea0af53e066a8d1")],
    [text |-> "d8:announce19:udp://10.0.0.1:696913:announce-listll9:udp://x:1elee10:c" \o
               "reated by3:a-b4:infod6:lengthi0e3:nam1:x4:name1:b10:name.utf-81:b5:pie" \o
               "celledee12:piece lengthi16384e6:pieces20:Zq<7#kd_~W0pL!m:e3@x7:private" \o
               "i1eee",
     outcome |-> "read", announce |-> "udp://10.0.0.1:6969", piece_length |-> 16384,
     pieces |-> <<"Zq<7#kd_~W0pL!m:e3@x">>, length |-> 0, info_hash |-> Hex("fc067ae483bf1a16c28c1996034c24a2b4f64377")],
    [text |-> "d8:announce18:http://tr/announce4:infod6:lengthi9999e4:name1:c12:piece" \o
               " lengthi9999e6:pieces20:0123456789abcdefghijee",
     outcome |-> "read", announce |-> "http://tr/announce", piece_length |-> 9999,
     pieces |-> <<"0123456789abcdefghij">>, length |-> 9999, info_hash |-> Hex("472218a7b9b3babaf4760baa67a26fd50f7b0f55")],
    [text |-> "d8:announce20:udp://tr:69/announce4:infod6:lengthi40000e4:name1:d12:pi" \o
               "ece lengthi7e6:pieces0:ee",
     outcome |-> "read", announce |-> "udp://tr:69/announce", piece_length |-> 7,
     pieces |-> <<>>, length |-> 40000, info_hash |-> Hex("871cb5a3289c591dd3546b1a3c3defba04a7fc87")],
    [text |-> "d8:announce7:udp:/tr4:infod6:lengthi1e4:name0:12:piece lengthi1e6:piec" \o
               "es20:Zq<7#kd_~W0pL!m:e3@xee",
     outcome |-> "read", announce |-> "udp:/tr", piece_length |-> 1,
     pieces |-> <<"Zq<7#kd_~W0pL!m:e3@x">>, length |-> 1, info_hash |-> Hex("3caf93984b995f41c32217e12ad36450535365e8")],
    [text |-> "d8:announce11:udp://tr:694:infod6:lengthi40001e4:name1:a12:piece lengt" \o
               "hi64e6:pieces0:ee",
     outcome |-> "refused", announce |-> "", piece_length |-> 0,
     pieces |-> <<>>, length |-> 0, info_hash |-> Hex("")],
    [text |-> "d8:announce11:udp://tr:694:infod6:lengthi-40002e4:name1:a12:piece leng" \o
               "thi64e6:pieces0:ee",
     outcome |-> "refused", announce |-> "", piece_length |-> 0,
     pieces |-> <<>>, length |-> 0, info_hash |-> Hex("")],
    [text |-> "d8:announce11:udp://tr:694:infod6:lengthi100000e4:name1:a12:piece leng" \o
               "thi64e6:pieces0:ee",
     outcome |-> "refused", announce |-> "", piece_length |-> 0,
     pieces |-> <<>>, length |-> 0, info_hash |-> Hex("")],
    [text |-> "d8:announce11:udp://tr:694:infod6:lengthi1e6:lengthi2e6:pieces0:12:pie" \o
               "ce lengthi1eee",
     outcome |-> "refused", announce |-> "", piece_length |-> 0,
     pieces |-> <<>>, length |-> 0, info_hash |-> Hex("")],
    [text |-> "d8:announcel11:udp://tr:69e4:infod6:lengthi5e4:name1:a12:piece lengthi" \o
               "64e6:pieces0:ee",
     outcome |-> "refused", announce |-> "", piece_length |-> 0,
     pieces |-> <<>>, length |-> 0, info_hash |-> Hex("")],
    [text |-> "d4:infod6:lengthi5e4:name1:a12:piece lengthi64e6:pieces0:ee",
     outcome |-> "refused", announce |-> "", piece_length |-> 0,
     pieces |-> <<>>, length |-> 0, info_hash |-> Hex("")],
    [text |-> "d8:announce11:udp://tr:694:infodee",
     outcome |-> "refused", announce |-> "", piece_length |-> 0,
     pieces |-> <<>>, length |-> 0, info_hash |-> Hex("")],
    [text |-> "le",
     outcome |-> "refused", announce |-> "", piece_length |-> 0,
     pieces |-> <<>>, length |-> 0, info_hash |-> Hex("")],
    [text |-> "3:abc",
     outcome |-> "refused", announce |-> "", piece_length |-> 0,
     pieces |-> <<>>, length |-> 0, info_hash |-> Hex("")],
    [text |-> "e",
     outcome |-> "refused", announce |-> "", piece_length |-> 0,
     pieces |-> <<>>, length |-> 0, info_hash |-> Hex("")],
    [text |-> "di1ei2ee",
     outcome |-> "refused", announce |-> "", piece_length |-> 0,
     pieces |-> <<>>, length |-> 0, info_hash |-> Hex("")],
    [text |-> "d3:abce",
     outcome |-> "refused", announce |-> "", piece_length |-> 0,
     pieces |-> <<>>, length |-> 0, info_hash |-> Hex("")],
    [text |-> "i12x",
     outcome |-> "refused", announce |-> "", piece_length |-> 0,
     pieces |-> <<>>, length |-> 0, info_hash |-> Hex("")],
    [text |-> "?",
     outcome |-> "refused", announce |-> "", piece_length |-> 0,
     pieces |-> <<>>, length |-> 0, info_hash |-> Hex("")],
    [text |-> "d8:announce11:udp://tr:694:infod6:lengthi-5e4:name1:a12:piece lengthi6" \o
               "4e6:pieces24:Zq<7#kd_~W0pL!m:e3@xrestee",
     outcome |-> "any", announce |-> "", piece_length |-> 0,
     pieces |-> <<>>, length |-> 0, info_hash |-> Hex("")],
    [text |-> "d8:announce11:udp://tr:694:infod6:lengthie4:name1:a12:piece lengthi64e" \o
               "6:pieces0:ee",
     outcome |-> "any", announce |-> "", piece_length |-> 0,
     pieces |-> <<>>, length |-> 0, info_hash |-> Hex("")],
    [text |-> "d8:announce11:udp://tr:694:infod5:filesld6:lengthi5e4:pathl1:aeee4:nam" \o
               "e1:a12:piece lengthi64e6:pieces20:Zq<7#kd_~W0pL!m:e3@xee",
     outcome |-> "any", announce |-> "", piece_length |-> 0,
     pieces |-> <<>>, length |-> 0, info_hash |-> Hex("")],
    [text |-> "d8:announce11:udp://tr:694:infod6:pieces0:12:piece lengthi3e6:lengthi4" \o
               "eee",
     outcome |-> "any", announce |-> "", piece_length |-> 0,
     pieces |-> <<>>, length |-> 0, info_hash |-> Hex("")] >>

MCHosts    == {"tr", "10.0.0.1"}
MCServices == {"69", "6969"}

\* The client's own endpoint among them
MCLocal == {[address |-> <<127, 0, 0, 1>>, port |-> 6881]}
MCPeers == <<[address |-> <<10, 0, 200, 3>>, port |-> 50007], [address |-> <<127, 0, 0, 1>>, port |-> 6881],
             [address |-> <<127, 0, 0, 1>>, port |-> 6882], [address |-> <<0, 255, 0, 1>>, port |-> 255]>>

\* As many as fit the buffer, and one more; more than are listed; an error
MCSwarms ==
    {[peers |-> MCPeers, leechers |-> l, seeders |-> s] : l \in {0, 3, 165, 300}, s \in {0, 1, 2}}
        \cup {[peers |-> [i \in 1 .. 166 |-> [address |-> <<i, 2, 3, 4>>, port |-> i]], leechers |-> 83, seeders |-> 83],
              [message |-> <<>>], [message |-> <<110, 111>>]}

\* Bytes that are all the same
MCRandom(n) == {[i \in 1 .. n |-> b] : b \in {5, 200}}

MCPids == {0, 70000, 99999}

=============================================================================
