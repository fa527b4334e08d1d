------------------------------ MODULE Bencode -------------------------------
(***************************************************************************)
(* The bencode of metainfo files (bencode.h): operators only, used by      *)
(* Startup.  A text is a string; positions in it count from 1.             *)
(*                                                                         *)
(* Decoded data are nodes: basic_decode allocates one for each value it    *)
(* stores, a container holds the numbers of its elements (a Data* in the   *)
(* code), and the first node is the root.  The state of basic_decode is a  *)
(* record of its local variables, and Iteration is one turn of its loop;   *)
(* every error ends in a decode_error, so errors are not told apart.       *)
(***************************************************************************)
EXTENDS Integers, Sequences, FiniteSetsExt, SequencesExt, TLC

CONSTANTS
    MaxInteger,  \* stands for the largest long long; the smallest is -MaxInteger - 1
    Digits10     \* as many decimal digits as always fit: numeric_limits::digits10

ASSUME BencodeAssumption ==
    /\ MaxInteger \in Nat /\ Digits10 \in Nat
    /\ 10 ^ Digits10 - 1 <= MaxInteger /\ MaxInteger < 10 ^ (Digits10 + 1) - 1

At(f, i) == IF i <= Len(f) THEN SubSeq(f, i, i) ELSE "eof"

DigitChars  == {ToString(n) : n \in 0 .. 9}
DigitAt(f, i) == CHOOSE n \in 0 .. 9 : ToString(n) = At(f, i)

-----------------------------------------------------------------------------
(* Numbers and strings: what was read, where reading stopped, whether it    *)
(* was well formed.                                                         *)

\* A slip of decode_digits: the last digit is taken without check_over_underflow.
DecodeDigitsUnchecked(f, i, sgn) ==
    LET last  == Min({j \in i .. Len(f) + 1 : At(f, j) \notin DigitChars})
        value == sgn * MapThenSumSet(LAMBDA j : DigitAt(f, j) * 10 ^ (last - 1 - j),
                                     i .. last - 1)
    IN [ok    |-> last <= Len(f) /\ last - i <= Digits10 + 1,
        value |-> value, begin |-> last]

\* Digits10 digits are taken as they come, one more if the value stays in
\* range, and no further digit may follow.  No digit at all is a zero.
DecodeDigits(f, i, sgn) ==
    LET last  == Min({j \in i .. Len(f) + 1 : At(f, j) \notin DigitChars})
        value == sgn * MapThenSumSet(LAMBDA j : DigitAt(f, j) * 10 ^ (last - 1 - j),
                                     i .. last - 1)
    IN [ok    |-> /\ last <= Len(f)
                  /\ last - i <= Digits10 + 1
                  /\ -MaxInteger - 1 <= value /\ value <= MaxInteger,
        value |-> value, begin |-> last]

DecodeInt(f, i) ==
    LET minus == At(f, i + 1) = "-"
        d     == IF minus THEN DecodeDigits(f, i + 2, -1) ELSE DecodeDigits(f, i + 1, 1)
    IN [d EXCEPT !.ok = @ /\ At(f, d.begin) = "e", !.begin = @ + 1]

DecodeStr(f, i) ==
    LET d    == DecodeDigits(f, i, 1)
        stop == d.begin + 1 + d.value
    IN [ok    |-> d.ok /\ At(f, d.begin) = ":" /\ stop <= Len(f) + 1,
        value |-> SubSeq(f, d.begin + 1, Min({stop - 1, Len(f)})), begin |-> stop]

-----------------------------------------------------------------------------
(* basic_decode                                                             *)

DecodeStart == [begin |-> 1, nodes |-> <<>>, state |-> <<>>, dict_key |-> "", outcome |-> "running"]

Failed(s) == [s EXCEPT !.outcome = "error"]

InDict(s) == s.state # <<>> /\ s.nodes[Last(s.state)].kind = "dict"

\* store(): the value becomes the root, the last of a list, or the entry of
\* the key read before it, which must be new.
Store(s, kind, value) ==
    LET id   == Len(s.nodes) + 1
        node == [kind |-> kind, value |-> value]
        top  == Last(s.state)
        held == s.nodes[top].value
        With(v) == [s EXCEPT !.nodes = Append([@ EXCEPT ![top].value = v], node)]
    IN IF s.state = <<>>   THEN [s EXCEPT !.nodes = <<node>>]
       ELSE IF ~InDict(s)  THEN With(Append(held, id))
       ELSE IF s.dict_key \notin DOMAIN held THEN With(held @@ (s.dict_key :> id))
       ELSE Failed(s)

\* state.push(store(...))
Open(s, kind, empty) ==
    LET t == Store([s EXCEPT !.begin = @ + 1], kind, empty)
    IN [t EXCEPT !.state = Append(@, Len(t.nodes))]

StoreRead(s, kind, read) ==
    IF read.ok THEN Store([s EXCEPT !.begin = read.begin], kind, read.value) ELSE Failed(s)

DecodeKey(f, s) ==
    LET read == DecodeStr(f, s.begin) IN
    IF At(f, s.begin) \in DigitChars /\ read.ok
    THEN [s EXCEPT !.begin = read.begin, !.dict_key = read.value] ELSE Failed(s)

DecodeValue(f, s) ==
    LET c == At(f, s.begin) IN
    CASE s.outcome = "error" -> s
      [] c = "i"             -> StoreRead(s, "int", DecodeInt(f, s.begin))
      [] c = "l"             -> Open(s, "list", <<>>)
      [] c = "d"             -> Open(s, "dict", <<>>)
      [] c \in DigitChars    -> StoreRead(s, "string", DecodeStr(f, s.begin))
      [] OTHER               -> Failed(s)

Iteration(f, s) ==
    LET t == IF At(f, s.begin) # "e"
             THEN DecodeValue(f, IF InDict(s) THEN DecodeKey(f, s) ELSE s)
             ELSE IF s.state = <<>> THEN Failed(s)
             ELSE [s EXCEPT !.begin = @ + 1, !.state = Front(@)]
    IN IF t.state = <<>> /\ t.outcome = "running" THEN [t EXCEPT !.outcome = "done"] ELSE t

-----------------------------------------------------------------------------
(* encode.  A dict is a std::map: its keys come in the order of their       *)
(* characters, whatever the order they were read in.                        *)

\* The characters from 32 to 126, a tab in the backquote's place
Alphabet == " !\"#$%&'()*+,-./0123456789:;<=>?@ABCDEFGHIJKLMNOPQRSTUVWXYZ[\\]^_\tabcdefghijklmnopqrstuvwxyz{|}~"
Rank(c)  == CHOOSE i \in 1 .. Len(Alphabet) : At(Alphabet, i) = c

KeyBefore(a, b) ==
    \E n \in 0 .. Len(a) :
        /\ n < Len(b) /\ SubSeq(a, 1, n) = SubSeq(b, 1, n)
        /\ n = Len(a) \/ Rank(At(a, n + 1)) < Rank(At(b, n + 1))

EncodeStr(v) == ToString(Len(v)) \o ":" \o v

Concat(texts) == FoldLeft(LAMBDA a, b : a \o b, "", texts)

\* The texts of all nodes; an element's number is greater than its container's.
Encoding(nodes) ==
    LET enc[n \in DOMAIN nodes] ==
            LET v == nodes[n].value IN
            CASE nodes[n].kind = "int"    -> "i" \o ToString(v) \o "e"
              [] nodes[n].kind = "string" -> EncodeStr(v)
              [] nodes[n].kind = "list"   -> "l" \o Concat([i \in DOMAIN v |-> enc[v[i]]]) \o "e"
              [] nodes[n].kind = "dict"   ->
                    LET keys == SortSeq(FoldSet(LAMBDA k, ks : Append(ks, k), <<>>, DOMAIN v), KeyBefore)
                    IN "d" \o Concat([i \in DOMAIN keys |->
                                          EncodeStr(keys[i]) \o enc[v[keys[i]]]]) \o "e"
    IN enc

=============================================================================
