------------------------------- MODULE Hasher --------------------------------
(***************************************************************************)
(* A hasher of digestpp (hasher.hpp) over one of its providers, used as    *)
(* the interface allows: parameters are set, a message is absorbed in      *)
(* pieces, its digest is taken at any time or its output squeezed out      *)
(* piece by piece, and the hasher is reset.  The service hashes blocks and *)
(* the info dict with the SHA-1 of this interface (sha1.h).                *)
(*                                                                         *)
(* Vectors are published results: an algorithm, the parameters it was      *)
(* given by name, a message, and its digest or the start of its output.    *)
(***************************************************************************)
EXTENDS AbsorbData

CONSTANTS
    init(_, _),         \* the members of the provider that is the template's argument,
    update(_, _, _),    \* each of an algorithm and the provider before it
    final(_, _),
    squeeze(_, _, _),
    Vectors,      \* a sequence of records [alg, parameters, msg, md]
    Pieces,       \* how many bytes one call absorbs or squeezes, when not all that are left
    Iterated,     \* how many bytes one call absorbs between iterators
    Stale,        \* the bytes a buffer may hold before it is written
    MaxRestarts   \* bound: how often one hasher is reset

ASSUME HasherAssumption ==
    /\ \A i \in DOMAIN Vectors : /\ DOMAIN Vectors[i] = {"alg", "parameters", "msg", "md"}
                                /\ \A n \in DOMAIN Vectors[i].parameters : Vectors[i].parameters[n] # <<>>
    /\ Pieces \cup Iterated \subseteq Nat \ {0} /\ Stale \subseteq 0 .. 255 /\ MaxRestarts \in Nat

VARIABLES
    vector,     \* which of Vectors is used
    provider,   \* the members of the provider
    set,        \* the names of the parameters that are set
    absorbed,   \* how many bytes of the message were absorbed since init()
    out,        \* the last digest of these bytes, or the bytes squeezed out
    restarts

vars == <<vector, provider, set, absorbed, out, restarts>>

a   == Vectors[vector].alg
msg == Vectors[vector].msg
md  == Vectors[vector].md

IsXof == a.hs = 0

-----------------------------------------------------------------------------
(* The provider that is the template's argument                             *)

\* Its members before anything is written to them
Constructed(alg, stale) ==
    LET sponge == alg.name \in {"sha3", "shake", "kmac"}
        size   == CASE sponge -> alg.rate \div 8 [] alg.name = "skein" -> alg.state \div 8 [] OTHER -> 2 * alg.w
    IN [H |-> <<>>, hbk |-> <<>>, A |-> <<>>, tweak |-> <<{}, {}>>, nonce |-> <<>>, m |-> Tuple([i \in 1 .. size |-> stale]), pos |-> 0, total |-> 0,
        squeezing |-> FALSE, xoffset |-> 0, salt |-> <<>>, personalization |-> <<>>,
        key |-> <<>>, function_name |-> <<>>, customization |-> <<>>]

\* What the constructors check of a hash size, and a XOF has none.  The list of
\* sizes of SHA-3 and BLAKE is not looked at: the result of std::find is never null.
HashSizeAccepted(alg) ==
    CASE alg.hs = 0                       -> alg.name \in {"shake", "kmac", "blake2", "skein"}
      [] alg.name \in {"kmac", "skein"}   -> alg.hs % 8 = 0
      [] alg.name = "sha2" /\ alg.w = 64  -> alg.hs % 8 = 0 /\ alg.hs <= 512
      [] alg.name = "blake2"              -> /\ alg.hs % 8 = 0
                                             /\ alg.hs <= (IF alg.type = "hash" THEN 8 * alg.w ELSE 4 * alg.w * alg.w - 16)
      [] OTHER                            -> TRUE

LengthAccepted(name, n) ==
    CASE a.name = "blake"  -> n = a.w \div 2
      [] a.name = "blake2" -> IF name = "key" THEN n <= a.w ELSE n = a.w \div 4
      [] OTHER             -> TRUE

\* clear() also forgets the parameters.
Clear(p) ==
    [p EXCEPT !.m = Zeros(Len(@)), !.salt = <<>>, !.personalization = <<>>, !.nonce = <<>>, !.key = <<>>,
              !.function_name = <<>>, !.customization = <<>>]

-----------------------------------------------------------------------------

Init ==
    /\ vector \in DOMAIN Vectors
    /\ HashSizeAccepted(a)
    /\ \E s \in Stale : provider = init(a, Constructed(a, s))
    /\ set = {} /\ absorbed = 0 /\ out = <<>> /\ restarts = 0

\* set_key() and the others of the mixins: what was absorbed is forgotten.  A
\* length that is not accepted is refused before anything is changed.
SetParameter(name) ==
    /\ name \in DOMAIN Vectors[vector].parameters \ set
    /\ LengthAccepted(name, Len(Vectors[vector].parameters[name]))
    /\ provider' = init(a, [provider EXCEPT ![name] = Vectors[vector].parameters[name]])
    /\ set' = set \cup {name}
    /\ absorbed' = 0
    /\ out' = <<>>
    /\ UNCHANGED <<vector, restarts>>

\* absorb(data, len) and absorb(str), before anything is squeezed out
Absorb_(n) ==
    /\ ~IsXof \/ out = <<>>
    /\ absorbed + n <= Len(msg)
    /\ provider' = update(a, provider, SubSeq(msg, absorbed + 1, absorbed + n))
    /\ absorbed' = absorbed + n
    /\ out' = <<>>
    /\ UNCHANGED <<vector, set, restarts>>

\* absorb(begin, end): a byte at a time
AbsorbIterated(n) ==
    /\ ~IsXof \/ out = <<>>
    /\ absorbed + n <= Len(msg)
    /\ provider' = Loop(LAMBDA p, i : update(a, p, <<msg[absorbed + i]>>), provider, n)
    /\ absorbed' = absorbed + n
    /\ out' = <<>>
    /\ UNCHANGED <<vector, set, restarts>>

\* digest(), hexdigest(): a copy of the provider is finished.
Digest ==
    /\ ~IsXof
    /\ out' = final(a, provider)
    /\ UNCHANGED <<vector, provider, set, absorbed, restarts>>

\* squeeze(), hexsqueeze()
Squeeze(n) ==
    /\ IsXof
    /\ Len(out) + n <= Len(md)
    /\ \E s \in {squeeze(a, provider, n)} : provider' = s.p /\ out' = out \o s.out
    /\ UNCHANGED <<vector, set, absorbed, restarts>>

Reset(resetParameters) ==
    /\ restarts < MaxRestarts
    /\ restarts' = restarts + 1
    /\ provider' = init(a, IF resetParameters THEN Clear(provider) ELSE provider)
    /\ set' = IF resetParameters THEN {} ELSE set
    /\ absorbed' = 0
    /\ out' = <<>>
    /\ UNCHANGED vector

Left == Len(msg) - absorbed

Next ==
    \/ \E name \in DOMAIN Vectors[vector].parameters : SetParameter(name)
    \/ \E n \in Pieces \cup {Left} : Absorb_(n)
    \/ \E n \in Iterated : AbsorbIterated(n)
    \/ Digest
    \/ \E n \in Pieces : Squeeze(n)
    \/ \E resetParameters \in BOOLEAN : Reset(resetParameters)

Spec == Init /\ [][Next]_vars

-----------------------------------------------------------------------------

\* Whatever the pieces a message is absorbed in, whatever was absorbed, digested
\* or squeezed before a restart and whatever the buffer held: the digest of the
\* whole message is the published one, and what was squeezed out is the start of
\* the published output.
DigestAsPublished ==
    (absorbed = Len(msg) /\ set = DOMAIN Vectors[vector].parameters /\ out # <<>>) =>
        IF IsXof THEN out = SubSeq(md, 1, Len(out)) ELSE out = md

=============================================================================
