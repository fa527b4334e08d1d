----------------------------- MODULE AbsorbData ------------------------------
(***************************************************************************)
(* How every provider of digestpp cuts what it is given into blocks        *)
(* (detail/absorb_data.hpp): operators only.                               *)
(***************************************************************************)
EXTENDS Words

Zeros(n) == [i \in 1 .. n |-> 0]

\* memcpy and memset into a buffer, after its first "at" bytes
Overwrite(m, at, d) == SubSeq(m, 1, at) \o d \o SubSeq(m, at + Len(d) + 1, Len(m))
Cleared(m, at, to)  == Overwrite(m, at, Zeros(to - at))

\* A slip of absorb_bytes: a block that was begun earlier is not counted.
CountedLate(q, bs, begun) == [q EXCEPT !.total = @ + (IF begun THEN 0 ELSE 8 * bs)]

Counted(q, bs, begun) == [q EXCEPT !.total = @ + 8 * bs]

\* The data complete a block that was begun.  Blocks are of bs bytes and taken once
\* bschk are there: a bschk of bs + 1 holds the last block back.
Completes(p, data, bschk) == p.pos > 0 /\ p.pos + Len(data) >= bschk

WholeBlocks(left, bs, bschk) == IF left >= bschk THEN (left + bs - bschk) \div bs ELSE 0

Keep(p, rest) == [p EXCEPT !.m = Overwrite(@, p.pos, rest), !.pos = @ + Len(rest)]

\* absorb_bytes: complete the block begun, take the whole blocks from the data,
\* keep the rest.
Absorb(p, data, bs, bschk, transform(_, _)) ==
    LET fill   == Completes(p, data, bschk)
        head   == IF fill THEN bs - p.pos ELSE 0
        m      == Overwrite(p.m, p.pos, SubSeq(data, 1, head))
        p1     == IF fill THEN [Counted(transform(p, SubSeq(m, 1, bs)), bs, TRUE) EXCEPT !.m = m, !.pos = 0] ELSE p
        blocks == WholeBlocks(Len(data) - head, bs, bschk)
        p2     == Loop(LAMBDA q, i : Counted(transform(q, SubSeq(data, head + (i - 1) * bs + 1, head + i * bs)),
                                          bs, FALSE),
                       p1, blocks)
    IN Keep(p2, SubSeq(data, head + blocks * bs + 1, Len(data)))

=============================================================================
