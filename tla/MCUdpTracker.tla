---------------------------- MODULE MCUdpTracker ----------------------------
(***************************************************************************)
(* Instances of UdpTracker: ids and activations are model values.          *)
(***************************************************************************)
EXTENDS UdpTracker, TLC

CONSTANTS t1, t2, t3, t4, r1, r2

ThreeTids == {t1, t2, t3}
FourTids == {t1, t2, t3, t4}

Symmetry == Permutations(Tids)

=============================================================================
