----------------------------- MODULE MCUpload -----------------------------
(***************************************************************************)
(* One peer that connects to us and one we connect to, a request of each,  *)
(* two pieces.                                                             *)
(***************************************************************************)
EXTENDS Upload

CONSTANTS p1, p2, i1, i2, r1, r2

MCAsker == [r \in {r1, r2} |-> IF r = r1 THEN p1 ELSE p2]
MCAsked == [r \in {r1, r2} |-> i1]

=============================================================================
