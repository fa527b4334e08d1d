--------------------------- MODULE MCLeechChoker ---------------------------
(***************************************************************************)
(* Instances of LeechChoker: peers are model values.                       *)
(***************************************************************************)
EXTENDS LeechChoker

CONSTANTS p1, p2, p3

=============================================================================
