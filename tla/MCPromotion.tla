--------------------------- MODULE MCPromotion ---------------------------
(* Small instances of Promotion for TLC. *)
EXTENDS Promotion

CONSTANTS r1, r2, r3, p1, p2
==========================================================================
