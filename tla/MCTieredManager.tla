-------------------------- MODULE MCTieredManager --------------------------
(* Instances of TieredManager for TLC.                                     *)
EXTENDS TieredManager

CONSTANTS b1, b2, b3, g1, g2, d1, d2, n1, n2, t1, t2
=============================================================================
