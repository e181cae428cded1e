---------------------------- MODULE MCAddressMap ----------------------------
(* An instance of AddressMap for TLC.                                      *)
EXTENDS AddressMap, TLC

CONSTANTS k1, k2, k3, k4, k5

\* In a table of 4, three ids start at the last bucket and wrap around its
\* end, and the homes of all five reach every bucket, so that tombstones can
\* fill it; in a table of 8, k2 and k3 collide at the last bucket.
Homes == k1 :> 3 @@ k2 :> 7 @@ k3 :> 15 @@ k4 :> 5 @@ k5 :> 2
=============================================================================
