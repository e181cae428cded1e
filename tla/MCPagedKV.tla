----------------------------- MODULE MCPagedKV -----------------------------
(* Instances of PagedKV for TLC: the constants are set in the cfg files.   *)
EXTENDS PagedKV, TLC
=============================================================================
