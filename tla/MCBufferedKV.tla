---------------------------- MODULE MCBufferedKV ----------------------------
(* Instances of BufferedKV for TLC: the constants are set in the cfg files. *)
EXTENDS BufferedKV
=============================================================================
