------------------------- MODULE MCAttentionHooks -------------------------
(* Instances of AttentionHooks for TLC: a self_attn with a module inside it *)
(* and another without; the forward of the inner one takes the keyword or   *)
(* does not.                                                               *)
EXTENDS AttentionHooks

MCLast == <<2, 2, 3>>
MCAcceptSets == {{1, 2, 3}, {1, 3}}
=============================================================================
