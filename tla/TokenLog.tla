------------------------------ MODULE TokenLog ------------------------------
(***************************************************************************)
(* What every KV-cache manager of python/orchkv promises to the decoding    *)
(* loop that drives it, whatever tiers, buffers and policies it has: the    *)
(* cache build_past_kv would return for a layer is the sequence of tokens   *)
(* the model has produced, and it only ever grows, by the tokens that come *)
(* next.  Token p of a sequence is the number p.                           *)
(***************************************************************************)
EXTENDS Naturals, Sequences

CONSTANTS Layers

VARIABLES
  conv,     \* the number of the conversation
  seqLen,   \* the length of the cache the last forward pass produced
  kept      \* layer -> what build_past_kv would return for it

logVars == <<conv, seqLen, kept>>

Upto(n) == [p \in 1 .. n |-> p]

LogInit == conv = 0 /\ seqLen = 0 /\ kept = [l \in Layers |-> << >>]

\* The model runs on the whole cache and produces further tokens.
LogForward ==
  /\ kept = [l \in Layers |-> Upto(seqLen)]
  /\ seqLen' \in Nat /\ seqLen' > seqLen
  /\ UNCHANGED <<conv, kept>>

\* The manager takes produced tokens in, all of them unless the call fails
\* half way.
LogAbsorb ==
  /\ \A l \in Layers : \E n \in Len(kept[l]) .. seqLen : kept'[l] = Upto(n)
  /\ DOMAIN kept' = Layers
  /\ UNCHANGED <<conv, seqLen>>

\* The model runs without a cache on a new prompt.
LogRestart ==
  /\ conv' = conv + 1
  /\ seqLen' \in Nat
  /\ kept' = [l \in Layers |-> << >>]

LogSpec == LogInit /\ [][LogForward \/ LogAbsorb \/ LogRestart]_logVars
=============================================================================
