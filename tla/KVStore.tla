------------------------------ MODULE KVStore ------------------------------
(***************************************************************************)
(* What the block store promises, with no blocks, tiers or slabs: for each *)
(* request and layer, every KV head holds the sequence of tokens that was  *)
(* written to it.  Moving data between tiers is no step of this store.     *)
(***************************************************************************)
EXTENDS Integers, Sequences

CONSTANTS Requests, Layers, Heads, MaxTokens

VARIABLE kv   \* <<request, layer>> -> head -> sequence of tokens

Empty == [h \in Heads |-> <<>>]

\* The tokens that positions m .. n-1 of a head hold.
Written(x, h, m, n) == [i \in 1 .. n - m |-> <<x[1], x[2], h, m + i - 1>>]

\* A prefill or an append: the heads of a layer grow by the same n tokens.
Extend(x, n) ==
  kv' = [kv EXCEPT ![x] =
          [h \in Heads |-> @[h] \o Written(x, h, Len(@[h]), Len(@[h]) + n)]]

\* The end of a request.
Drop(r) == kv' = [x \in Requests \X Layers |-> IF x[1] = r THEN Empty ELSE kv[x]]

Init == kv = [x \in Requests \X Layers |-> Empty]
Next == \/ \E x \in Requests \X Layers, n \in 1 .. MaxTokens : Extend(x, n)
        \/ \E r \in Requests : Drop(r)
Spec == Init /\ [][Next]_kv
=============================================================================
