--------------------------- MODULE MCIOWorkerPool ---------------------------
(* Instances of IOWorkerPool for TLC.                                      *)
EXTENDS IOWorkerPool, TLC

CONSTANTS w1, w2, c1, c2, c3, p1, p2, p3

\* One caller moves two blocks, the other one.
TwoAndOne == c1 :> {p1, p2} @@ c2 :> {p3}

\* Every caller has a block of its own.
OneForEach == [c \in Callers |-> {CASE c = c1 -> p1 [] c = c2 -> p2 [] c = c3 -> p3}]
=============================================================================
