----------------------------- MODULE BlockIndex -----------------------------
(* What the address map promises: a set of block ids, and what each call on *)
(* it returns.                                                              *)

CONSTANT Keys

VARIABLES
  held,    \* the ids inserted and not removed
  last     \* the last call: <<operation, id, result>>

Init == held = {} /\ last = <<>>

Insert(k) ==
  \/ /\ k \in held /\ last' = <<"insert", k, "ALREADY">> /\ UNCHANGED held
  \/ /\ k \notin held /\ held' = held \union {k} /\ last' = <<"insert", k, "OK">>
  \/ /\ last' = <<"insert", k, "OOM">> /\ UNCHANGED held

Remove(k) ==
  /\ last' = <<"remove", k, IF k \in held THEN "OK" ELSE "NOT_FOUND">>
  /\ held' = held \ {k}

Lookup(k) ==
  /\ last' = <<"lookup", k, IF k \in held THEN "OK" ELSE "NOT_FOUND">>
  /\ UNCHANGED held

Next == \E k \in Keys : Insert(k) \/ Remove(k) \/ Lookup(k)
Spec == Init /\ [][Next]_<<held, last>>
=============================================================================
