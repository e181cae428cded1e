----------------------------- MODULE BlockHomes -----------------------------
(* What migration promises: every block has one home, a move takes it to    *)
(* another in one step, and a pinned block is not moved.                     *)

CONSTANTS Blocks, Pinned

VARIABLE home   \* block -> tier

Homes == {"GPU", "DRAM", "NVM"}

Arrive(b) == home[b] = "NONE" /\ \E t \in {"GPU", "DRAM"} : home' = [home EXCEPT ![b] = t]
Leave(b)  == home[b] # "NONE" /\ home' = [home EXCEPT ![b] = "NONE"]
Move(b)   == /\ home[b] # "NONE" /\ b \notin Pinned
             /\ \E t \in Homes : home' = [home EXCEPT ![b] = t]

Init == home = [b \in Blocks |-> "NONE"]
Next == \E b \in Blocks : Arrive(b) \/ Leave(b) \/ Move(b)
Spec == Init /\ [][Next]_home
=============================================================================
