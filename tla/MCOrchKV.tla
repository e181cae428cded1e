----------------------------- MODULE MCOrchKV -----------------------------
(* Instances of OrchKV for TLC.                                            *)
EXTENDS OrchKV, TLC

CONSTANTS r1, r2

\* The first block of head 0 of r1 may be pinned.
FirstBlock == {<<r1, 0, 0, 0>>}

\* One caller fills two blocks per head, the other competes with one token.
LongAndShort == r1 :> 3 @@ r2 :> 1
Alone        == r1 :> 4

\* Every failure the code reports or rolls back; "upload" and "sync" are the
\* ones it drops.
ReportedFaults == {"open", "d2h", "h2d", "write", "read"}
=============================================================================
