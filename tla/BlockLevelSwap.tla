-------------------------- MODULE BlockLevelSwap --------------------------
(***************************************************************************)
(* block_level_swap.py and engine_patch.py together: processes patch the    *)
(* scheduler's source, one of them starts the engine from the file it finds *)
(* (vLLM, external), and install_block_scoring attaches a scorer to an      *)
(* engine that runs.                                                       *)
(***************************************************************************)
EXTENDS SchedulerPatch, VictimChoice

CONSTANTS
  Versions,    \* values ORCHKV_BLOCK_SCORE may have; 0 is off
  Installs     \* versions install_block_scoring may be called with

VARIABLES
  engine,      \* "off", "up", or "failed": its import raised
  installing   \* process -> the version its call will attach, None in a bare
               \* call of apply_scheduler_patch

vars == <<patchVars, victimVars, engine, installing>>

\* create_scorer: version 3 passes an argument HybridScorer does not take, and
\* raises, as for a version there is none of: the scheduler has no scorer then.
Created(v) == IF v \in {1, 2, 4} THEN v ELSE None

\* A process whose call returned imports vLLM and starts its engine: the text
\* it imports is that of the file at this moment.  (What the text of the old
\* release does is not modelled.)
Launch(p) ==
  /\ engine = "off" /\ ~Inside(p) /\ result[p] \in {"true", "false"}
  /\ engine' = IF file \in {"empty", "cut"} THEN "failed" ELSE "up"
  /\ loaded' = (file = "v5")
  /\ \E v \in Versions : scorer' = IF loaded' THEN Created(v) ELSE None
  /\ result' = [q \in Procs |-> "none"]
  /\ UNCHANGED <<file, bak, oldbak, pc, content, calls, overlapped, queueVars, trackerVars,
                 installing>>

\* install_block_scoring: the file is patched as ever; what apply_scheduler_patch
\* returns is not looked at, but what it raises ends the call.  A scorer that is
\* there stays.
BeginInstall(p) ==
  /\ engine = "up" /\ installing[p] = None /\ Read(p)
  /\ \E v \in Installs : installing' = [installing EXCEPT ![p] = v]
  /\ UNCHANGED <<victimVars, engine>>

Attached(v) == IF scorer = None THEN Created(v) ELSE scorer
EndInstall(p) ==
  /\ installing[p] # None /\ ~Inside(p)
  /\ installing' = [installing EXCEPT ![p] = None]
  /\ scorer' = IF result[p] = "raised" THEN scorer ELSE Attached(installing[p])
  /\ result' = [result EXCEPT ![p] = "none"]
  /\ UNCHANGED <<file, bak, oldbak, pc, content, calls, overlapped, loaded, queueVars,
                 trackerVars, engine>>

\* A bare call begins before there is an engine: what later ones do to the
\* files the calls of install_block_scoring do as well.
PatchStep(p) ==
  /\ Inside(p) \/ engine = "off"
  /\ Apply(p) \/ Crash(p)
  /\ UNCHANGED <<victimVars, engine, installing>>

Schedule == engine = "up" /\ SchedStep /\ UNCHANGED <<patchVars, engine, installing>>
Request  == engine = "up" /\ Arrive /\ UNCHANGED <<patchVars, engine, installing>>

Init == /\ PatchInit /\ VictimInit /\ engine = "off" /\ installing = [p \in Procs |-> None]
Next == \/ \E p \in Procs : Launch(p) \/ BeginInstall(p) \/ EndInstall(p) \/ PatchStep(p)
        \/ engine = "off" /\ Reinstall /\ UNCHANGED <<victimVars, engine, installing>>
        \/ Schedule \/ Request
Spec == Init /\ [][Next]_vars

\* A running engine goes on scheduling while it has requests.
FairSpec == Spec /\ WF_vars(Schedule)

-----------------------------------------------------------------------------
(* Properties.                                                             *)

RunningReqs == ToSet(todo) \cup ToSet(served)

\* What each variable may hold; a request is in one queue and once, and the
\* tables of two share no block.
TypeOK ==
  /\ PatchTypeOK
  /\ loaded \in BOOLEAN /\ scorer \in {None, 1, 2, 4} /\ engine \in {"off", "up", "failed"}
  /\ \A p \in Procs : installing[p] \in Installs \cup {None}
  /\ \A r \in Reqs : table[r] \in Seq(BlockIds) /\ length[r] \in Prompt[r] .. FullLen[r]
  /\ IsInjective(waiting \o todo \o served)
  /\ \A r, q \in Reqs : r # q => ToSet(table[r]) \cap ToSet(table[q]) = {}
  /\ \A r \in RunningReqs : Len(table[r]) = length[r]
  /\ DOMAIN scores = DOMAIN info

\* Every request that arrives gets all its tokens, whichever scorer picks the victims and
\* however often it is one itself: each victim waits before those that came
\* later and keeps its tokens (block_level_swap.py:606-623).
AllFinish == \A r \in Reqs : r \in ToSet(waiting) ~> length[r] = FullLen[r]

\* "Safe to call after engine creation" (block_level_swap.py:650): the engine
\* a scorer is attached to asks it for its victims.
InstalledScores == engine = "up" /\ scorer # None => loaded
=============================================================================
