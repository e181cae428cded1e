-------------------------- MODULE SchedulerPatch --------------------------
(***************************************************************************)
(* apply_scheduler_patch of vllm_integration/block_level_swap.py: it reads  *)
(* vLLM's scheduler.py, and rewrites it in place with the scoring code.     *)
(* Each experiment's process calls it before it starts its engine, and      *)
(* nothing keeps two of them from calling it at once; a process may be      *)
(* killed, or fail to write, between any two of its file operations.        *)
(*                                                                         *)
(* A text is told apart by what the function looks for in it:              *)
(*   "vanilla"  the two anchors, no marker;     "v5"  the marker, complete  *)
(*   "v4"       the marker of the release before, the second anchor gone    *)
(*   "other"    neither anchors nor markers (another vLLM)                  *)
(*   "empty"    a file opened for writing;      "cut" the first part of v5  *)
(***************************************************************************)
EXTENDS Naturals

CONSTANTS
  Procs,       \* processes that call the function
  FirstFiles,  \* <<scheduler.py, its .pre_blockscore.bak>> there may be at first
  MaxCalls     \* BOUND: calls in all

Absent == "absent"
Texts  == {"vanilla", "v4", "v5", "other", "empty", "cut"}

ASSUME PatchConstantsOK ==
  /\ FirstFiles \subseteq Texts \X (Texts \cup {Absent}) /\ MaxCalls \in Nat

VARIABLES
  file,      \* scheduler.py
  bak,       \* scheduler.py.pre_blockscore.bak, or Absent
  oldbak,    \* scheduler.py.pre_v4.bak, or Absent
  pc,        \* process -> where it is in the function
  content,   \* process -> its variable content
  result,    \* process -> what its last call returned, "none" if it has not
  calls,     \* calls begun
  overlapped \* HISTORY: have two calls been under way at once?

patchVars == <<file, bak, oldbak, pc, content, result, calls, overlapped>>

OldMarked(t) == t = "v4"
Marked(t)    == t \in {"v5", "cut"}
NotMarked(t) == t # "v5"  \* MUTANT: both anchors are taken for granted
Anchored(t)  == t = "vanilla"

Goto(p, at) == pc' = [pc EXCEPT ![p] = at]
Returns(p, r) == /\ Goto(p, "out") /\ result' = [result EXCEPT ![p] = r]
                 /\ content' = [content EXCEPT ![p] = "empty"]
Inside(p) == pc[p] # "out"

\* The call, and the first read.  The old release's marker leads to the copy
\* of the backup, another text to the tests.
Read(p) ==
  /\ ~Inside(p) /\ calls < MaxCalls /\ calls' = calls + 1
  /\ content' = [content EXCEPT ![p] = file]
  /\ Goto(p, IF OldMarked(file) THEN "old" ELSE "test")
  /\ overlapped' = (overlapped \/ \E q \in Procs : Inside(q))
  /\ result' = [result EXCEPT ![p] = "none"]
  /\ UNCHANGED <<file, bak, oldbak>>

\* The old release's file is put aside; the text is that of the backup or,
\* without one, the old text less its marker, where no anchor is left.
Restore(p) ==
  /\ pc[p] = "old" /\ oldbak' = file
  /\ content' = [content EXCEPT ![p] = IF bak = Absent THEN "other" ELSE bak]
  /\ Goto(p, "test")
  /\ UNCHANGED <<file, bak, result, calls, overlapped>>

\* "already applied", or an anchor is not found: nothing is written.
Test(p) ==
  /\ pc[p] = "test"
  /\ \/ /\ Marked(content[p]) /\ Returns(p, "true")
     \/ /\ ~Marked(content[p]) /\ ~Anchored(content[p]) /\ Returns(p, "false")
     \/ /\ ~Marked(content[p]) /\ Anchored(content[p])
        /\ Goto(p, "backup") /\ content' = [content EXCEPT ![p] = "v5"]
        /\ UNCHANGED result
  /\ UNCHANGED <<file, bak, oldbak, calls, overlapped>>

\* shutil.copy2 of the file as it is now over the backup, and then the file is
\* opened, which empties it, and written.
OpenBackup(p) ==
  /\ pc[p] = "backup" /\ Goto(p, "copy") /\ bak' = "empty"
  /\ UNCHANGED <<file, oldbak, content, result, calls, overlapped>>

FillBackup(p) ==
  /\ pc[p] = "copy" /\ Goto(p, "open") /\ bak' = file
  /\ UNCHANGED <<file, oldbak, content, result, calls, overlapped>>

Open(p) ==
  /\ pc[p] = "open" /\ Goto(p, "write") /\ file' = "empty"
  /\ UNCHANGED <<bak, oldbak, content, result, calls, overlapped>>

\* Two that write at once write the same bytes in the same places.
WritePart(p) ==
  /\ pc[p] = "write" /\ Goto(p, "rest")
  /\ file' = IF file = "v5" THEN "v5" ELSE "cut"
  /\ UNCHANGED <<bak, oldbak, content, result, calls, overlapped>>

WriteRest(p) ==
  /\ pc[p] = "rest" /\ file' = content[p] /\ Returns(p, "true")
  /\ UNCHANGED <<bak, oldbak, calls, overlapped>>

\* The process is killed, or a file operation raises: the files stay as they are.
Crash(p) ==
  /\ Inside(p) /\ Returns(p, "raised")
  /\ UNCHANGED <<file, bak, oldbak, calls, overlapped>>

\* vLLM is installed again (external).
Reinstall ==
  /\ \A p \in Procs : ~Inside(p)
  /\ file # "vanilla" /\ file' = "vanilla" /\ result' = [p \in Procs |-> "none"]
  /\ UNCHANGED <<bak, oldbak, pc, content, calls, overlapped>>

PatchInit ==
  /\ \E f \in FirstFiles : file = f[1] /\ bak = f[2]
  /\ oldbak = Absent /\ calls = 0 /\ overlapped = FALSE
  /\ pc = [p \in Procs |-> "out"] /\ content = [p \in Procs |-> "empty"]
  /\ result = [p \in Procs |-> "none"]

Apply(p) == Read(p) \/ Restore(p) \/ Test(p) \/ OpenBackup(p) \/ FillBackup(p)
            \/ Open(p) \/ WritePart(p) \/ WriteRest(p)

-----------------------------------------------------------------------------
(* Properties.                                                             *)

PatchTypeOK ==
  /\ file \in Texts /\ {bak, oldbak} \subseteq Texts \cup {Absent}
  /\ \A p \in Procs :
       /\ pc[p] \in {"out", "old", "test", "backup", "copy", "open", "write", "rest"}
       /\ content[p] \in Texts /\ result[p] \in {"none", "true", "false", "raised"}
  /\ calls \in 0 .. MaxCalls

\* While calls come one at a time vLLM's own scheduler.py, once it is in the
\* file or in the backup, stays in one of them, whatever was killed and tried
\* again (block_level_swap.py:539 "safe to call multiple times", and the backup
\* line 632 reports).
OriginalKept ==
  [][~overlapped' /\ "vanilla" \in {file, bak} => "vanilla" \in {file', bak'}]_<<file, bak>>
=============================================================================
