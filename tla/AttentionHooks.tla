-------------------------- MODULE AttentionHooks --------------------------
(***************************************************************************)
(* vllm_integration/attention_hook.py: AttentionHookManager wraps the       *)
(* forward of every module with self_attn in its dotted name, an attention  *)
(* module and whatever is inside it; on a sampling step the wrapper asks    *)
(* for the attention weights and AttentionScoreCollector reports them to    *)
(* the tiered manager, whose averages go on when the step ends.             *)
(*                                                                         *)
(* The decode loop is external: it calls every module once a step, one that *)
(* is inside another from the other's forward, and then on_step_done.       *)
(* Another thread may change the collector's settings between any two of    *)
(* the hooks' steps.  The weights themselves are not modelled, only whether *)
(* a forward gave any and that they were reported.                         *)
(***************************************************************************)
EXTENDS Naturals, Sequences

CONSTANTS
  NModules,     \* modules that match, numbered as install numbers them: an
                \* outer one before those inside it
  LastIn,       \* module -> the last one inside it, itself if none is
  AcceptSets,   \* the sets of modules whose forward may take the keyword
                \* output_attentions
  Intervals,    \* values the other thread sets sample_interval to
  Reinstalls,   \* may the hooks be installed again after an uninstall?
  MaxSteps,     \* BOUND: decode steps
  MaxSets       \* BOUND: settings changed

Modules == 1 .. NModules

ASSUME HooksConstantsOK ==
  /\ NModules \in Nat \ {0} /\ MaxSteps \in Nat /\ MaxSets \in Nat
  /\ LastIn \in [Modules -> Modules] /\ \A m \in Modules : m <= LastIn[m]
  /\ AcceptSets \subseteq SUBSET Modules
  /\ Intervals \subseteq Nat /\ Reinstalls \in BOOLEAN

VARIABLES
  \* the manager
  installed, everInstalled,
  wraps,       \* module -> hooked_forwards around its forward
  \* the collector
  step, interval, enabled,
  \* the model and the decode step under way
  accepts,     \* the modules whose forward takes output_attentions
  next,        \* the module the step calls next
  left,        \* module -> its wrappers that have not returned
  asked,       \* the modules whose forward got output_attentions = True
  broken,      \* did a forward raise, and the decode end?
  \* the tiered manager
  reports,     \* module -> times its scores were reported in this step
  \* bounds and HISTORY
  sets,        \* settings changed
  withheld,    \* modules whose forward was asked and gave no weights in this step
  missed,      \* module -> steps in a row, since hooks and settings stay, that
               \* ended without its scores though its forward withheld none
  steady,      \* have hooks and settings stayed in this step?
  split        \* did their last change fall inside a step?

managerVars == <<installed, everInstalled, wraps>>
settings    == <<step, interval, enabled>>
decodeVars  == <<accepts, next, left, asked, broken>>
stepHistory == <<withheld, missed, steady, split>>
hookVars == <<managerVars, settings, decodeVars, reports, sets, stepHistory>>

-----------------------------------------------------------------------------
(* The collector.                                                          *)

\* _report_scores' id of a block when it is given no other (numbers from 0).
BlockId(l, h, b, nHeads, nBlocks) == l * nHeads * nBlocks + h * nBlocks + b

HitLate(s, k) == s % k = 1  \* MUTANT: the last step of a period but one counts
Hit(s, k)     == s % k = 0
ShouldSample == enabled /\ Hit(step, interval)

\* The modules whose forward runs, and the time between two steps.
Entered == {m \in Modules : left[m] > 0}
Between == next = 1 /\ Entered = {} /\ ~broken

Forget == /\ missed' = [m \in Modules |-> 0] /\ steady' = Between /\ split' = ~Between
          /\ UNCHANGED withheld

SetEnabled ==
  /\ sets < MaxSets /\ sets' = sets + 1 /\ enabled' = ~enabled /\ Forget
  /\ UNCHANGED <<managerVars, step, interval, decodeVars, reports>>

\* The setter keeps the interval positive.
AtLeastOne(v) == IF v < 1 THEN 1 ELSE v
SetInterval ==
  /\ sets < MaxSets /\ sets' = sets + 1 /\ Forget
  /\ \E v \in Intervals : interval' = AtLeastOne(v)
  /\ UNCHANGED <<managerVars, step, enabled, decodeVars, reports>>

-----------------------------------------------------------------------------
(* The manager; the model is the loop's, so it is (un)hooked between steps. *)

MayWrapAgain == TRUE  \* MUTANT: a second install is not turned away
MayWrap      == ~installed
Install ==
  /\ Between /\ MayWrap
  /\ everInstalled /\ ~installed => Reinstalls
  /\ installed' = TRUE /\ everInstalled' = TRUE /\ sets < MaxSets /\ sets' = sets + 1
  /\ wraps' = [m \in Modules |-> wraps[m] + 1]
  /\ Forget
  /\ UNCHANGED <<settings, decodeVars, reports>>

\* uninstall looks for its modules in _get_all_modules(), which is empty: no
\* forward is put back.
Uninstall ==
  /\ Between /\ installed
  /\ installed' = FALSE /\ sets < MaxSets /\ sets' = sets + 1
  /\ UNCHANGED <<everInstalled, wraps, settings, decodeVars, reports, stepHistory>>

-----------------------------------------------------------------------------
(* A decode step.                                                          *)

\* The step comes to the next module: what runs has it inside.
Comes == /\ next <= NModules /\ ~broken /\ step < MaxSteps
         /\ \A m \in Entered : next <= LastIn[m]

\* The call of a module's forward: the wrappers, outermost first, decide at once
\* whether the weights are wanted, and pass the keyword on.
Call ==
  /\ Comes /\ wraps[next] > 0 /\ (ShouldSample => next \in accepts)
  /\ left' = [left EXCEPT ![next] = wraps[next]]
  /\ asked' = IF ShouldSample THEN asked \cup {next} ELSE asked
  /\ next' = next + 1
  /\ UNCHANGED <<managerVars, settings, accepts, broken, reports, sets, stepHistory>>

\* A forward that does not take the keyword raises, and no wrapper catches it.
Raise ==
  /\ Comes /\ wraps[next] > 0 /\ ShouldSample /\ next \notin accepts
  /\ broken' = TRUE /\ left' = [m \in Modules |-> 0]
  /\ UNCHANGED <<managerVars, settings, accepts, next, asked, reports, sets, stepHistory>>

\* The innermost wrapper, after the forward it called, with weights or none: if
\* this is a sampling step (it asks itself again) it reports those there are.
Return(m) ==
  /\ m \in Entered /\ LastIn[m] < next /\ \A n \in Entered : n <= m
  /\ left' = [left EXCEPT ![m] = @ - 1]
  /\ \E weights \in BOOLEAN :
       /\ reports' = IF ShouldSample /\ weights THEN [reports EXCEPT ![m] = @ + 1] ELSE reports
       /\ withheld' = IF m \in asked /\ ~weights THEN withheld \cup {m} ELSE withheld
  /\ UNCHANGED <<managerVars, settings, accepts, next, asked, broken, sets, missed, steady, split>>

\* A module that is not hooked.
Plain ==
  /\ Comes /\ wraps[next] = 0
  /\ next' = next + 1
  /\ UNCHANGED <<managerVars, settings, accepts, left, asked, broken, reports, sets, stepHistory>>

\* on_step_done, and tm_step_done in it.
OnStepDone ==
  /\ next = NModules + 1 /\ Entered = {}
  /\ step' = step + 1 /\ next' = 1 /\ asked' = {}
  /\ reports' = [m \in Modules |-> 0]
  /\ missed' = [m \in Modules |->
                  IF reports[m] > 0 \/ wraps[m] = 0 \/ ~enabled \/ m \in withheld
                  THEN 0 ELSE missed[m] + 1]
  /\ withheld' = {} /\ steady' = TRUE
  /\ UNCHANGED <<managerVars, interval, enabled, accepts, left, broken, sets, split>>

HooksInit ==
  /\ installed = FALSE /\ everInstalled = FALSE /\ wraps = [m \in Modules |-> 0]
  /\ step = 0 /\ enabled = TRUE /\ \E v \in Intervals : interval = AtLeastOne(v)
  /\ accepts \in AcceptSets /\ next = 1 /\ left = [m \in Modules |-> 0]
  /\ asked = {} /\ broken = FALSE
  /\ reports = [m \in Modules |-> 0]
  /\ sets = 0 /\ withheld = {} /\ missed = [m \in Modules |-> 0]
  /\ steady = TRUE /\ split = FALSE

HooksNext == SetEnabled \/ SetInterval \/ Install \/ Uninstall \/ Call \/ Raise \/ Plain
        \/ (\E m \in Modules : Return(m)) \/ OnStepDone
HooksSpec == HooksInit /\ [][HooksNext]_hookVars

-----------------------------------------------------------------------------
(* Properties.                                                             *)

\* What each variable may hold.
HooksTypeOK ==
  /\ installed \in BOOLEAN /\ everInstalled \in BOOLEAN /\ wraps \in [Modules -> Nat]
  /\ step \in Nat /\ interval \in Nat \ {0} /\ enabled \in BOOLEAN
  /\ accepts \in SUBSET Modules /\ next \in 1 .. NModules + 1
  /\ left \in [Modules -> Nat] /\ asked \in SUBSET Modules /\ broken \in BOOLEAN
  /\ reports \in [Modules -> Nat] /\ sets \in Nat /\ withheld \in SUBSET Modules
  /\ missed \in [Modules -> Nat] /\ steady \in BOOLEAN /\ split \in BOOLEAN

\* Between two tm_step_done calls the scores of a module are reported at most
\* once, whatever the other thread sets in between: a second report would count
\* twice in the average (attention_hook.py:83-116, 279-302; "must be called
\* exactly once per decode step", 190).
OncePerStep == \A m \in Modules : reports[m] <= 1

\* While hooks and settings stay, the scores of a module whose forward gives
\* weights when it is asked are reported at least every interval steps, so that
\* no average decays longer than that; a change between two modules of a step,
\* which may leave the later or the earlier of them unreported, costs at most that
\* step (attention_hook.py:77-81, 186-201, 285-300).
SampledInTime ==
  \A m \in Modules : missed[m] < interval + (IF split THEN 1 ELSE 0)

\* "Compatible with vLLM's model structure where attention layers are accessible
\* via model.model.layers[i].self_attn or similar" (attention_hook.py:251-252): the
\* hooks leave the model working.
NeverRaises == ~broken
=============================================================================
