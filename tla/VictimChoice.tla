--------------------------- MODULE VictimChoice ---------------------------
(***************************************************************************)
(* Victim selection in vLLM's scheduler with the code block_level_swap.py   *)
(* puts into it: when the request whose turn it is needs a block and none   *)
(* is free, a scorer picks which of the requests behind it gives up its     *)
(* blocks.  The scheduler's pass around it (turns, admission, the block     *)
(* allocator) is external; a group is one sequence, and a block one token.  *)
(***************************************************************************)
EXTENDS Naturals, Sequences, FiniteSets, SequencesExt

CONSTANTS
  Reqs, NumBlocks,
  Prompt, FullLen    \* request -> tokens at first and at the end

BlockIds == 1 .. NumBlocks
None == 0   \* no scorer; the value of ORCHKV_BLOCK_SCORE that asks for none

\* BOUND: a request has at most five tokens, as many as Dip and Total provide for.
ASSUME VictimConstantsOK ==
  /\ NumBlocks \in Nat \ {0} /\ Reqs \subseteq Nat /\ IsFiniteSet(Reqs)
  /\ Prompt \in [Reqs -> Nat \ {0}]
  /\ \A r \in Reqs : FullLen[r] \in Prompt[r] + 1 .. 5 /\ FullLen[r] <= NumBlocks

VARIABLES
  loaded,    \* does the code the engine runs consult a scorer?
  scorer,    \* _orchkv_block_scorer: a version, or None
  waiting,   \* queue of requests without blocks
  todo,      \* running_queue: the requests of this pass still to be served
  served,    \* those that were
  table,     \* request -> its blocks
  length,    \* request -> the tokens it has had, kept when it gives up its blocks
  info,      \* FastBlockTracker._block_info: block -> request, position, blocks
  scores     \* _block_scores: block -> importance, in thousandths

queueVars   == <<waiting, todo, served, table, length>>
trackerVars == <<info, scores>>
victimVars  == <<loaded, scorer, queueVars, trackerVars>>

-----------------------------------------------------------------------------
(* The scorers.                                                            *)

\* _positional_importance for up to five blocks: the first and the last are
\* worth 1, between them it is 0.15 + 0.25 * (1 - sin (pi * position / (n - 1))).
Dip == << << >>, << >>, <<150>>, <<183, 183>>, <<223, 150, 223>> >>
Importance(i, n) == IF n <= 1 \/ i \in {1, n} THEN 1000 ELSE Dip[n][i - 1]

\* update_registry: what the tables of the candidates say, compared with what
\* is remembered; the scores follow only when that changed.
Registry(cands) ==
  [b \in UNION {ToSet(table[cands[k]]) : k \in DOMAIN cands} |->
     LET k == CHOOSE j \in DOMAIN cands : b \in ToSet(table[cands[j]])
         r == cands[k]
     IN  [req |-> r, pos |-> CHOOSE i \in DOMAIN table[r] : table[r][i] = b,
          n |-> Len(table[r])]]
UnchangedCount(new) == Cardinality(DOMAIN new) = Cardinality(DOMAIN info)  \* MUTANT: blocks counted
Unchanged(new)    == new = info
Rescored(new) == IF Unchanged(new) THEN scores
                 ELSE [b \in DOMAIN new |-> Importance(new[b].pos, new[b].n)]

\* The sum of up to five numbers.
Value(f, i) == IF i \in DOMAIN f THEN f[i] ELSE 0
Total(f)    == Value(f, 1) + Value(f, 2) + Value(f, 3) + Value(f, 4) + Value(f, 5)

\* score_request_blocks of a table, as a sum and a count.
ScoreOf(b, sc) == IF b \in DOMAIN sc THEN sc[b] ELSE 300
Hotness(r, sc) == [sum |-> Total([i \in DOMAIN table[r] |-> ScoreOf(table[r][i], sc)]),
                   n |-> Len(table[r])]
\* ProgressScorer's ratio of tokens put out to tokens in all.
Progress(r) == [sum |-> length[r] - Prompt[r], n |-> length[r]]
Below(x, y) == x.sum * y.n < y.sum * x.n

\* The first of the candidates with the least score.
FirstLeast(score) ==
  CHOOSE i \in DOMAIN score : \A j \in DOMAIN score :
    /\ ~Below(score[j], score[i])
    /\ j < i => Below(score[i], score[j])

\* select_victim, and vLLM's own choice, the last, without a scorer.  Nothing
\* reports attention to version 1, whose means of equal scores differ by their
\* rounding alone: any candidate may be the one.
Picks(cands, sc) ==
  CASE ~loaded \/ scorer = None -> {Len(cands)}
    [] loaded /\ scorer = 1 -> DOMAIN cands
    [] loaded /\ scorer = 2 -> {FirstLeast([i \in DOMAIN cands |-> Hotness(cands[i], sc)])}
    [] loaded /\ scorer = 4 -> {FirstLeast([i \in DOMAIN cands |-> Progress(cands[i])])}

-----------------------------------------------------------------------------
(* The scheduler.                                                          *)

Free == BlockIds \ UNION {ToSet(table[r]) : r \in Reqs}

\* Requests, named in the order they arrive in, come between two passes.
Known(r) == r \in ToSet(waiting \o todo \o served) \/ length[r] # Prompt[r]
Arrive ==
  /\ todo = << >>
  /\ \E r \in Reqs : /\ ~Known(r) /\ \A q \in Reqs : q < r => Known(q)
                    /\ waiting' = Append(waiting, r)
  /\ UNCHANGED <<loaded, scorer, todo, served, table, length, trackerVars>>

\* The i-th least of a set of numbers, and the members of a sequence in the
\* places K, in their order.
Nth(S, i)  == CHOOSE b \in S : Cardinality({c \in S : c <= b}) = i
Only(s, K) == [i \in 1 .. Cardinality(K) |-> s[Nth(K, i)]]
NthFree(i) == Nth(Free, i)

CanAdmit == waiting # << >> /\ Cardinality(Free) >= length[Head(waiting)]

\* A pass is over: requests that have all their tokens give their blocks back
\* and the others will be served again.
Done(r) == length[r] = FullLen[r]
EndPass ==
  /\ todo = << >> /\ served # << >> /\ ~CanAdmit
  /\ served' = << >> /\ todo' = Only(served, {i \in DOMAIN served : ~Done(served[i])})
  /\ table' = [r \in Reqs |-> IF r \in ToSet(served) /\ Done(r) THEN << >> ELSE table[r]]
  /\ UNCHANGED <<loaded, scorer, waiting, length, trackerVars>>

\* Between passes those that wait are given blocks for the tokens they have had,
\* in their order, as long as there are enough.
Admit ==
  /\ todo = << >> /\ CanAdmit
  /\ LET r == Head(waiting)
     IN /\ waiting' = Tail(waiting) /\ served' = Append(served, r)
        /\ table' = [table EXCEPT ![r] = [i \in 1 .. length[r] |-> NthFree(i)]]
  /\ UNCHANGED <<loaded, scorer, todo, length, trackerVars>>

\* The request at the head of running_queue gets a block and a token.
Serve ==
  /\ todo # << >> /\ Free # {}
  /\ LET r == Head(todo)
     IN /\ table' = [table EXCEPT ![r] = Append(@, NthFree(1))]
        /\ length' = [length EXCEPT ![r] = @ + 1]
        /\ served' = Append(served, r)
  /\ todo' = Tail(todo)
  /\ UNCHANGED <<loaded, scorer, waiting, trackerVars>>

\* No block is free: the victim leaves running_queue (the patch's "del
\* running_queue[_vidx]") and waits before all others; its blocks are freed.
WithoutLast(q, i) == Front(q)  \* MUTANT: running_queue.pop() whatever the victim
Without(q, i)     == RemoveAt(q, i)
Preempt ==
  /\ Len(todo) > 1 /\ Free = {}
  /\ LET cands == Tail(todo)
         new   == Registry(cands)
         uses  == loaded /\ scorer = 2
     IN /\ info' = IF uses /\ ~Unchanged(new) THEN new ELSE info
        /\ scores' = IF uses THEN Rescored(new) ELSE scores
        /\ \E i \in Picks(cands, scores') :
             /\ waiting' = <<cands[i]>> \o waiting
             /\ table' = [table EXCEPT ![cands[i]] = << >>]
             /\ todo' = <<Head(todo)>> \o Without(cands, i)
  /\ UNCHANGED <<loaded, scorer, served, length>>

\* There is nobody behind it: it gives up its own.
PreemptSelf ==
  /\ Len(todo) = 1 /\ Free = {}
  /\ waiting' = todo \o waiting /\ todo' = << >>
  /\ table' = [table EXCEPT ![Head(todo)] = << >>]
  /\ UNCHANGED <<loaded, scorer, served, length, trackerVars>>

SchedStep == EndPass \/ Admit \/ Serve \/ Preempt \/ PreemptSelf

VictimInit ==
  /\ loaded = FALSE /\ scorer = None
  /\ waiting = << >> /\ todo = << >> /\ served = << >>
  /\ table = [r \in Reqs |-> << >>] /\ length = Prompt
  /\ info = << >> /\ scores = << >>

-----------------------------------------------------------------------------
(* Properties.                                                             *)

\* The mean a request deserves by its own blocks as they are now.
Mean(r) == LET n == Len(table[r])
           IN  [sum |-> Total([i \in DOMAIN table[r] |-> Importance(i, n)]), n |-> n]

\* With the block scorer the request that loses its blocks is, of those behind
\* the head, one with the least mean importance by the blocks it has at that
\* moment, though the scores were kept from an earlier choice, when the same
\* ids were other requests' (block_level_swap.py:240-273, 332-346).
ColdestIsVictim ==
  [][loaded /\ scorer = 2 =>
       \A i, j \in 2 .. Len(todo) :
         table[todo[i]] # << >> /\ table'[todo[i]] = << >> =>
           ~Below(Mean(todo[j]), Mean(todo[i]))]_victimVars
=============================================================================
