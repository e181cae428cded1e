----------------------------- MODULE BufferedKV -----------------------------
(***************************************************************************)
(* The managers with persistent buffers, FastKVCacheManager (scored by      *)
(* attention) and FastFIFOManager, of python/orchkv/fast_*.py.  Per layer   *)
(* one GPU buffer holds the whole cache at fixed positions.  An eviction    *)
(* copies a block to DRAM and lists its range as evicted, and build_past_kv *)
(* copies every listed range back; the buffer itself is never given up.    *)
(*                                                                         *)
(* A cell of a buffer holds the number of the conversation whose token it   *)
(* got, 0 before any.  Allocations may fail with an exception.             *)
(***************************************************************************)
EXTENDS Integers, Sequences, FiniteSets, Bags

CONSTANTS
  NLayers,         \* n_layers
  BlockSize,       \* block_size
  SinkTokens,      \* sink_tokens
  Budget,          \* gpu_budget_bytes, in blocks of one layer
  FirstLen,        \* max_seq_len as given
  Grain,           \* what _grow_buffers rounds to and adds (256)
  MaxEvict,        \* the default of _evict_cold_blocks and _evict_fifo (8)
  Kinds,           \* the managers considered, of "scored" and "fifo"
  IngestAny,       \* the kinds whose ingest_step may be called in later steps,
                   \* too; for the others it takes the prompt in and
                   \* append_token what follows
  DirtyRestart,    \* may a manager of IngestAny get a new prompt while blocks
                   \* are listed as evicted, with no build in between?
  Faults,          \* which allocations may fail: "grow", "evict", "build"
  MaxTokens, MaxConv, MaxQueue  \* BOUNDS: tokens of a conversation,
                   \* conversations, length of the FIFO queue

Layers == 1 .. NLayers
MaxCap == MaxTokens + 2 * Grain
Ranges == {r \in (0 .. MaxTokens) \X (0 .. MaxTokens) : r[1] < r[2]}
Cells  == 0 .. MaxConv

ASSUME BufferedConstantsOK ==
  /\ {NLayers, BlockSize, Budget, FirstLen, Grain, MaxEvict, MaxConv} \subseteq Nat \ {0}
  /\ {SinkTokens, MaxTokens, MaxQueue} \subseteq Nat /\ FirstLen <= MaxTokens
  /\ Kinds \subseteq {"scored", "fifo"} /\ IngestAny \subseteq Kinds
  /\ DirtyRestart \in BOOLEAN
  /\ Faults \subseteq {"grow", "evict", "build"}

VARIABLES
  kind,      \* the manager a behaviour is about
  conv, seqLen,   \* the loop: conversation, length of the cache the last
                  \* forward pass produced
  taken,     \* has a call taken tokens of this conversation in?
  total,     \* _total_tokens
  maxLen,    \* max_seq_len
  bufs,      \* layer -> _key_bufs and _val_bufs
  evicted,   \* layer -> bag of the ranges of _evicted_ranges
  store,     \* layer -> _dram_store: range -> the cells copied
  queue      \* _fifo_queue

loopVars == <<kind, conv, seqLen>>
dramVars == <<evicted, store>>
vars == <<kind, conv, seqLen, taken, total, maxLen, bufs, evicted, store, queue>>

-----------------------------------------------------------------------------
(* Blocks and ranges.  (Definitions marked MUTANT are faulty variants of    *)
(* the one that follows; nothing uses them.)                               *)

Ceil(n, d)  == (n + d - 1) \div d
NBlocks     == Ceil(total, BlockSize)
Sink(bid)   == bid * BlockSize < SinkTokens
RangeOf(bid) == LET s == bid * BlockSize
                IN <<s, IF s + BlockSize < total THEN s + BlockSize ELSE total>>
BlockOf(r)  == r[1] \div BlockSize

Mine        == conv + 1    \* what a cell of this conversation holds

\* gpu_kv_bytes, in blocks: what is listed as evicted does not count.
Copies(B) == UNION {{r} \X (1 .. B[r]) : r \in BagToSet(B)}
Listed    == UNION {{l} \X Copies(evicted[l]) : l \in Layers}
OnGpu     == NBlocks * NLayers - Cardinality(Listed)

\* The block ids with a listed range in some layer (evicted_bids).
EvictedBids == {BlockOf(r) : r \in UNION {BagToSet(evicted[l]) : l \in Layers}}

-----------------------------------------------------------------------------
(* Taking tokens in.                                                       *)

GrownEmpty(b, cap) == [p \in 1 .. cap |-> 0]  \* MUTANT: nothing is copied over
Grown(b, cap) == [p \in 1 .. cap |-> IF p <= Len(b) THEN b[p] ELSE 0]
GrownTo(n) == Ceil(n, Grain) * Grain

\* The size the buffers get before the call writes, and the buffers then.
RoomFor(need, ask) == IF need > maxLen THEN GrownTo(ask) ELSE maxLen
WithRoomLate(need, ask) ==  \* MUTANT: the last cell is taken for free
  IF need > maxLen + 1 THEN [l \in Layers |-> Grown(bufs[l], GrownTo(ask))] ELSE bufs
WithRoom(need, ask) ==
  IF need > maxLen THEN [l \in Layers |-> Grown(bufs[l], GrownTo(ask))] ELSE bufs

\* Later steps may come by ingest_step only where the instance allows it.
MayIngest == seqLen > 0 /\ (kind \in IngestAny \/ ~ taken)

Ingest ==
  /\ MayIngest
  /\ maxLen' = RoomFor(seqLen, seqLen)
  /\ \E bs \in {WithRoom(seqLen, seqLen)} :
       bufs' = [l \in Layers |-> [p \in 1 .. Len(bs[l]) |->
                                  IF p <= seqLen THEN Mine ELSE bs[l][p]]]
  /\ total' = seqLen /\ taken' = TRUE
  /\ queue' = IF kind = "fifo"
              THEN queue \o [i \in 1 .. Ceil(seqLen, BlockSize) |-> i - 1] ELSE queue
  /\ Len(queue') <= MaxQueue
  /\ UNCHANGED <<loopVars, dramVars>>

\* append_token writes the last token of the cache at position _total_tokens.
MayAppend == taken /\ seqLen = total + 1
AppendToken ==
  /\ MayAppend
  /\ maxLen' = RoomFor(total + 1, total + Grain)
  /\ \E bs \in {WithRoom(total + 1, total + Grain)} :
       bufs' = [l \in Layers |-> [bs[l] EXCEPT ![total + 1] = Mine]]
  /\ total' = total + 1
  /\ queue' = IF kind = "fifo" /\ total % BlockSize = 0
              THEN Append(queue, total \div BlockSize) ELSE queue
  /\ Len(queue') <= MaxQueue
  /\ UNCHANGED <<loopVars, taken, dramVars>>

\* _grow_buffers runs out of memory at some layer: the layers before it have
\* the larger buffers, and max_seq_len is the old one.
GrowFails ==
  /\ "grow" \in Faults
  /\ \E n \in 1 .. MaxCap, l \in Layers :
       /\ \/ MayIngest /\ seqLen > maxLen /\ n = GrownTo(seqLen)
          \/ MayAppend /\ total >= maxLen /\ n = GrownTo(total + Grain)
       /\ bufs' = [m \in Layers |-> IF m < l THEN Grown(bufs[m], n) ELSE bufs[m]]
  /\ UNCHANGED <<loopVars, taken, total, maxLen, dramVars, queue>>

-----------------------------------------------------------------------------
(* build_past_kv.                                                          *)

\* Buffer l with the stored ones of the ranges R copied back.
Restored(l, R) ==
  [p \in 1 .. Len(bufs[l]) |->
     LET hit == {r \in R \cap DOMAIN store[l] : r[1] < p /\ p <= r[2]}
     IN IF hit = {} THEN bufs[l][p] ELSE (LET r == CHOOSE r \in hit : TRUE
                                          IN store[l][r][p - r[1]])]
KeptStore(l, R) == store[l]  \* MUTANT: the copies are not deleted
LeftStore(l, R) == [r \in DOMAIN store[l] \ R |-> store[l][r]]

Build ==
  /\ bufs'    = [l \in Layers |-> Restored(l, BagToSet(evicted[l]))]
  /\ store'   = [l \in Layers |-> LeftStore(l, BagToSet(evicted[l]))]
  /\ evicted' = [l \in Layers |-> EmptyBag]
  /\ UNCHANGED <<loopVars, taken, total, maxLen, queue>>

\* A copy back fails in layer l: its list is not cleared, though some of the
\* ranges are back.
BuildFails ==
  /\ "build" \in Faults
  /\ \E l \in Layers : \E R \in SUBSET BagToSet(evicted[l]) :
       LET Done(m) == IF m < l THEN BagToSet(evicted[m]) ELSE IF m = l THEN R ELSE {}
       IN /\ R # BagToSet(evicted[l])
          /\ bufs'    = [m \in Layers |-> Restored(m, Done(m))]
          /\ store'   = [m \in Layers |-> LeftStore(m, Done(m))]
          /\ evicted' = [m \in Layers |-> IF m < l THEN EmptyBag ELSE evicted[m]]
  /\ UNCHANGED <<loopVars, taken, total, maxLen, queue>>

-----------------------------------------------------------------------------
(* schedule.                                                               *)

\* The ranges of bag B are copied from buffer l and listed.
Copied(l, B) ==
  [r \in DOMAIN store[l] \cup BagToSet(B) |->
     IF r \in BagToSet(B) THEN SubSeq(bufs[l], r[1] + 1, r[2]) ELSE store[l][r]]
Evict(B, upto, R) ==   \* all of B in every layer, R in the layers up to `upto` too
  LET Of(l) == IF l <= upto THEN B (+) R ELSE B
  IN /\ store'   = [l \in Layers |-> Copied(l, Of(l))]
     /\ evicted' = [l \in Layers |-> evicted[l] (+) Of(l)]

\* The loop schedules between taking a step's tokens in and the next build.
Pressed == taken /\ 100 * OnGpu > 85 * Budget
AtMost(j, percent) == 100 * (OnGpu - j * NLayers) <= percent * Budget

\* _evict_cold_blocks.  The scores come from the C manager and may order the
\* candidates in any way, so any of them may go.
CandidatesAll == {bid \in 0 .. NBlocks - 1 : ~ Sink(bid)}  \* MUTANT: listed ones, too
Candidates    == {bid \in 0 .. NBlocks - 1 : ~ Sink(bid) /\ bid \notin EvictedBids}
Going == {V \in SUBSET Candidates :
            /\ Cardinality(V) <= MaxEvict
            /\ \A j \in 1 .. Cardinality(V) - 1 : ~ AtMost(j, 85)}
StopsEarly(V) == V = Candidates \/ V # {}  \* MUTANT: one block a call
Stops(V) == \/ V = Candidates \/ Cardinality(V) = MaxEvict
            \/ V # {} /\ AtMost(Cardinality(V), 85)
BagOf(V) == SetToBag({RangeOf(bid) : bid \in V})

EvictCold ==
  /\ kind = "scored" /\ Pressed
  /\ \E V \in Going : Stops(V) /\ Evict(BagOf(V), 0, EmptyBag)
  /\ UNCHANGED <<loopVars, taken, total, maxLen, bufs, queue>>

\* The copy of one more block to DRAM fails after the layers up to l.
EvictColdFails ==
  /\ "evict" \in Faults /\ kind = "scored" /\ Pressed
  /\ \E V \in Going, l \in 0 .. NLayers - 1 :
       /\ ~ Stops(V)
       /\ \E b \in Candidates \ V : Evict(BagOf(V), l, BagOf({b}))
  /\ UNCHANGED <<loopVars, taken, total, maxLen, bufs, queue>>

\* _evict_fifo: of the first j entries of the queue those that are evicted, by
\* their places in it.  The listed blocks are looked up once, at the start.
PoppedOf(j) == {i \in 1 .. j : queue[i] \notin EvictedBids /\ ~ Sink(queue[i])}
FifoStops(j) == \/ j = Len(queue) \/ Cardinality(PoppedOf(j)) = MaxEvict
                \/ PoppedOf(j) # {} /\ AtMost(Cardinality(PoppedOf(j)), 70)
FifoBag(I) ==
  [r \in {RangeOf(queue[i]) : i \in I} |-> Cardinality({i \in I : RangeOf(queue[i]) = r})]

EvictFifo ==
  /\ kind = "fifo" /\ Pressed
  /\ \E j \in 0 .. Len(queue) :
       /\ FifoStops(j) /\ \A i \in 0 .. j - 1 : ~ FifoStops(i)
       /\ Evict(FifoBag(PoppedOf(j)), 0, EmptyBag)
       /\ queue' = SubSeq(queue, j + 1, Len(queue))
  /\ UNCHANGED <<loopVars, taken, total, maxLen, bufs>>

EvictFifoFails ==
  /\ "evict" \in Faults /\ kind = "fifo" /\ Pressed
  /\ \E l \in 0 .. NLayers - 1, j \in 1 .. Len(queue) :
       /\ \A i \in 0 .. j - 1 : ~ FifoStops(i)
       /\ j \in PoppedOf(j)
       /\ Evict(FifoBag(PoppedOf(j - 1)), l, FifoBag({j}))
       /\ queue' = SubSeq(queue, j + 1, Len(queue))
  /\ UNCHANGED <<loopVars, taken, total, maxLen, bufs>>

-----------------------------------------------------------------------------
(* The loop around the manager.                                            *)

\* A forward pass on the cache build_past_kv gave.
Forward ==
  /\ seqLen = 0 \/ (taken /\ total = seqLen)
  /\ seqLen' \in seqLen + 1 .. MaxTokens
  /\ UNCHANGED <<kind, conv, taken, total, maxLen, bufs, dramVars, queue>>

\* A forward pass without a cache, on a prompt no shorter than what the manager
\* holds (a shorter one leaves ids in the queue that name no block).
Restart ==
  /\ conv + 1 < MaxConv /\ taken /\ kind \in IngestAny
  /\ DirtyRestart \/ \A l \in Layers : evicted[l] = EmptyBag
  /\ conv' = conv + 1 /\ taken' = FALSE
  /\ seqLen' \in total .. MaxTokens
  /\ UNCHANGED <<kind, total, maxLen, bufs, dramVars, queue>>

Init ==
  /\ kind \in Kinds /\ conv = 0 /\ seqLen = 0 /\ taken = FALSE
  /\ total = 0 /\ maxLen = FirstLen
  /\ bufs = [l \in Layers |-> [p \in 1 .. FirstLen |-> 0]]
  /\ evicted = [l \in Layers |-> EmptyBag]
  /\ store = [l \in Layers |-> << >>] /\ queue = << >>

Next ==
  \/ Forward \/ Restart
  \/ Ingest \/ AppendToken \/ GrowFails
  \/ Build \/ BuildFails
  \/ EvictCold \/ EvictColdFails \/ EvictFifo \/ EvictFifoFails

Spec == Init /\ [][Next]_vars

-----------------------------------------------------------------------------
(* Properties.                                                             *)

\* Types; and the buffers fit what max_seq_len says, also after a growth that
\* failed in the middle.
TypeOK ==
  /\ kind \in Kinds /\ conv \in 0 .. MaxConv /\ taken \in BOOLEAN
  /\ {seqLen, total} \subseteq 0 .. MaxTokens
  /\ maxLen \in 1 .. MaxCap /\ total <= maxLen
  /\ \A l \in Layers :
       /\ Len(bufs[l]) \in maxLen .. MaxCap
       /\ \A p \in 1 .. Len(bufs[l]) : bufs[l][p] \in Cells
       /\ BagToSet(evicted[l]) \subseteq Ranges
       /\ \A r \in DOMAIN store[l] : store[l][r] \in [1 .. r[2] - r[1] -> Cells]
  /\ \A i \in 1 .. Len(queue) : queue[i] \in 0 .. NBlocks - 1

\* The accounting that gpu_kv_bytes and the schedule rest on: a layer lists a
\* block at most once, lists no block of sink tokens, and keeps in DRAM nothing
\* that it does not list (such a copy would never be restored nor freed).
Accounts ==
  \A l \in Layers :
    /\ \A r \in BagToSet(evicted[l]) : evicted[l][r] = 1 /\ ~ Sink(BlockOf(r))
    /\ \A r, q \in BagToSet(evicted[l]) : BlockOf(r) = BlockOf(q) => r = q
    /\ DOMAIN store[l] \subseteq BagToSet(evicted[l])

\* What is listed as evicted after a schedule is enough: usage is at 85 % of the
\* budget, or max_evict blocks went, or all but the sinks are listed.
MadeRoom == \/ 100 * OnGpu' <= 85 * Budget
            \/ OnGpu' <= OnGpu - MaxEvict * NLayers
            \/ \A bid \in 0 .. NBlocks - 1 : Sink(bid) \/ bid \in EvictedBids'

\* FastKVCacheManager.schedule never leaves the usage it accounts for over the
\* mark while there is a block it could still evict.
ScoredMakesRoom == [][EvictCold => MadeRoom]_vars

\* FastFIFOManager is said to differ in the order of eviction only
\* (fast_fifo_manager.py:5-6), so its schedule would make room as well.
FifoMakesRoom == [][EvictFifo => MadeRoom]_vars

\* What build_past_kv would return for a layer of this conversation: a token is
\* there when its cell is, after the copies back.
Built(l) ==
  LET b == Restored(l, BagToSet(evicted[l]))
  IN IF taken THEN [p \in 1 .. total |-> IF b[p] = Mine THEN p ELSE 0] ELSE << >>

Log == INSTANCE TokenLog WITH kept <- [l \in Layers |-> Built(l)]

\* Through evictions, restores and growth of the buffers, and through failures
\* of each, build_past_kv returns exactly the tokens taken in: no copy in DRAM
\* overwrites a newer token.
KeepsLog == Log!LogSpec
=============================================================================
