------------------------------ MODULE PagedKV ------------------------------
(***************************************************************************)
(* The block-wise cache managers of python/orchkv/kvcache_manager.py:       *)
(* KVCacheManager (tiers GPU, DRAM and SSD, hotness from attention) and     *)
(* NaiveOffloadManager (GPU and DRAM, oldest first), which share their      *)
(* block tables.  `kind` says which of the two a behaviour is about.        *)
(*                                                                         *)
(* A tensor of a block is a function from its slots to tokens, token p      *)
(* being the number p and 0 an unwritten slot.  A block may keep copies in  *)
(* several tiers at a time; `tier` says which of them counts.  An           *)
(* allocation on the GPU or of pinned memory, a read and a write of a file  *)
(* may fail with an exception: what the call had done by then stays done.   *)
(***************************************************************************)
EXTENDS Naturals, Sequences, FiniteSets

CONSTANTS
  NLayers,                 \* n_layers
  BlockSize,               \* block_size
  SinkTokens,              \* sink_tokens
  Budget,                  \* gpu_budget_bytes, in blocks
  SsdDir,                  \* is there an ssd_dir?
  MaxEvict, MaxPromote,    \* the defaults of _evict_cold_blocks (8) and
                           \* _promote_warm_blocks (4)
  MaxSpill, SpillFrom,     \* those of _spill_dram_to_ssd (4 and 4)
  Faults,                  \* which movements may fail: the copy to the GPU
                           \* ("promote"), the pinned buffer of a demotion
                           \* ("pin"), the write of a file ("save"), its
                           \* reading back ("load")
  AllocMayFail,            \* kinds whose calls may find no GPU memory for a block
  MaxTokens, MaxAccess,    \* BOUNDS: tokens of the sequence, access_count
  MaxIds                   \* BOUND: identifiers handed out

Kinds  == {"scored", "naive"}
Layers == 1 .. NLayers
Slots  == 1 .. BlockSize
Ids    == 0 .. MaxIds - 1
Tiers  == {"GPU", "DRAM", "SSD"}
NoData == << >>
Tensors == [Slots -> 0 .. MaxTokens]
Copies  == Tensors \cup {NoData}
NoFile == << >>
Torn   == [s \in Slots |-> MaxTokens + 1]   \* bytes that are not a block's data
Block  == [id : Ids, start : 0 .. MaxTokens, count : 0 .. BlockSize,
           tier : Tiers, gpu : Copies, dram : Copies, saved : BOOLEAN,
           sink : BOOLEAN, access : 0 .. MaxAccess, told : Tiers]
           \* saved: ssd_path is set; told: what tm_set_block_tier was last told

ASSUME PagedConstantsOK ==
  /\ {NLayers, BlockSize, Budget, MaxEvict, MaxPromote, MaxSpill} \subseteq Nat \ {0}
  /\ {SinkTokens, SpillFrom, MaxTokens, MaxAccess, MaxIds} \subseteq Nat
  /\ SsdDir \in BOOLEAN /\ Faults \subseteq {"promote", "pin", "save", "load"}
  /\ AllocMayFail \subseteq Kinds

VARIABLES
  kind,     \* "scored": KVCacheManager, "naive": NaiveOffloadManager
  blocks,   \* layer -> its blocks in token order (_blocks)
  nextId,   \* _next_block_id
  files,    \* block id -> content of blk_<id>.bin in ssd_dir
  seqLen    \* the length of the cache the last forward pass produced

vars == <<kind, blocks, nextId, files, seqLen>>

-----------------------------------------------------------------------------
(* Block tables.                                                           *)

\* The tokens in the first i blocks of a layer, for every i, and in all: the
\* pairs of a block and a slot of it that is in use.
Before(bs) == [i \in 0 .. Len(bs) |->
                 Cardinality({x \in (1 .. i) \X Slots : x[2] <= bs[x[1]].count})]
Managed(bs) == Before(bs)[Len(bs)]

\* Where the blocks of a table are, in the order in which the code visits them.
Places(t) == UNION {{l} \X (1 .. Len(t[l])) : l \in Layers}
At(t, x)  == t[x[1]][x[2]]
Earlier(x, y) == x[1] < y[1] \/ (x[1] = y[1] /\ x[2] < y[2])
On(t, tier)   == {x \in Places(t) : At(t, x).tier = tier}

\* The k members of S that come first under Less.
Firsts(S, k, Less(_, _)) ==
  {x \in S : Cardinality({y \in S : Less(y, x)}) < k}

\* The table with Op applied to the blocks at the places of S.
Changed(t, S, Op(_)) ==
  [l \in Layers |-> [i \in 1 .. Len(t[l]) |->
     IF <<l, i>> \in S THEN Op(t[l][i]) ELSE t[l][i]]]

\* What build_past_kv reads of a block, and returns for a layer.
Content(b) == CASE b.tier = "GPU"  -> b.gpu
                [] b.tier = "DRAM" -> b.dram
                [] b.tier = "SSD"  -> files[b.id]
Readable(b) == Content(b) \in Tensors
Built(bs) ==
  LET end == Before(bs)
  IN [p \in 1 .. Managed(bs) |->
        LET i == CHOOSE j \in 1 .. Len(bs) : end[j - 1] < p /\ p <= end[j]
        IN IF Readable(bs[i]) THEN Content(bs[i])[p - end[i - 1]] ELSE 0]

-----------------------------------------------------------------------------
(* Movement of one block.  (Definitions marked MUTANT are faulty variants   *)
(* of the one that follows; nothing uses them.)                            *)

\* GPU -> DRAM: the pinned buffer is reused, and always overwritten.
DemotedOnce(b) ==  \* MUTANT: a DRAM copy that is there is not written again
  [b EXCEPT !.dram = IF @ = NoData THEN b.gpu ELSE @, !.gpu = NoData,
            !.tier = "DRAM", !.told = "DRAM"]
Demoted(b) ==
  IF b.tier = "GPU" /\ b.gpu # NoData
  THEN [b EXCEPT !.dram = b.gpu, !.gpu = NoData, !.tier = "DRAM", !.told = "DRAM"]
  ELSE b

\* SSD -> DRAM: nothing without a file; the C manager is not told.
Loaded(b) ==
  IF b.saved /\ files[b.id] # NoFile
  THEN [b EXCEPT !.dram = files[b.id], !.tier = "DRAM"]
  ELSE b

\* DRAM -> GPU, by way of DRAM from the SSD.  The lower copies stay behind.
PromotedUntold(b) ==  \* MUTANT: the C manager is not told of the promotion
  LET c == IF b.tier = "SSD" THEN Loaded(b) ELSE b
  IN IF c.tier = "DRAM" /\ c.dram # NoData
     THEN [c EXCEPT !.gpu = c.dram, !.tier = "GPU"] ELSE c
Promoted(b) ==
  LET c == IF b.tier = "SSD" THEN Loaded(b) ELSE b
  IN IF c.tier = "DRAM" /\ c.dram # NoData
     THEN [c EXCEPT !.gpu = c.dram, !.tier = "GPU", !.told = "GPU"] ELSE c
\* The same when the copy to the GPU raises.
PromotionFailed(b) == IF b.tier = "SSD" THEN Loaded(b) ELSE b

\* The same when the reading fails: a load that cannot pin its memory has the
\* bytes in place but not the tier; before that nothing is changed.
HalfLoaded(b) ==
  IF b.tier = "SSD" /\ b.saved /\ files[b.id] # NoFile
  THEN [b EXCEPT !.dram = files[b.id]]
  ELSE b

\* DRAM -> SSD, once the file is written.
Saved(b) == [b EXCEPT !.saved = TRUE, !.dram = NoData, !.tier = "SSD", !.told = "SSD"]

\* A block of n tokens from position pos on.  The binding reads the flags of a
\* sink (1) as its tier and the tier GPU_HBM (0) as its flags: the C manager
\* is told that a sink lies in DRAM.
NewBlock(id, pos, n, data) ==
  LET sink == kind = "scored" /\ pos < SinkTokens
  IN [id |-> id, start |-> pos, count |-> n, tier |-> "GPU", gpu |-> data,
      dram |-> NoData, saved |-> FALSE, sink |-> sink, access |-> 0,
      told |-> IF sink THEN "DRAM" ELSE "GPU"]
Filled(pos, n) == [s \in Slots |-> IF s <= n THEN pos + s ELSE 0]

-----------------------------------------------------------------------------
(* Taking tokens in.                                                       *)

\* The blocks _ingest_layer adds to each layer: as many as the new tokens need.
NewBlocks == [l \in Layers |->
  LET old == Managed(blocks[l])
  IN IF seqLen <= old THEN 0 ELSE (seqLen - old + BlockSize - 1) \div BlockSize]

\* The next identifier at layer l's turn, each layer m adding new[m] blocks.
FirstId(l, new) ==
  nextId + Cardinality({x \in (1 .. l - 1) \X (1 .. MaxTokens) : x[2] <= new[x[1]]})

\* Layer l with the first k of the blocks _ingest_layer adds to it.
Extended(l, k, id) ==
  LET old == Managed(blocks[l])
      Fresh(j) == LET pos == old + (j - 1) * BlockSize
                      n   == IF seqLen - pos < BlockSize THEN seqLen - pos ELSE BlockSize
                  IN NewBlock(id + j - 1, pos, n, Filled(pos, n))
  IN blocks[l] \o [j \in 1 .. k |-> Fresh(j)]

\* The last block after its tensor could not be allocated.  KVCacheManager has
\* listed the block and set its token_count by then, NaiveOffloadManager not.
LastUnallocated(bs) ==
  IF kind = "scored" THEN [bs EXCEPT ![Len(bs)].gpu = NoData]
                     ELSE SubSeq(bs, 1, Len(bs) - 1)

Ingest ==
  /\ blocks' = [l \in Layers |-> Extended(l, NewBlocks[l], FirstId(l, NewBlocks))]
  /\ nextId' = FirstId(NLayers + 1, NewBlocks) /\ nextId' <= MaxIds
  /\ UNCHANGED <<kind, files, seqLen>>

IngestFails ==
  /\ kind \in AllocMayFail
  /\ \E l \in Layers : \E k \in 1 .. NewBlocks[l] :
       /\ blocks' = [m \in Layers |->
            CASE m < l -> Extended(m, NewBlocks[m], FirstId(m, NewBlocks))
              [] m = l -> LastUnallocated(Extended(l, k, FirstId(l, NewBlocks)))
              [] m > l -> blocks[m]]
       /\ nextId' = FirstId(l, NewBlocks) + k /\ nextId' <= MaxIds
  /\ UNCHANGED <<kind, files, seqLen>>

\* append_token writes the last token of the cache only: its callers use it
\* after a step that produced one token.
OneMore(l) == \/ seqLen <= Managed(blocks[l]) + 1
              \/ kind = "scored" /\ blocks[l] = << >>

HasRoomLate(l) ==  \* MUTANT: a full block is not noticed
  blocks[l] # << >> /\ blocks[l][Len(blocks[l])].count <= BlockSize
HasRoom(l) == blocks[l] # << >> /\ blocks[l][Len(blocks[l])].count < BlockSize
Behind(l)  == seqLen > Managed(blocks[l])

\* The last block is listed on the GPU without a tensor to write to.
Unwritable(l) == /\ Behind(l) /\ HasRoom(l)
                 /\ Promoted(blocks[l][Len(blocks[l])]).gpu = NoData

\* The blocks append_token adds to each layer.
Appending == [l \in Layers |->
  CASE ~ Behind(l) \/ HasRoom(l)                  -> 0
    [] Behind(l) /\ kind = "scored" /\ blocks[l] = << >> -> NewBlocks[l]
    [] OTHER                                      -> 1]

WithToken(b) ==
  [b EXCEPT !.gpu = [s \in Slots |-> IF s = b.count + 1 THEN seqLen ELSE b.gpu[s]],
            !.count = @ + 1]
Opened(l, id) ==
  Append(blocks[l],
         NewBlock(id, Managed(blocks[l]), 1, [s \in Slots |-> IF s = 1 THEN seqLen ELSE 0]))

Appended(l, id) ==
  CASE ~ Behind(l) -> blocks[l]
    [] Behind(l) /\ HasRoom(l) ->
         [blocks[l] EXCEPT ![Len(blocks[l])] = WithToken(Promoted(@))]
    [] Behind(l) /\ kind = "scored" /\ blocks[l] = << >> -> Extended(l, NewBlocks[l], id)
    [] OTHER -> Opened(l, id)

AppendToken ==
  /\ \A l \in Layers : OneMore(l) /\ ~ Unwritable(l)
  /\ blocks' = [l \in Layers |-> Appended(l, FirstId(l, Appending))]
  /\ nextId' = FirstId(NLayers + 1, Appending) /\ nextId' <= MaxIds
  /\ UNCHANGED <<kind, files, seqLen>>

\* What a failing append_token may leave of layer l, with the identifiers it
\* has used there: the promotion of the last block fails, or its reading, or it
\* has no tensor, or the k-th new tensor cannot be had.
AppendLeft(l, id) ==
  {<<[blocks[l] EXCEPT ![Len(blocks[l])] = PromotionFailed(@)], 0>> :
     f \in {"promote"} \cap {g \in Faults : /\ Behind(l) /\ HasRoom(l)
                                           /\ blocks[l][Len(blocks[l])].tier # "GPU"}}
  \cup {<<[blocks[l] EXCEPT ![Len(blocks[l])] = IF half THEN HalfLoaded(@) ELSE @], 0>> :
          half \in {h \in BOOLEAN : /\ "load" \in Faults /\ Behind(l) /\ HasRoom(l)
                                   /\ blocks[l][Len(blocks[l])].tier = "SSD"}}
  \cup {<<[blocks[l] EXCEPT ![Len(blocks[l])] = Promoted(@)], 0>> :
          m \in {l} \cap {m \in Layers : Unwritable(m)}}
  \cup {<<LastUnallocated(SubSeq(Appended(l, id), 1, Len(blocks[l]) + k)), k>> :
          k \in {j \in 1 .. Appending[l] : kind \in AllocMayFail}}

AppendTokenFails ==
  /\ \A l \in Layers : OneMore(l)
  /\ \E l \in Layers : \E left \in AppendLeft(l, FirstId(l, Appending)) :
       /\ \A m \in Layers : m < l => ~ Unwritable(m)
       /\ blocks' = [m \in Layers |->
            CASE m < l -> Appended(m, FirstId(m, Appending))
              [] m = l -> left[1]
              [] m > l -> blocks[m]]
       /\ nextId' = FirstId(l, Appending) + left[2] /\ nextId' <= MaxIds
  /\ UNCHANGED <<kind, files, seqLen>>

-----------------------------------------------------------------------------
(* Reading, reporting, scheduling.                                         *)

\* build_past_kv brings every block up, and stops at one without a tensor.
OffGpu   == {x \in Places(blocks) : At(blocks, x).tier # "GPU"}
Phantoms == {x \in On(blocks, "GPU") : At(blocks, x).gpu = NoData}
Reached  == {x \in OffGpu : \A y \in Phantoms : Earlier(x, y)}
Build ==
  /\ blocks' = Changed(blocks, Reached, Promoted)
  /\ UNCHANGED <<kind, nextId, files, seqLen>>
BuildFails ==
  /\ "promote" \in Faults
  /\ \E x \in Reached :
       LET t == Changed(blocks, {y \in OffGpu : Earlier(y, x)}, Promoted)
       IN blocks' = Changed(t, {x}, PromotionFailed)
  /\ UNCHANGED <<kind, nextId, files, seqLen>>
BuildFailsLoading ==
  /\ "load" \in Faults
  /\ \E x \in Reached \cap On(blocks, "SSD") : \E X \in {{}, {x}} :
       LET t == Changed(blocks, {y \in OffGpu : Earlier(y, x)}, Promoted)
       IN blocks' = Changed(t, X, HalfLoaded)
  /\ UNCHANGED <<kind, nextId, files, seqLen>>

\* report_attention of one layer: every block the weights reach is accessed.
ReportAttention(l) ==
  /\ kind = "scored"
  /\ \A i \in 1 .. Len(blocks[l]) : blocks[l][i].access < MaxAccess
  /\ blocks' = [blocks EXCEPT ![l] =
                  [i \in 1 .. Len(blocks[l]) |-> [blocks[l][i] EXCEPT !.access = @ + 1]]]
  /\ UNCHANGED <<kind, nextId, files, seqLen>>

\* The orders of the sorts, which are stable, reversed or not.
Colder(x, y) == LET a == At(blocks, x).access  b == At(blocks, y).access
                IN a < b \/ (a = b /\ Earlier(x, y))
Warmer(x, y) == LET a == At(blocks, x).access  b == At(blocks, y).access
                IN a > b \/ (a = b /\ Earlier(x, y))

\* gpu_kv_bytes, in blocks, and the excess over 70 % of the budget.
OnGpu  == Cardinality(On(blocks, "GPU"))
Excess == IF 100 * OnGpu > 70 * Budget THEN OnGpu - (70 * Budget) \div 100 ELSE 0
Least(m, n) == IF m < n THEN m ELSE n

EvictableAny == On(blocks, "GPU") \ Phantoms  \* MUTANT: sinks are candidates
Evictable    == {x \in On(blocks, "GPU") \ Phantoms : ~ At(blocks, x).sink}

ColdestHot  == Firsts(Evictable, Least(Excess, MaxEvict), Warmer)  \* MUTANT: reverse=True
ColdestGpu  == Firsts(Evictable, Least(Excess, MaxEvict), Colder)

\* _evict_cold_blocks, and the FIFO loop of NaiveOffloadManager.schedule.
Victims ==
  CASE 100 * OnGpu <= 85 * Budget -> {}
    [] 100 * OnGpu > 85 * Budget /\ kind = "scored" -> ColdestGpu
    [] OTHER -> Firsts(On(blocks, "GPU") \ Phantoms, Excess, Earlier)

\* The order in which they go.
Sooner(x, y) == IF kind = "scored" THEN Colder(x, y) ELSE Earlier(x, y)

\* _spill_dram_to_ssd on the table t that the eviction has left.
Spillable(t) == {x \in On(t, "DRAM") : At(t, x).dram # NoData /\ ~ At(t, x).sink}
Spilled(t) ==
  IF kind = "scored" /\ SsdDir /\ Cardinality(Spillable(t)) >= SpillFrom
  THEN Firsts(Spillable(t), MaxSpill, Colder) ELSE {}
Written(t, S) ==
  [f \in Ids |-> LET X == {x \in S : At(t, x).id = f}
                 IN IF X = {} THEN files[f] ELSE At(t, CHOOSE x \in X : TRUE).dram]

\* _promote_warm_blocks on the table t that the spill has left; the pressure
\* is what schedule measured before it evicted.
Warm(t) ==
  IF kind = "scored" /\ 100 * OnGpu < 60 * Budget
  THEN Firsts({x \in On(t, "DRAM") : At(t, x).dram # NoData}, MaxPromote, Warmer) ELSE {}

\* schedule: evict, spill, promote.  (\E t \in {e} stands for LET t == e; TLC
\* evaluates e once.)
Evicted == Changed(blocks, Victims, Demoted)
Schedule ==
  /\ \E t1 \in {Evicted} : \E S \in {Spilled(t1)} : \E t2 \in {Changed(t1, S, Saved)} :
     \E W \in {Warm(t2)} :
       /\ blocks' = Changed(t2, W, Promoted)
       /\ files' = Written(t1, S)
  /\ UNCHANGED <<kind, nextId, seqLen>>

\* The pinned buffer of a victim cannot be had, after those before it have gone:
\* KVCacheManager asks for one if the block has none, NaiveOffloadManager always.
ScheduleFailsDemoting ==
  /\ "pin" \in Faults
  /\ \E x \in Victims :
       /\ kind = "scored" => At(blocks, x).dram = NoData
       /\ blocks' = Changed(blocks, {y \in Victims : Sooner(y, x)}, Demoted)
  /\ UNCHANGED <<kind, nextId, files, seqLen>>

\* The write of a file fails: it is truncated or short, its block untouched.
ScheduleFailsSaving ==
  /\ "save" \in Faults
  /\ \E t1 \in {Evicted} : \E D \in {Spilled(t1)} :
     \E x \in D : \E S \in {{y \in D : Colder(y, x)}} :
       /\ blocks' = Changed(t1, S, Saved)
       /\ files' = [Written(t1, S) EXCEPT ![At(t1, x).id] = Torn]
  /\ UNCHANGED <<kind, nextId, seqLen>>

\* The copy of a warm block to the GPU fails, after those before it.
ScheduleFailsPromoting ==
  /\ "promote" \in Faults
  /\ \E t1 \in {Evicted} : \E S \in {Spilled(t1)} : \E t2 \in {Changed(t1, S, Saved)} :
     \E W \in {Warm(t2)} : \E x \in W :
       /\ blocks' = Changed(t2, {y \in W : Warmer(y, x)}, Promoted)
       /\ files' = Written(t1, S)
  /\ UNCHANGED <<kind, nextId, seqLen>>

-----------------------------------------------------------------------------
(* The loop around the manager: a forward pass runs on the whole cache.    *)

Forward ==
  /\ \A l \in Layers : Managed(blocks[l]) = seqLen
  /\ seqLen' \in seqLen + 1 .. MaxTokens
  /\ UNCHANGED <<kind, blocks, nextId, files>>

\* ssd_dir may hold the files of an earlier manager, whose ids began at 0 too.
Init ==
  /\ kind \in Kinds
  /\ blocks = [l \in Layers |-> << >>] /\ nextId = 0 /\ seqLen = 0
  /\ \E old \in {NoFile, Torn} : files = [f \in Ids |-> old]

Next ==
  \/ Forward
  \/ Ingest \/ IngestFails \/ AppendToken \/ AppendTokenFails
  \/ Build \/ BuildFails \/ BuildFailsLoading
  \/ \E l \in Layers : ReportAttention(l)
  \/ Schedule \/ ScheduleFailsDemoting \/ ScheduleFailsSaving \/ ScheduleFailsPromoting

Spec == Init /\ [][Next]_vars

-----------------------------------------------------------------------------
(* Properties.                                                             *)

\* Types of the tables and files.
TypeOK ==
  /\ kind \in Kinds /\ seqLen \in 0 .. MaxTokens
  /\ nextId \in 0 .. MaxIds
  /\ \A l \in Layers : \A i \in 1 .. Len(blocks[l]) : blocks[l][i] \in Block
  /\ files \in [Ids -> Tensors \cup {NoFile, Torn}]

\* A block that holds one of the first sink_tokens tokens never leaves the GPU,
\* however the budget, the spills and the failures fall ("sink_tokens: number
\* of initial tokens to pin on GPU permanently").
SinksStay ==
  kind = "scored" =>
    \A l \in Layers : \A i \in 1 .. Len(blocks[l]) :
      blocks[l][i].start < SinkTokens => blocks[l][i].tier = "GPU"

\* The tier the C manager was told last, from which it schedules, is the tier
\* the block is in, whichever calls moved it; only a promotion that failed
\* after its load leaves it one tier behind.  (Sinks are told wrong from the
\* start.)
TierMirrored ==
  kind = "scored" =>
    \A l \in Layers : \A i \in 1 .. Len(blocks[l]) :
      LET b == blocks[l][i]
      IN \/ b.sink \/ b.told = b.tier
         \/ "promote" \in Faults /\ b.tier = "DRAM" /\ b.told = "SSD"

\* A step never takes a block off the GPU and leaves there a colder one that
\* is no sink (KVCacheManager: eviction follows the attention it was told of).
ColdGoFirst ==
  [][kind = "scored" =>
       \A x, y \in Places(blocks) :
         /\ At(blocks, x).tier = "GPU" /\ At(blocks', x).tier # "GPU"
         /\ At(blocks', y).tier = "GPU" /\ ~ At(blocks, y).sink
         => At(blocks, x).access <= At(blocks, y).access]_vars

Log == INSTANCE TokenLog WITH conv <- 0, kept <- [l \in Layers |-> Built(blocks[l])]

\* Whatever moved where and whatever failed on the way, build_past_kv returns
\* the tokens taken in, in order, with the right values: stale copies in the
\* tiers below, torn files and half-done calls are never read.
KeepsLog == Log!LogSpec
=============================================================================
