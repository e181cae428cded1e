------------------------------- MODULE OrchKV -------------------------------
(***************************************************************************)
(* The block store behind the C API of src/api/orchkv_api.cu: requests     *)
(* made of per-(layer, head) vectors of KV blocks, two slab pools (GPU HBM *)
(* and pinned DRAM), one storage file per request, and the calls that fill *)
(* blocks and move them between the tiers.                                 *)
(*                                                                         *)
(* The API runs on its caller's thread and takes no lock across a call, so *)
(* one action is one whole call.  Bytes are abstracted to one datum per    *)
(* token slot of a slab; K and V of a token travel together.               *)
(***************************************************************************)
EXTENDS Integers, FiniteSets, Sequences

CONSTANTS
  Requests,          \* contexts a caller may hold (kv_request_ctx_t)
  NLayers,           \* n_layers
  NHeads,            \* n_kv_heads
  TokensPerBlock,    \* tokens_per_block
  MaxBlocksPerHead,  \* max_blocks_per_head: what the file layout provides for
  GpuSlabs,          \* number of slabs in the GPU pool
  DramSlabs,         \* number of slabs in the DRAM pool
  MaxTokens,         \* BOUND: tokens any caller stores per layer
  TokenLimit,        \* BOUND: tokens the caller of each request stores per layer
  Faults,            \* which fallible operations may fail (see FaultKinds)
  RetryAfterError,   \* may a caller repeat a prefill/append that failed?
  ChunkedPrefill,    \* may a caller prefill a layer that holds tokens?
  Pinnable,          \* blocks a caller may flag KV_FLAG_PIN
  NoSlab,            \* the NULL data_ptr
  Junk               \* the content of a slot nobody has written

FaultKinds == {"open", "upload", "sync", "d2h", "h2d", "write", "read"}

Layers == 0 .. NLayers - 1
Heads  == 0 .. NHeads - 1
Slots  == 0 .. TokensPerBlock - 1

\* ORCHKV_DIV_CEIL(n, tokens_per_block): the vector length n tokens need.
BlocksFor(n) == (n + TokensPerBlock - 1) \div TokensPerBlock

Indices == 0 .. BlocksFor(MaxTokens) - 1
GpuPool  == 1 .. GpuSlabs
DramPool == 1 .. DramSlabs

\* A block is named by its place: request, layer, head, index in the vector.
Blocks == Requests \X Layers \X Heads \X Indices
Streams == Requests \X Layers

\* The K/V pair of a token: whose it is, and its position in the sequence.
Tokens  == Requests \X Layers \X Heads \X (0 .. MaxTokens)
Content == [Slots -> Tokens \union {Junk}]
Blank   == [s \in Slots |-> Junk]

ASSUME ConstantsOK ==
  /\ NLayers \in Nat \ {0} /\ NHeads \in Nat \ {0}
  /\ TokensPerBlock \in Nat \ {0} /\ MaxBlocksPerHead \in Nat \ {0}
  /\ GpuSlabs \in Nat /\ DramSlabs \in Nat /\ MaxTokens \in Nat
  /\ TokenLimit \in [Requests -> 0 .. MaxTokens]
  /\ IsFiniteSet(Requests)
  /\ Faults \subseteq FaultKinds
  /\ RetryAfterError \in BOOLEAN /\ ChunkedPrefill \in BOOLEAN
  /\ Pinnable \subseteq Blocks
  /\ NoSlab \notin GpuPool \union DramPool
  /\ Junk \notin Tokens

VARIABLES
  inited,     \* g_sys.inited
  live,       \* contexts created and not destroyed
  fctx,       \* live contexts whose storage file could be opened
  ntok,       \* tokens the metadata of a layer accounts for
  state,      \* block -> KVBlockState
  tier,       \* block -> StorageTier
  ptr,        \* block -> data_ptr
  pinned,     \* blocks with KV_FLAG_PIN set
  addrmap,    \* blocks in the address map
  gpuFree,    \* gpu_tier_t.free_stack[0 .. free_top)
  dramFree,   \* dram_tier_t.free_stack[0 .. free_top)
  gpuMem,     \* GPU slab -> content
  dramMem,    \* DRAM slab -> content
  file,       \* request -> file slot -> content
  onGpu, onDram, onStorage,   \* the blocks_on_* counters of a context
  seqLen,     \* seq_len of a context
  acked,      \* HISTORY: tokens whose prefill/append returned ORCHKV_OK
  failed      \* HISTORY: layers whose last prefill/append returned an error

metaVars  == <<ntok, seqLen, acked, failed>>
reqVars   == <<inited, live, fctx, pinned>>
countVars == <<onGpu, onDram, onStorage>>
vars == <<inited, live, fctx, ntok, state, tier, ptr, pinned, addrmap, gpuFree,
          dramFree, gpuMem, dramMem, file, onGpu, onDram, onStorage, seqLen,
          acked, failed>>

-----------------------------------------------------------------------------
(* Block metadata.                                                         *)

ReqOf(b)    == b[1]
LayerOf(b)  == b[2]
HeadOf(b)   == b[3]
IndexOf(b)  == b[4]
StreamOf(b) == <<b[1], b[2]>>

\* kv_request_get_block finds b.
InVector(b) == ReqOf(b) \in live /\ IndexOf(b) < BlocksFor(ntok[StreamOf(b)])

\* token_count of b when its layer's metadata accounts for n tokens.
TokenCount(b, n) ==
  LET rest == n - IndexOf(b) * TokensPerBlock
  IN  IF rest < TokensPerBlock THEN rest ELSE TokensPerBlock

\* The table of kv_block_set_state; EVICTED, always allowed, is never asked
\* for by this API.  (Definitions marked MUTANT are faulty variants of the one
\* that follows; nothing uses them.)
AllowedNoWarm ==  \* MUTANT: MIGRATING -> WARM left out of the table
  [FREE |-> {"ALLOCATED"}, ALLOCATED |-> {"HOT"}, HOT |-> {"WARM", "MIGRATING"},
   WARM |-> {"HOT", "COLD", "MIGRATING"}, COLD |-> {"WARM", "MIGRATING"},
   MIGRATING |-> {"HOT", "COLD"}]
Allowed ==
  [FREE |-> {"ALLOCATED"}, ALLOCATED |-> {"HOT"}, HOT |-> {"WARM", "MIGRATING"},
   WARM |-> {"HOT", "COLD", "MIGRATING"}, COLD |-> {"WARM", "MIGRATING"},
   MIGRATING |-> {"HOT", "WARM", "COLD"}]

BlockStates == {"FREE", "ALLOCATED", "HOT", "WARM", "COLD", "MIGRATING"}
Tiers == {"NONE", "GPU", "DRAM", "NVM"}

\* A refused transition is logged and leaves the state as it was.
SetState(old, new) == IF new \in Allowed[old] THEN new ELSE old
Migrated(old, new) == SetState(SetState(old, "MIGRATING"), new)

\* orchfs_compute_offset, in slabs: no check that idx < max_blocks_per_head.
FileSlotInterleaved(b) ==  \* MUTANT: the stride of a head forgotten
  (LayerOf(b) * NHeads + HeadOf(b)) + IndexOf(b)
FileSlot(b) == (LayerOf(b) * NHeads + HeadOf(b)) * MaxBlocksPerHead + IndexOf(b)
FileSlots ==
  0 .. ((NLayers * NHeads - 1) * MaxBlocksPerHead + BlocksFor(MaxTokens) - 1)

-----------------------------------------------------------------------------
(* Slab pools: gpu_tier_alloc and dram_tier_alloc pop the free stack, the  *)
(* frees push the slab back, with no check that it was taken.              *)

FullStack(n) == [i \in 1 .. n |-> n + 1 - i]
Top(stack)   == stack[Len(stack)]
Pop(stack)   == SubSeq(stack, 1, Len(stack) - 1)
PushLost(stack, slab) == stack  \* MUTANT: a free that forgets the slab
Push(stack, slab)     == Append(stack, slab)

\* transfer_submit + transfer_sync_stream: the callers drop the result of the
\* synchronisation, so a copy that fails there leaves the target unwritten.
Copied(content) == {content} \union (IF "sync" \in Faults THEN {Blank} ELSE {})
UploadMayFail   == Faults \cap {"upload", "sync"} # {}

\* What one hop changes in the per-request counters.
DeltaSwapped(t, from, to) ==  \* MUTANT: -- and ++ exchanged
  (IF t = from THEN 1 ELSE 0) - (IF t = to THEN 1 ELSE 0)
Delta(t, from, to) == (IF t = to THEN 1 ELSE 0) - (IF t = from THEN 1 ELSE 0)
CountHop(r, from, to) ==
  /\ onGpu'     = [onGpu     EXCEPT ![r] = @ + Delta("GPU", from, to)]
  /\ onDram'    = [onDram    EXCEPT ![r] = @ + Delta("DRAM", from, to)]
  /\ onStorage' = [onStorage EXCEPT ![r] = @ + Delta("NVM", from, to)]

\* MIGRATING, then kv_block_set_location and the state of the new tier.
Relocate(b, t, p, s) ==
  /\ tier'  = [tier  EXCEPT ![b] = t]
  /\ ptr'   = [ptr   EXCEPT ![b] = p]
  /\ state' = [state EXCEPT ![b] = Migrated(@, s)]

\* MIGRATING, then back: the target slab is returned to its pool.
RollBack(b, s) ==
  /\ state' = [state EXCEPT ![b] = Migrated(@, s)]
  /\ UNCHANGED <<tier, ptr, addrmap, gpuFree, dramFree, gpuMem, dramMem, countVars>>
  /\ UNCHANGED <<reqVars, metaVars>>

-----------------------------------------------------------------------------
(* Lifecycle.                                                              *)

NoBlockOf(r, f, none) == [b \in Blocks |-> IF ReqOf(b) = r THEN none ELSE f[b]]

\* orchkv_init: fresh pools and an empty address map.
SystemInit ==
  /\ ~inited
  /\ inited' = TRUE
  /\ gpuFree' = FullStack(GpuSlabs) /\ dramFree' = FullStack(DramSlabs)
  /\ gpuMem' = [s \in GpuPool |-> Blank] /\ dramMem' = [s \in DramPool |-> Blank]
  /\ addrmap' = {}
  /\ UNCHANGED <<live, fctx, state, tier, ptr, pinned, file, countVars, metaVars>>

\* orchkv_shutdown, after every context was destroyed (the lifecycle that
\* orchkv_api.h documents): the pools are torn down.
SystemShutdown ==
  /\ inited /\ live = {}
  /\ inited' = FALSE
  /\ gpuFree' = <<>> /\ dramFree' = <<>>
  /\ UNCHANGED <<live, fctx, state, tier, ptr, pinned, addrmap, gpuMem, dramMem,
                 file, countVars, metaVars>>

\* orchkv_request_create; a failed orchfs_file_open leaves orchfs_fctx NULL.
RequestCreate(r) ==
  /\ inited /\ r \notin live
  /\ live' = live \union {r}
  /\ \/ fctx' = fctx \union {r}
     \/ "open" \in Faults /\ UNCHANGED fctx
  /\ UNCHANGED <<inited, ntok, state, tier, ptr, pinned, addrmap, gpuFree, dramFree,
                 gpuMem, dramMem, file, countVars, seqLen, acked, failed>>

\* The calls that walk several blocks of a request go by layer, head, index.
UpTo(c, b) ==
  \/ LayerOf(c) < LayerOf(b)
  \/ LayerOf(c) = LayerOf(b) /\ HeadOf(c) < HeadOf(b)
  \/ LayerOf(c) = LayerOf(b) /\ HeadOf(c) = HeadOf(b) /\ IndexOf(c) <= IndexOf(b)
Rank(b, S) == Cardinality({c \in S : UpTo(c, b)})

\* A free stack after the slabs of the blocks of S were freed in that order.
Nth(k, S) == CHOOSE b \in S : Rank(b, S) = k
Released(stack, S) ==
  stack \o [k \in 1 .. Cardinality(S) |-> ptr[Nth(k, S)]]

\* orchkv_request_destroy: unmap and free every block, close and unlink the
\* file.  The API never queues I/O, so io_worker_flush returns at once.
RequestDestroy(r) ==
  LET mine(t) == {b \in Blocks : ReqOf(b) = r /\ tier[b] = t}
  IN  /\ inited /\ r \in live
      /\ live' = live \ {r} /\ fctx' = fctx \ {r}
      /\ pinned' = {b \in pinned : ReqOf(b) # r}
      /\ addrmap' = {b \in addrmap : ReqOf(b) # r}
      /\ gpuFree' = Released(gpuFree, mine("GPU"))
      /\ dramFree' = Released(dramFree, mine("DRAM"))
      /\ gpuMem' = [s \in GpuPool |->
           IF \E b \in mine("GPU") : ptr[b] = s THEN Blank ELSE gpuMem[s]]
      /\ dramMem' = [s \in DramPool |->
           IF \E b \in mine("DRAM") : ptr[b] = s THEN Blank ELSE dramMem[s]]
      /\ file' = [file EXCEPT ![r] = [o \in FileSlots |-> Blank]]
      /\ state' = NoBlockOf(r, state, "FREE")
      /\ tier' = NoBlockOf(r, tier, "NONE")
      /\ ptr' = NoBlockOf(r, ptr, NoSlab)
      /\ onGpu' = [onGpu EXCEPT ![r] = 0] /\ onDram' = [onDram EXCEPT ![r] = 0]
      /\ onStorage' = [onStorage EXCEPT ![r] = 0]
      /\ seqLen' = [seqLen EXCEPT ![r] = 0]
      /\ ntok' = [x \in Streams |-> IF x[1] = r THEN 0 ELSE ntok[x]]
      /\ acked' = [x \in Streams |-> IF x[1] = r THEN 0 ELSE acked[x]]
      /\ failed' = {x \in failed : x[1] # r}
      /\ UNCHANGED inited

\* A caller sets or clears KV_FLAG_PIN in the flags of a block it holds.
TogglePin(b) ==
  /\ inited /\ InVector(b) /\ b \in Pinnable
  /\ pinned' = IF b \in pinned THEN pinned \ {b} ELSE pinned \union {b}
  /\ UNCHANGED <<inited, live, fctx, ntok, state, tier, ptr, addrmap, gpuFree,
                 dramFree, gpuMem, dramMem, file, countVars, seqLen, acked, failed>>

-----------------------------------------------------------------------------
(* Filling blocks.  A FREE block of the vector gets a GPU slab when it is   *)
(* reached; the walk stops at the first block for which the pool is empty.  *)

Callable(x) ==
  /\ inited /\ x[1] \in live
  /\ RetryAfterError \/ x \notin failed

\* The blocks of S that still find a slab, when S is walked in order.
Served(S) == {b \in S : Rank(b, S) <= Len(gpuFree)}
SlabFor(b, S) == gpuFree[Len(gpuFree) + 1 - Rank(b, S)]

\* assign_gpu_slab for every block of S, and the counter its callers bump.
CountOnce(S) == IF S = {} THEN 0 ELSE 1  \* MUTANT: bumped per call
Count(S)     == Cardinality(S)
AssignGpuSlabs(r, S) ==
  /\ ptr'   = [b \in Blocks |-> IF b \in S THEN SlabFor(b, S) ELSE ptr[b]]
  /\ tier'  = [b \in Blocks |-> IF b \in S THEN "GPU" ELSE tier[b]]
  /\ state' = [b \in Blocks |->
       IF b \in S THEN SetState(SetState(state[b], "ALLOCATED"), "HOT") ELSE state[b]]
  /\ gpuFree' = SubSeq(gpuFree, 1, Len(gpuFree) - Cardinality(S))
  /\ addrmap' = addrmap \union S
  /\ onGpu' = [onGpu EXCEPT ![r] = @ + Count(S)]

\* The call on stream x returned OK for n tokens, or an error.  Only layer 0
\* advances seq_len.
Acknowledge(x, n, ok) ==
  /\ acked'  = IF ok THEN [acked EXCEPT ![x] = @ + n] ELSE acked
  /\ failed' = IF ok THEN failed \ {x} ELSE failed \union {x}
  /\ seqLen' = IF ok /\ x[2] = 0 THEN [seqLen EXCEPT ![x[1]] = @ + n] ELSE seqLen

\* What prefill copies into block b from a chunk of n tokens, whose first is
\* token `base` of the sequence: row token_start of the chunk onwards, even
\* when token_start counts from the start of the sequence.
ChunkContent(b, base, n) ==
  LET start == IndexOf(b) * TokensPerBlock
  IN  [s \in Slots |->
        IF s < TokenCount(b, ntok[StreamOf(b)] + n) /\ start + s < n
        THEN <<ReqOf(b), LayerOf(b), HeadOf(b), base + start + s>> ELSE Junk]

\* orchkv_prefill.  A refused copy (transfer_submit < 0) is skipped over.
Prefill(x, n) ==
  LET total == ntok[x] + n
      fresh == {b \in Blocks : /\ StreamOf(b) = x /\ IndexOf(b) < BlocksFor(total)
                               /\ state[b] = "FREE"}
      done  == Served(fresh)
  IN  /\ Callable(x) /\ total <= TokenLimit[x[1]]
      /\ ChunkedPrefill \/ ntok[x] = 0
      /\ ntok' = [ntok EXCEPT ![x] = total]
      /\ AssignGpuSlabs(x[1], done)
      /\ \E lost \in SUBSET done :
           /\ UploadMayFail \/ lost = {}
           /\ gpuMem' = [s \in GpuPool |->
                IF \E b \in done \ lost : SlabFor(b, done) = s
                THEN ChunkContent(CHOOSE b \in done : SlabFor(b, done) = s, acked[x], n)
                ELSE gpuMem[s]]
      /\ Acknowledge(x, n, done = fresh)
      /\ UNCHANGED <<reqVars, dramFree, dramMem, file, onDram, onStorage>>

\* orchkv_append_token.  The metadata grows first; then head after head the
\* last block gets a slab if it is FREE, and must be on the GPU.
AppendToken(x) ==
  LET total   == ntok[x] + 1
      slot    == (total - 1) % TokensPerBlock
      last(h) == <<x[1], x[2], h, BlocksFor(total) - 1>>
      fresh   == {last(h) : h \in {g \in Heads : state[last(g)] = "FREE"}}
      stuck   == {b \in {last(h) : h \in Heads} :
                    IF b \in fresh THEN b \notin Served(fresh) ELSE tier[b] # "GPU"}
      reached == {b \in {last(h) : h \in Heads} : \A c \in stuck : HeadOf(b) < HeadOf(c)}
      slabbed == reached \cap fresh
      home(b) == IF b \in fresh THEN SlabFor(b, slabbed) ELSE ptr[b]
  IN  /\ Callable(x) /\ total <= TokenLimit[x[1]]
      /\ ntok' = [ntok EXCEPT ![x] = total]
      /\ AssignGpuSlabs(x[1], slabbed)
      /\ \E lost \in SUBSET reached :
           /\ UploadMayFail \/ lost = {}
           /\ gpuMem' = [s \in GpuPool |->
                IF \E b \in reached \ lost : home(b) = s
                THEN [gpuMem[s] EXCEPT ![slot] =
                        <<x[1], x[2], HeadOf(CHOOSE b \in reached : home(b) = s), acked[x]>>]
                ELSE gpuMem[s]]
      /\ Acknowledge(x, 1, stuck = {})
      /\ UNCHANGED <<reqVars, dramFree, dramMem, file, onDram, onStorage>>

-----------------------------------------------------------------------------
(* Moving blocks.  Each call first checks the tier and, when it demotes,   *)
(* the pin; a full target pool or a failed copy ends it with the block     *)
(* where it was.                                                           *)

In(b, t)        == inited /\ InVector(b) /\ tier[b] = t
MayDemoteAny(b) == TRUE  \* MUTANT: KV_FLAG_PIN not looked at
MayDemote(b)    == b \notin pinned

\* A failed or short write leaves the slot as it was or overwritten in part.
Torn(b) == {file[ReqOf(b)], [file[ReqOf(b)] EXCEPT ![FileSlot(b)] = Blank]}

EvictToDram(b) ==
  /\ In(b, "GPU") /\ MayDemote(b) /\ dramFree # <<>>
  /\ \/ /\ "d2h" \in Faults
        /\ RollBack(b, "HOT") /\ UNCHANGED file
     \/ /\ \E data \in Copied(gpuMem[ptr[b]]) :
             dramMem' = [dramMem EXCEPT ![Top(dramFree)] = data]
        /\ Relocate(b, "DRAM", Top(dramFree), "WARM")
        /\ dramFree' = Pop(dramFree)
        /\ gpuFree' = Push(gpuFree, ptr[b])
        /\ gpuMem' = [gpuMem EXCEPT ![ptr[b]] = Blank]
        /\ CountHop(ReqOf(b), "GPU", "DRAM")
        /\ UNCHANGED <<reqVars, metaVars, addrmap, file>>

PromoteToGpu(b) ==
  /\ In(b, "DRAM") /\ gpuFree # <<>>
  /\ \/ /\ "h2d" \in Faults
        /\ RollBack(b, "WARM") /\ UNCHANGED file
     \/ /\ \E data \in Copied(dramMem[ptr[b]]) :
             gpuMem' = [gpuMem EXCEPT ![Top(gpuFree)] = data]
        /\ Relocate(b, "GPU", Top(gpuFree), "HOT")
        /\ gpuFree' = Pop(gpuFree)
        /\ dramFree' = Push(dramFree, ptr[b])
        /\ dramMem' = [dramMem EXCEPT ![ptr[b]] = Blank]
        /\ CountHop(ReqOf(b), "DRAM", "GPU")
        /\ UNCHANGED <<reqVars, metaVars, addrmap, file>>

EvictToStorage(b) ==
  /\ In(b, "DRAM") /\ MayDemote(b) /\ ReqOf(b) \in fctx
  /\ \/ /\ "write" \in Faults
        /\ RollBack(b, "WARM")
        /\ \E f \in Torn(b) : file' = [file EXCEPT ![ReqOf(b)] = f]
     \/ /\ file' = [file EXCEPT ![ReqOf(b)][FileSlot(b)] = dramMem[ptr[b]]]
        /\ Relocate(b, "NVM", NoSlab, "COLD")
        /\ dramFree' = Push(dramFree, ptr[b])
        /\ dramMem' = [dramMem EXCEPT ![ptr[b]] = Blank]
        /\ CountHop(ReqOf(b), "DRAM", "NVM")
        /\ UNCHANGED <<reqVars, metaVars, addrmap, gpuFree, gpuMem>>

PromoteFromStorage(b) ==
  /\ In(b, "NVM") /\ ReqOf(b) \in fctx /\ dramFree # <<>>
  /\ \/ /\ "read" \in Faults
        /\ RollBack(b, "COLD") /\ UNCHANGED file
     \/ /\ dramMem' = [dramMem EXCEPT ![Top(dramFree)] = file[ReqOf(b)][FileSlot(b)]]
        /\ Relocate(b, "DRAM", Top(dramFree), "WARM")
        /\ dramFree' = Pop(dramFree)
        /\ CountHop(ReqOf(b), "NVM", "DRAM")
        /\ UNCHANGED <<reqVars, metaVars, addrmap, gpuFree, gpuMem, file>>

\* orchkv_evict_cold: evict_to_dram, then evict_to_storage.  When the second
\* hop fails the block stays in DRAM and the call returns its error.
EvictCold(b) ==
  /\ In(b, "GPU") /\ MayDemote(b) /\ dramFree # <<>>
  /\ \/ /\ "d2h" \in Faults                          \* hop 1 fails
        /\ RollBack(b, "HOT") /\ UNCHANGED file
     \/ /\ ReqOf(b) \notin fctx \/ "write" \in Faults  \* hop 2 fails
        /\ \E data \in Copied(gpuMem[ptr[b]]) :
             dramMem' = [dramMem EXCEPT ![Top(dramFree)] = data]
        /\ Relocate(b, "DRAM", Top(dramFree), "WARM")
        /\ dramFree' = Pop(dramFree)
        /\ \E f \in IF ReqOf(b) \in fctx THEN Torn(b) ELSE {file[ReqOf(b)]} :
             file' = [file EXCEPT ![ReqOf(b)] = f]
        /\ gpuFree' = Push(gpuFree, ptr[b])
        /\ gpuMem' = [gpuMem EXCEPT ![ptr[b]] = Blank]
        /\ CountHop(ReqOf(b), "GPU", "DRAM")
        /\ UNCHANGED <<reqVars, metaVars, addrmap>>
     \/ /\ ReqOf(b) \in fctx                           \* both hops succeed
        /\ \E data \in Copied(gpuMem[ptr[b]]) :
             file' = [file EXCEPT ![ReqOf(b)][FileSlot(b)] = data]
        /\ tier' = [tier EXCEPT ![b] = "NVM"]
        /\ ptr' = [ptr EXCEPT ![b] = NoSlab]
        /\ state' = [state EXCEPT ![b] = Migrated(Migrated(@, "WARM"), "COLD")]
        /\ dramFree' = Push(Pop(dramFree), Top(dramFree))
        /\ gpuFree' = Push(gpuFree, ptr[b])
        /\ gpuMem' = [gpuMem EXCEPT ![ptr[b]] = Blank]
        /\ CountHop(ReqOf(b), "GPU", "NVM")
        /\ UNCHANGED <<reqVars, metaVars, addrmap, dramMem>>

\* orchkv_get_kv_block on a block in storage: promote_from_storage, then
\* promote_to_gpu.  On a block in DRAM it is PromoteToGpu, on the GPU a read.
GetKvBlock(b) ==
  \/ PromoteToGpu(b)
  \/ /\ In(b, "NVM") /\ ReqOf(b) \in fctx /\ dramFree # <<>>
     /\ \/ /\ "read" \in Faults                      \* hop 1 fails
           /\ RollBack(b, "COLD") /\ UNCHANGED file
        \/ /\ gpuFree = <<>> \/ "h2d" \in Faults     \* hop 2 fails
           /\ dramMem' = [dramMem EXCEPT ![Top(dramFree)] = file[ReqOf(b)][FileSlot(b)]]
           /\ Relocate(b, "DRAM", Top(dramFree), "WARM")
           /\ dramFree' = Pop(dramFree)
           /\ CountHop(ReqOf(b), "NVM", "DRAM")
           /\ UNCHANGED <<reqVars, metaVars, addrmap, gpuFree, gpuMem, file>>
        \/ /\ gpuFree # <<>>                         \* both hops succeed
           /\ \E data \in Copied(file[ReqOf(b)][FileSlot(b)]) :
                gpuMem' = [gpuMem EXCEPT ![Top(gpuFree)] = data]
           /\ tier' = [tier EXCEPT ![b] = "GPU"]
           /\ ptr' = [ptr EXCEPT ![b] = Top(gpuFree)]
           /\ state' = [state EXCEPT ![b] = Migrated(Migrated(@, "WARM"), "HOT")]
           /\ dramFree' = Push(Pop(dramFree), Top(dramFree))
           /\ gpuFree' = Pop(gpuFree)
           /\ CountHop(ReqOf(b), "NVM", "GPU")
           /\ UNCHANGED <<reqVars, metaVars, addrmap, dramMem, file>>

-----------------------------------------------------------------------------
Init ==
  /\ inited = FALSE /\ live = {} /\ fctx = {} /\ pinned = {} /\ addrmap = {}
  /\ ntok = [x \in Streams |-> 0] /\ acked = [x \in Streams |-> 0] /\ failed = {}
  /\ state = [b \in Blocks |-> "FREE"] /\ tier = [b \in Blocks |-> "NONE"]
  /\ ptr = [b \in Blocks |-> NoSlab]
  /\ gpuFree = <<>> /\ dramFree = <<>>
  /\ gpuMem = [s \in GpuPool |-> Blank] /\ dramMem = [s \in DramPool |-> Blank]
  /\ file = [r \in Requests |-> [o \in FileSlots |-> Blank]]
  /\ onGpu = [r \in Requests |-> 0] /\ onDram = [r \in Requests |-> 0]
  /\ onStorage = [r \in Requests |-> 0] /\ seqLen = [r \in Requests |-> 0]

Next ==
  \/ SystemInit
  \/ SystemShutdown
  \/ \E r \in Requests : RequestCreate(r) \/ RequestDestroy(r)
  \/ \E x \in Streams : AppendToken(x) \/ \E n \in 1 .. MaxTokens : Prefill(x, n)
  \/ \E b \in Blocks :
       \/ TogglePin(b)
       \/ EvictToDram(b)
       \/ PromoteToGpu(b)
       \/ EvictToStorage(b)
       \/ PromoteFromStorage(b)
       \/ EvictCold(b)
       \/ GetKvBlock(b)

Spec == Init /\ [][Next]_vars

-----------------------------------------------------------------------------
(* Properties.                                                             *)

\* Every variable holds a value of its kind; in particular no unsigned
\* counter of a context was decremented below zero.
TypeOK ==
  /\ inited \in BOOLEAN
  /\ live \subseteq Requests /\ fctx \subseteq live
  /\ ntok \in [Streams -> 0 .. MaxTokens] /\ acked \in [Streams -> 0 .. MaxTokens]
  /\ failed \subseteq Streams
  /\ state \in [Blocks -> BlockStates]
  /\ tier \in [Blocks -> Tiers]
  /\ ptr \in [Blocks -> GpuPool \union DramPool \union {NoSlab}]
  /\ pinned \subseteq Blocks /\ addrmap \subseteq Blocks
  /\ gpuFree \in Seq(GpuPool) /\ dramFree \in Seq(DramPool)
  /\ gpuMem \in [GpuPool -> Content] /\ dramMem \in [DramPool -> Content]
  /\ file \in [Requests -> [FileSlots -> Content]]
  /\ onGpu \in [Requests -> Nat] /\ onDram \in [Requests -> Nat]
  /\ onStorage \in [Requests -> Nat] /\ seqLen \in [Requests -> 0 .. MaxTokens]

\* A slab is on its pool's free stack, once, exactly when no block's data_ptr
\* is it, and no two blocks share one: no leak, no double free, no slab under
\* two blocks, whatever copies and writes failed on the way.
PoolOK(stack, pool, t, tr, pt) ==
  /\ \A i, j \in 1 .. Len(stack) : stack[i] = stack[j] => i = j
  /\ \A b, c \in Blocks : tr[b] = t /\ tr[c] = t /\ pt[b] = pt[c] => b = c
  /\ \A s \in pool : (\E i \in 1 .. Len(stack) : stack[i] = s)
                       <=> ~ \E b \in Blocks : tr[b] = t /\ pt[b] = s
SlabOwnership ==
  inited => /\ PoolOK(gpuFree, GpuPool, "GPU", tier, ptr)
            /\ PoolOK(dramFree, DramPool, "DRAM", tier, ptr)

\* State, tier, data_ptr and address map of a block always tell one story:
\* no failed or interrupted call leaves a block MIGRATING, mapped without
\* data, or on storage without a file to read it back from.
HomeAgrees ==
  \A b \in Blocks :
    /\ state[b] = CASE tier[b] = "NONE" -> "FREE" [] tier[b] = "GPU" -> "HOT"
                    [] tier[b] = "DRAM" -> "WARM" [] tier[b] = "NVM" -> "COLD"
    /\ ptr[b] \in CASE tier[b] = "GPU" -> GpuPool [] tier[b] = "DRAM" -> DramPool
                    [] OTHER -> {NoSlab}
    /\ b \in addrmap <=> tier[b] # "NONE"
    /\ tier[b] # "NONE" => InVector(b)
    /\ tier[b] = "NVM" => ReqOf(b) \in fctx

\* blocks_on_gpu, blocks_on_dram and blocks_on_storage of a context count its
\* blocks there, after partial prefills and half-done two-hop moves too, and
\* seq_len is what layer 0 acknowledged.
On(r, t, tr) == {b \in Blocks : ReqOf(b) = r /\ tr[b] = t}
CountersAgree ==
  \A r \in Requests :
    /\ onGpu[r] = Cardinality(On(r, "GPU", tier))
    /\ onDram[r] = Cardinality(On(r, "DRAM", tier))
    /\ onStorage[r] = Cardinality(On(r, "NVM", tier))
    /\ seqLen[r] = acked[<<r, 0>>]

\* What a reader of b finds: the slab, or the file slot it would be read from.
Readout(b) ==
  CASE tier[b] = "GPU"  -> gpuMem[ptr[b]]
    [] tier[b] = "DRAM" -> dramMem[ptr[b]]
    [] tier[b] = "NVM"  -> file[ReqOf(b)][FileSlot(b)]
    [] OTHER            -> Blank

\* Every token whose prefill or append was acknowledged reads back as it was
\* written, in every head, whichever tiers its block has been through.
Lossless ==
  \A x \in Streams, h \in Heads : \A p \in 0 .. acked[x] - 1 :
    Readout(<<x[1], x[2], h, p \div TokensPerBlock>>)[p % TokensPerBlock]
      = <<x[1], x[2], h, p>>

\* token_count is the "actual tokens stored" of a block that has a home, in a
\* layer whose last prefill or append returned OK.
TokenCountIsStored ==
  \A b \in Blocks : tier[b] # "NONE" /\ StreamOf(b) \notin failed =>
    \A s \in Slots : s < TokenCount(b, ntok[StreamOf(b)]) => Readout(b)[s] # Junk

\* A pinned block leaves the GPU only with its request ("do not evict").
PinnedStays ==
  [][\A b \in pinned : tier[b] = "GPU" => tier'[b] = "GPU" \/ ReqOf(b) \notin live']_vars

\* The abstract store: per head, the sequence of tokens written so far.
Stored ==
  [x \in Streams |-> [h \in Heads |-> [p \in 1 .. acked[x] |->
     Readout(<<x[1], x[2], h, (p - 1) \div TokensPerBlock>>)[(p - 1) % TokensPerBlock]]]]
Store == INSTANCE KVStore WITH kv <- Stored

\* Every call is a step of a store that only ever appends tokens to every
\* head of a layer or drops a request: no move between tiers, succeeding,
\* failing or stopping half way, is visible in what is stored.
StoreSpec == Store!Spec
=============================================================================
