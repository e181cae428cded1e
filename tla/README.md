# OrchKvCache: a verification development

OrchKvCache keeps the KV cache of LLM inference in blocks that move between GPU
memory, pinned host memory and files. This directory holds TLA+ modules that
model the code, TLC configurations that check them on small instances, and
TLAPS proofs of theorems about them for every instance. `PROJECT.json` maps
every definition that models code to the lines it models, and lists the runs,
the hazards, the findings and the theorems.

    tlc -workers 2 -config orchkv.cfg MCOrchKV      # a run
    tlapm OrchKVProof.tla                           # the proofs

## The system

Paths are relative to the repository. C sources are under `src/`, Python under
`python/orchkv/`.

| part | state it keeps | operations | who calls it |
|---|---|---|---|
| API `src/api/orchkv_api.cu` | `g_sys`: pools, transfer engine, address map, storage tier, I/O pool, `inited` | init, shutdown, request create/destroy, prefill, append_token, get_kv_block, evict_to_dram, promote_to_gpu, evict_to_storage, promote_from_storage, evict_cold | an inference engine, on its own thread; no lock spans a call |
| metadata `src/core/kv_block.c`, `kv_request.c`, `kv_types.h` | per block: state, tier, data_ptr, flags, token range; per request: a vector of blocks per (layer, head), seq_len, blocks_on_* | set_state (transition table), set_location, alloc_blocks_for_layer, get_block | API, scheduler |
| slab pools `src/tiered_store/gpu_tier.cu`, `dram_tier.cu` | a free stack under a mutex | alloc, free | API |
| transfer engine `src/tiered_store/transfer.cu` | CUDA streams, round robin | submit, sync_stream, sync_all | API |
| storage tier `src/tiered_store/orchfs_tier.c` | one file per request, fixed offsets | file_open, file_close (unlinks), write, read | API, I/O pool |
| I/O pool `src/tiered_store/io_worker.c` | bounded ring, counters, one mutex, three condition variables | init, submit, flush, destroy; worker threads | any thread |
| address map `src/core/address_map.c` | open-addressing table of block ids, tombstones, rwlock | insert, lookup, remove, resize | API |
| scheduler `src/scheduler/` | C1 tracker, C2 classifier, C3 thresholds, C4 LRU/eviction, C5 prefetch heap, C6 pipeline, C7 migration engine, C8 tiered manager with a background thread | register, unregister, notify, schedule_once, start, stop | inference engine threads and the scheduler thread |
| block-wise managers `kvcache_manager.py` | per layer a list of blocks, each with a GPU tensor, a DRAM tensor, a file path and an access count | ingest_step, append_token, build_past_kv, report_attention, schedule (evict, spill, promote) | the decoding loop, after each forward pass |
| buffered managers `fast_kvcache_manager.py`, `fast_fifo_manager.py` | per layer one GPU buffer, a list of evicted ranges, a DRAM store; a FIFO queue | ingest_step, append_token (grows), build_past_kv (restores), schedule (evicts) | the decoding loop |
| connector `vllm_integration/connector.py` | scheduler half: finished requests, pending lists; worker half: pinned buffers, two streams, events | save_kv_layer, wait_for_save, start_load_kv, wait_for_layer_load, build_connector_meta, handle_preemptions, request_finished | vLLM, around every layer of a pass and between passes |
| scoring and patch `vllm_integration/block_level_swap.py`, `engine_patch.py` | vLLM's `scheduler.py` and two backups; block scores | apply_scheduler_patch, create_scorer, select_victim, install_block_scoring | start scripts; vLLM's scheduler, through the text inserted into it |
| hooks `vllm_integration/attention_hook.py` | wrapped forwards, step number, sampling interval | install, uninstall, hooked forward, on_step_done | vLLM's model runner; settings from any thread |
| binding `bindings/orchkv_pybind.cpp` | handle tables | one wrapper per C function | Python |

How the parts interact: the API calls pools, transfers and files synchronously;
the I/O pool is created and flushed by the API, which submits nothing to it
itself; the tiered manager moves blocks through callbacks its owner supplies
(allocate, free, transfer) and is not called by the API. The Python managers keep
tensors of their own and do not use the store of the API: they tell the C tiered
manager (`tm_register_block_id`, `tm_set_block_tier`, `tm_notify_attn`) where
blocks are and how they are attended to. The connector, the patch and the hooks
are independent of each other; the engine loads the patched text when it
starts, and the scorer in it works on the scheduler's own block tables.

What is hard here:

* calls that do several fallible things in turn (prefill over all heads, a move
  in two hops) and stop half way, with slabs, counters, state and address map
  each updated by its own statement;
* bytes that must survive any sequence of moves, through slabs that are reused
  and file offsets computed from block positions;
* threads around condition variables, a full ring, and a shutdown (I/O pool);
* a hash table whose probe loops end only if an invariant over a long history
  of inserts and removals holds;
* victims chosen under one lock and moved without it, while other threads
  register, unregister and migrate (scheduler);
* copies of a block in several tiers at once, of which all but one are stale, and
  calls that raise half way through layers and blocks (Python managers);
* three CUDA streams that nothing orders but the waits of the host, under a
  protocol of calls that vLLM makes (connector);
* a file of another package rewritten in place, by processes that may overlap or
  die in between, and the scheduler that file then runs (patch and scoring);
* settings changed by another thread during a forward pass (hooks).

What makes each part correct: a slab belongs to one block or to the free stack;
state, tier, pointer, map and counters agree whenever no call is in progress; a
token acknowledged is a token that reads back, wherever its block is; a pinned
block stays; each task is performed exactly once, a flush is a barrier, all
calls return; the table is a set; a block is migrated by one thread at a time, a
buffer belongs to at most one block or thread, an unregistered block is forgotten;
the cache a manager rebuilds is the tokens the model produced, in order, whatever
moved or failed; sinks stay and the coldest go; what wait_for_save reported is in
host memory and no older save is, and no kernel reads ahead of its load; the original scheduler.py is
never lost, the victim is the coldest request and every request finishes; a module
reports once per step and, if it gives weights, in every interval.

## The modules

| module | models | kind |
|---|---|---|
| `OrchKV` | the API with metadata, pools, transfers and files | component, composed |
| `KVStore` | what the API promises: per head, a growing sequence of tokens | abstract |
| `OrchKVProof` | theorems about `OrchKV`: ownership, metadata, counters, pins; what it stores, and that it implements `KVStore` | proofs |
| `MCOrchKV` | instances of `OrchKV` | model checking |
| `IOWorkerPool`, `MCIOWorkerPool` | the I/O pool, thread by thread | component |
| `IOWorkerPoolProof` | theorems about `IOWorkerPool` | proofs |
| `AddressMap`, `MCAddressMap` | the hash table | component |
| `AddressMapProof` | theorems about `AddressMap` | proofs |
| `BlockIndex` | what the table promises: a set, and the answers to calls | abstract |
| `TieredManager`, `MCTieredManager` | tiered manager, eviction policy and migration engine (C8, C4, C7) | component, composed |
| `TieredManagerProof` | theorems about `TieredManager` | proofs |
| `BlockHomes` | what a migration promises: one step from home to home | abstract |
| `PagedKV`, `MCPagedKV` | KVCacheManager and NaiveOffloadManager | component |
| `PagedKVProof` | theorems about `PagedKV` | proofs |
| `BufferedKV`, `MCBufferedKV` | FastKVCacheManager and FastFIFOManager | component |
| `BufferedKVProof` | theorems about `BufferedKV` | proofs |
| `TokenLog` | what every Python manager promises the decoding loop: a growing sequence of tokens | abstract |
| `Connector`, `MCConnector` | the offloading connector, its two halves and the device's streams | component, composed |
| `ConnectorProof` | theorems about `Connector` | proofs |
| `SchedulerPatch` | apply_scheduler_patch and the files it rewrites | component |
| `VictimChoice` | the scorers, in vLLM's scheduler | component |
| `BlockLevelSwap`, `MCBlockLevelSwap` | patch, engine start, installation and scheduling together | composition of the two |
| `AttentionHooks`, `MCAttentionHooks` | hooks and collector during decode steps | component |
| `VllmIntegrationProof` | theorems about `BlockLevelSwap` and `AttentionHooks` | proofs |

### OrchKV

One action is one API call: a call runs to its end on its caller's thread and
takes no lock that another call could wait for, so the states between calls are
what a caller can see. Inside an action are all the calls the code makes:
`EvictToDram` is `orchkv_evict_to_dram` with `dram_tier_alloc`, the transition
to MIGRATING, the copy, `gpu_tier_free`, `kv_block_set_location`, the final
transition and the counters, and its disjuncts are its exits. Calls that are
refused by a check and change nothing (wrong tier, pinned, pool full) are not
steps.

* `ntok` is the sum of `token_count` over the blocks of one head of a layer. All
  heads of a layer always have the same layout, so it determines the vectors
  (`InVector`) and every `token_count` (`TokenCount`).
* `state`, `tier`, `ptr`, `pinned` are the fields of a block. States go through
  the transition table `Allowed`; a refused transition leaves the state, as
  `kv_block_set_state` does.
* `gpuFree`, `dramFree` are the free stacks, from bottom to top; slabs are
  numbered from 1 where the code numbers them from 0. `Released` gives the stack
  after a request's blocks were freed in the order the code walks them.
* `gpuMem`, `dramMem`, `file` hold one datum per token slot: a token, or `Junk`
  for bytes no token of the block was written to. The stale bytes of a freed or
  fresh slab, and the rows behind a chunk's end, are `Junk`.
* `acked` and `failed` are history: tokens for which prefill or append returned
  `ORCHKV_OK`, and layers whose last such call failed.

Failures are chosen by `Faults`: opening the file, a copy refused at submission
(`upload`, `d2h`, `h2d`), a copy that fails at synchronisation (`sync`), a failed
or torn write, a failed read. The code rolls back on all but `upload` and
`sync`, whose results it drops.

`SystemShutdown` requires that no request is live, the order documented in
`orchkv_api.h`.

### IOWorkerPool

Every stretch of code between taking the mutex and giving it up (in
`pthread_cond_wait` or `unlock`) is one action, and the I/O itself, outside the
mutex, is another. A thread's state says where it is: asleep on one of the
condition variables, about to take the mutex, or outside. `pthread_cond_signal`
wakes any one sleeper, `broadcast` all, and `Spurious` any at any time. `stored`
is what a block's place in storage holds, by the number of the write performed
last; `latest` what a read should find. The storage may refuse a write half way
(`Torn`). With `LateCallers` the pool may be destroyed while callers are inside
it; after `Joined` such a caller touches a destroyed mutex, which the model
resolves to the most harmless outcome.

### AddressMap

Every call holds the rwlock throughout, so it is one action. Probing is
"the first place on the path that holds the id or is empty" (`Found`) instead of
a loop; `ProbesEnd` states what the loop needs in order to end. `Rehashed`
reinserts the ids in bucket order. `Home` stands for the mixed hash.

### TieredManager

Threads run `tm_schedule_once` (demote from the GPU, then from the DRAM) or call
`mig_execute_one` directly; an owner registers, accesses and unregisters blocks.

* The eviction policy works under its mutex, so each of its calls is one action
  (`Touch`, `Without`, `Selections`). `Selections` keeps the window of 4n blocks
  from the tail; scores only order the candidates, and any order is possible.
* The migration engine takes no lock around a block. `Check`, `Mark`, each
  transfer and `Commit` are separate actions; `Commit` stands for the three
  writes of tier, data_ptr and state, `FirstHop` for the transfer and the two
  writes after it. `MoveFails` is the callback's error in either hop, with the
  rollback of the second.
* `tm_register_block` and `tm_unregister_block` change the registry under one
  lock and the list under another: two actions each (`stage`).
* `Alloc` and `Free` are the callbacks around a migration. Buffers of all three
  tiers are tracked. For a demotion to TIER_NVM the manager takes a buffer like for
  any other (`tiered_manager.c:264`); the engine sets data_ptr to NULL after a
  success (`PtrAfter`), so that the block is in `stored` and the buffer is
  nobody's. `Direct` is a caller that follows the same protocol: a buffer for the
  target, which it may leave out for storage, one for the stop between two hops,
  and the free of what is left over.
* The watermarks are inputs: `SkipPhase` may find a tier below its own.
* `Exclusive` says that the caller keeps migrations and unregistrations apart, as
  an engine does that has `auto_schedule` off and calls `tm_schedule_once` from
  its own loop. Registrations and accesses come at any time in either case.
* `Discard` is the owner releasing the block's buffer and its stored copy.

`LruListed` speaks of what the list is for: a registered block that lives on the
GPU or in the DRAM and is in no migration must be in it, or it is never demoted
again. `MovesSpec` refines `BlockHomes`: `HomeOf` takes a block that stopped
between two hops to be where it came from.

### PagedKV

One action is one call of a manager; `kind` says of which. The managers are
driven by one thread, and a call that raises leaves what it had done: where an
allocation on the GPU or of pinned memory, a copy to the GPU, or the read or
write of a file may end a call early, an action says with what (`IngestFails`,
`AppendTokenFails`, `BuildFails`, `BuildFailsLoading`, `ScheduleFailsDemoting`,
`ScheduleFailsSaving`, `ScheduleFailsPromoting`), and the caller may go on. A read
that stops half way leaves the block on the SSD with a pinned tensor of its own
(`HalfLoaded`).

* A block record is `KVBlock`. `gpu` and `dram` are its tensors, `saved` that
  `ssd_path` is set, `files` the contents under those paths, `told` the tier the
  C manager was last told. Tokens are their positions, so a stale or shifted
  copy shows.
* `Demoted`, `Loaded`, `Promoted`, `Saved` are the four movements of one block.
  They leave the lower copies in place, as the code does.
* `Schedule` is evict, spill, promote in that order, each on what the one before
  left; the pressure is measured once, before. `Firsts` under `Colder` and
  `Warmer` are the first so many of a stable sort.
* `NewBlock` tells the C manager that a sink lies in DRAM: the binding takes
  `(tm, block_id, tier, flags)` and Python passes `(bid, flags, tier)`.
* `Forward` is the loop around the manager (`run_decode` of the experiment
  drivers), which runs the model on the rebuilt cache.
* `KeepsLog` refines `TokenLog`: `Built` is what `build_past_kv` would return for
  a layer now.

### BufferedKV

The whole cache stays in one buffer per layer; an eviction copies a block out,
lists its range and leaves the cells. `evicted` is a bag because nothing in the
code keeps a range from being listed twice. A cell holds the number of the
conversation whose token it got, which tells a copy of an older conversation
from a token of this one. `Going` leaves the order of the candidates to the
scores of the C manager, any order; the FIFO manager pops its queue. `Restart`
is a new prompt on the same manager, which `ingest_step` of the scored manager
allows and the FIFO manager, whose `ingest_step` requires an unused one, is not
given here.

### Connector

Scheduler half, worker half and device. vLLM calls the connector in a fixed
order, which `phase` follows: start_load_kv, then per layer
wait_for_layer_load, the kernels and save_kv_layer, then wait_for_save and
clear_connector_metadata; the scheduler half runs between two passes. A stream
is a queue the device works off at any time (`DoKernel`, `DoSave`, `DoLoad`).
`now` and `copy` are what memory would hold if every call took effect at once;
the properties compare them with what the device did.

`save_kv_layer` issues its copies on a stream of their own and orders them after
nothing: the kernels of the layer may write a block before or after it is copied.
`copy` therefore holds two values for a save, what the device has in the block
at the call and what it will have once the kernels launched so far are done.
Only `End` waits for kernels: vLLM reads the tokens a pass sampled before it
schedules the next. With asynchronous scheduling it does not, and that is not
modelled.

The lists of a preemption go under `layer_0`, `layer_1`, ... (`_get_layer_names`),
and `save_kv_layer` looks up the name vLLM calls the layer by. `Listed` says which
layers have such a name, as `layer_0` of `test_connector.py` has; for the others
`SaveList` is empty. `PreemptedAt` is the role of the connector that is told:
`handle_preemptions` (378-380) does nothing without a scheduler half. `wanted` is
what a block held when its offload was asked for. `Loads` comes from the
environment: nothing in the code fills `blocks_to_load`.

### SchedulerPatch, VictimChoice, BlockLevelSwap

`SchedulerPatch` has an action for every file operation: reading, copying the
backup (open, fill), opening the file (which truncates it), writing a part and
the rest. `Crash` may come between any two, and two processes may be inside at
once. Texts are told apart by what the function looks for.

`VictimChoice` is a pass of vLLM's scheduler with the inserted choice: requests
in turn take a block; with none free, the scorer picks the victim among those
behind. `Importance` has the formula's values in thousandths for the table
lengths that occur, `Below` compares means by cross multiplication. The memory
of `FastBlockTracker` is `info` and `scores`. A float mean may differ from the
exact one in its last place, which only decides between requests of equal mean
in the model of version 1, where any may be picked.

`BlockLevelSwap` composes them: `Launch` starts the engine on the text the file
has then; `BeginInstall` and `EndInstall` are `install_block_scoring` on a
running engine, around the same patch actions. `create_scorer` raises for
version 3, and for one it does not know (`Created`).

### AttentionHooks

`install` wraps every module whose dotted name contains `self_attn`, and so the
modules inside an attention module too; each is a module of the model, numbered
in the order of `named_modules`, and `LastIn` says what is inside what. A decode
step comes to the modules in that order and calls an inner one from the forward
of the outer one. A hooked forward is `Call` and, for each wrapper around it,
`Return`, because the code asks `should_sample` before and after the forward. A
forward gives weights or none, at will at every call (`Return`), and without them
nothing is reported; one that does not take the keyword `output_attentions`
(`accepts`) raises on a sampling step, which ends the decode (`Raise`).

Settings may change between any two of those. `wraps` counts the wrappers around a
module's forward; `Uninstall` clears the flag and restores nothing, since
`_get_all_modules` returns an empty list. `missed` counts the steps in a row
without a report, since hooks and settings last changed, of a module that gave
weights whenever it was asked (`withheld` holds the others). `split` says that the
last change fell inside a step: that step may be sampled for the modules before
the change and not for those after it, or the other way round.

## The runs

| run | asks | bounds |
|---|---|---|
| `orchkv` | Do slabs, metadata, counters and pins stay consistent through every sequence of calls and reported failures, and does what is stored change only by prefill, append and destroy (`StoreSpec`)? | 2 requests (3 tokens and 1 token), 1 layer, 2 heads, 2 tokens per block, 2 GPU slabs, 1 DRAM slab |
| `orchkv_append` | Is `token_count` what is stored, when failed calls are repeated? No. | 1 request, 4 tokens, 2 GPU slabs |
| `iopool` | Is every task performed once and in ring order, is a flush a barrier, do callers that flush read what they wrote? | 2 workers, 2 callers, ring of 2, 4 tasks, destroy at any moment |
| `iopool_live` | Do tasks complete, calls and destroy return? | 2 workers, 2 callers, ring of 1, 3 tasks, destroy when no caller is inside |
| `addrmap` | Do probes end, and is the table a set? | 5 ids, capacity 4 growing to 8 |
| `tiered` | Has no buffer two owners, is none of the GPU or the host lost, does the list keep every candidate, is a block readable in every state, does it move from home to home? | 3 blocks, one of them pinned, 2 places in the registry, 1 GPU, 2 DRAM and 2 NVM buffers, batch of 2, one migration at a time |
| `tiered_double` | Does MIGRATING keep two threads off one block? No. | 1 block, 2 threads |
| `paged` | Is the rebuilt cache always the tokens in order, do sinks stay and the coldest go first, does the C manager know where blocks are? | both managers, 2 layers, 3 tokens in blocks of 2, budget of 4 blocks, 1 sink token, 5 identifiers, failing promotions, pinned buffers, writes and reads of files, out-of-memory on the GPU for the naive manager |
| `buffered` | Do ranges, copies and the accounting of usage agree, does an eviction make room, is the rebuilt cache the tokens in order? | both managers, 2 layers, up to 9 tokens in blocks of 2, buffer of 3 growing in steps of 2, budget of 5, 2 conversations, every allocation failing |
| `connector` | Does host memory hold what was saved last once the save was waited for, do kernels read only what was loaded, does the data of every block handed over for offloading reach a buffer? | 2 layers, both with a name of the lists, 2 blocks, 1 request, 3 passes, preemptions told to the scheduler's connector |
| `swap` | Is the original scheduler never lost, the coldest request the victim, and does every request finish? | 2 processes, 2 calls, 4 requests of up to 4 blocks, 8 blocks, every scorer version |
| `hooks` | Does a module report at most once per step, and one that gives weights in every interval? | 3 modules, the second inside the first, whose forward may not take the keyword; 9 steps, intervals 0, 2 and 3, 4 changes of settings |

Extra configurations, which show the disagreements of the next section but one
and are run by hand. Each stops at the property named.

| configuration | module | property | what is different |
|---|---|---|---|
| `orchkv_offset.cfg` | `MCOrchKV` | `Lossless` | `MaxBlocksPerHead = 1`, a head with two blocks |
| `orchkv_prefill.cfg` | `MCOrchKV` | `Lossless` | `Faults = {"upload"}` |
| `orchkv_chunked.cfg` | `MCOrchKV` | `Lossless` | `ChunkedPrefill = TRUE` |
| `iopool_destroy.cfg` | `MCIOWorkerPool` | `CallsReturn` | 1 worker, 3 callers, ring of 1, a destroy under them |
| `tiered_unregister.cfg` | `MCTieredManager` | `Forgotten` | `Exclusive = FALSE` |
| `tiered_leak.cfg` | `MCTieredManager` | `NothingLost` | the bounds only |
| `buffered_fifo.cfg` | `MCBufferedKV` | `FifoMakesRoom` | the FIFO manager |
| `buffered_reuse.cfg` | `MCBufferedKV` | `KeepsLog` | `DirtyRestart = TRUE`: a new prompt while blocks are evicted |
| `connector_stream.cfg` | `MCConnector` | `SavedAfterForward` | the bounds only; with `OffloadIsOwners` as its invariant it stops as well |
| `connector_names.cfg` | `MCConnector` | `PreemptedReachesDram` | `Listed = {}`: vLLM's own layer names; with `Listed = {1, 2}` and `PreemptedAt = "worker"` it stops as well |
| `swap_upgrade.cfg` | `MCBlockLevelSwap` | `OriginalKept` | a file patched by the release before |
| `swap_install.cfg` | `MCBlockLevelSwap` | `InstalledScores` | scorers installed on a running engine |
| `hooks_raise.cfg` | `MCAttentionHooks` | `NeverRaises` | the bounds only |
| `hooks_reinstall.cfg` | `MCAttentionHooks` | `OncePerStep` | `Reinstalls = TRUE` |

Why the bounds are enough. In `orchkv` a request needs four GPU slabs at full
length and there are two, so prefill and append stop between heads and between
blocks; the second request competes for the same slabs; the single DRAM slab
makes the two-hop calls meet a full pool; two blocks per head and two heads make
the offsets of the file matter. A second layer multiplies the states without a
new case: layers share only what heads share. In `iopool` four tasks fill the
ring while both workers hold one, which is the first moment a submitter must
wait behind both. In `addrmap` three ids collide at the end of the small
table and wrap around it, the homes of the five reach every bucket so that
tombstones could fill it, and the rehash changes which ids collide. The code's smallest capacity is 16; the load
factor and the probing are the same for 4, and the proportion three in four is
exact for both. In `tiered` three blocks for two
places make `tm_register_block` refuse one; a batch may hold two DRAM victims;
three buffers of the GPU and the host for two blocks leave too few for some moves
over two hops, so that allocations fail by themselves as well as at will; two
for storage let one be lost and another be taken. In `paged` three tokens make
two blocks per layer, the second of which fills up after it was demoted; four
blocks on a budget of four are over the 85 % mark, two are below the 60 % at
which blocks are promoted, and a spill needs two blocks in DRAM, so that files are
written, read back and read in part. In `buffered`
nine tokens grow the buffer several times and make five blocks per layer, so
that an eviction is stopped by its cap, by the pressure and by the lack of
candidates. In `connector` two layers let a later layer's load be under way when
an earlier layer computes, and three passes let a buffer be freed, allocated
anew and saved again, before or after the kernel that rewrites its block. In `swap` four requests of four blocks compete for eight,
so that victims come back and are victims again, and their block ids pass to
other requests between two choices. In `hooks` nine steps are three intervals of
three, and four changes of settings reach every combination twice; three modules
have one inside another, one outside it and one after both, and a change can fall
between any two of them.

`MaxTokens`, `TokenLimit`, `MaxTasks`, `MaxCap`, `MaxAccess`, `MaxIds`, `MaxConv`,
`MaxQueue`, `MaxSteps`, `MaxOffload`, `Finishes`, `MaxCalls` and `MaxSets` are bounds of
the model, not of the code. An insert that would grow the table beyond `MaxCap` is the code's
out-of-memory case.

Fairness. `OrchKV`, `AddressMap` and `TieredManager` are driven by their callers and state none.
`IOWorkerPool!FairSpec` assumes weak fairness of every worker and of every
caller that is inside the pool, and of the joining thread: a thread that is not
asleep is scheduled and, the mutex being held for short stretches only, gets it
in the end. No caller is assumed to call, and no spurious wakeup to come. A
flush waits for `completed` to reach `submitted`, which submissions by others
push ahead; `MaxTasks` ends them, so `CallsReturn` does not cover a flush under
an endless stream of submissions.
`Connector!FairSpec` assumes that vLLM goes on with a pass it began and begins
another while the bound allows, and that the device goes on with every stream
that has work; it assumes nothing of the scheduler half, of preemptions or of
`FreeBlock`. `BlockLevelSwap!FairSpec` assumes that a running engine goes on
scheduling; no request is assumed to arrive, no process to patch or install.
The other modules are driven by their callers and state none.

`FlushBetween` is the discipline `ReadsLatest` rests on: with `FALSE`, a caller
that submits a read after a write of the same block without a flush may read old
data, as two workers perform the tasks in either order. The repository does not
promise otherwise; its two tests flush.

## What the runs found

In the C code:

1. A failed `orchkv_append_token` leaves its token counted (`orchkv_append`).
   The metadata of all heads grows at line 271, before the slab is allocated
   (282) and the tier checked (287); neither error path shrinks it. After a
   retry the sequence has a hole.
2. `mig_execute_one` checks and sets MIGRATING without a lock (`tiered_double`):
   two threads migrate one block, each frees what it takes for the old buffer.
3. `orchfs_compute_offset` does not check the block index (`orchkv_offset.cfg`).
   The block that follows the last one provided for overwrites the next head's
   first block; `orchfs_tier.h:18` says blocks of a head are contiguous, the
   repository's README that the round trip is lossless.
4. A refused upload is skipped and acknowledged (`orchkv_prefill.cfg`), in prefill
   at 239 and 248 and in append at 301 and 309.
5. A second prefill of a layer is acknowledged without being stored
   (`orchkv_chunked.cfg`): it fills FREE blocks only and takes sequence positions
   for rows of the chunk.
6. `io_worker_destroy` wakes the workers and not the submitters
   (`iopool_destroy.cfg`). Workers drain the ring and signal `not_full` once per
   task; with more submitters asleep than tasks, one sleeps for ever, although
   `io_worker_submit` has a path that returns `ORCHKV_ERR_INIT` for it.
7. `tm_unregister_block` does not wait for a migration of the block, and the
   migration's `evpol_lru_touch` lists the block anew (`tiered_unregister.cfg`).
8. Every demotion to TIER_NVM that succeeds leaks a buffer (`tiered_leak.cfg`).
   `do_dram_demote` takes one from `alloc_fn` and demands that it is not NULL
   (`tiered_manager.c:264-268`), `mig_execute_one` sets data_ptr to NULL
   (`migration_engine.c:182-183`), and after a success only the old buffer is
   freed (274-275).

In the Python code:

9. The FIFO manager stops evicting (`buffered_fifo.cfg`). A block it pops and
   evicts comes back to the GPU with the next `build_past_kv` and never to the
   queue; sinks are popped and dropped. When the queue is empty no pressure is
   relieved, although `fast_fifo_manager.py:5-6` says that it differs from the
   scored manager in the order of eviction only.
10. `ingest_step` of the scored manager on a new prompt forgets no evicted range
   (`buffered_reuse.cfg`): the next rebuild copies the old conversation's blocks
   over the new one's (`fast_kvcache_manager.py:141-156`, `204-215`).
11. What the connector saves after a preemption may be another request's data
    (`connector_stream.cfg` with `OffloadIsOwners`): the blocks are read in a later pass, when vLLM may
    have given them away (`connector.py:277-284`, "Mark preempted request blocks
    for offloading"). The lists hold the blocks of finished requests only, since
    `request_finished` alone fills `_cached_requests`.
12. The save stream is not ordered after the compute stream
    (`connector_stream.cfg`): `wait_for_save` may return with what a block held before
    the kernels of its layer in DRAM (`connector.py:155-172`), although
    `save_kv_layer` stands "after each layer's attention forward" (13).
13. A preempted request's blocks reach the host only in layers called `layer_0`,
    `layer_1`, ... (`connector_names.cfg`): the lists go under the names of
    `_get_layer_names` (`connector.py:282-288`) and are looked up by vLLM's name of
    the layer (151), of which vLLM's models have none. A save that finds no list is
    silent.
14. `handle_preemptions` stands among the worker's methods (378-380) and does
    nothing without a scheduler half, which a connector in the worker's role does not
    have (`connector_names.cfg` with `PreemptedAt = "worker"`).
15. The upgrade from the release before loses the original `scheduler.py`
    (`swap_upgrade.cfg`): the text restored from the backup is patched, then the
    file, still in its old patched form, is copied over that backup before the
    new text is written (`block_level_swap.py:546-558`, `628-631`).
16. A scorer installed on a running engine is not consulted
    (`swap_install.cfg`): the patch changes a file the engine has already read
    (`block_level_swap.py:640-669`, "Safe to call after engine creation"), and
    version 3, the one `install_partial_swap` asks for, raises in `create_scorer`.
17. `AttentionHookManager.uninstall` restores nothing (`hooks_reinstall.cfg`), since
    it walks an empty list of modules, although its docstring says "Remove all
    hooks and restore original forward methods" (`attention_hook.py:333`); hooks
    installed again wrap the old ones and report every module twice.
18. The hooks may stop the model (`hooks_raise.cfg`): `_is_attention_module` matches
    every module inside a `self_attn` (`attention_hook.py:269-277`), a projection or
    a rotary embedding as well, and the wrapper passes `output_attentions = True` to
    its forward (285-289), which need not take it; `install` calls itself "Compatible
    with vLLM's model structure" (251-252). Each of them counts in `layer_idx`
    (259-263), which `collect` documents as the layer's index (94).

Seen while modelling, without a run: KVCacheManager lists a block before it
allocates its tensor (`kvcache_manager.py:222-228`), so that after an
out-of-memory error the cache cannot be rebuilt (`AllocMayFail = {"scored"}` in
`paged.cfg` breaks `KeepsLog`); it passes flags and tier to
`tm_register_block_id` in the wrong order, and 1 for a sink, which is
`KV_FLAG_PIN` (`kvcache_manager.py:160`); `get_num_new_matched_tokens` of the
connector promises tokens nothing loads (236). The data_ptr `get_kv_block` hands out goes
stale with the next eviction; two contexts with one request_id share a file; a
flush waits also for tasks submitted after it began.

## What is proved

`OrchKVProof` proves, for any finite set of requests and any number of layers,
heads, slabs and tokens, any `MaxBlocksPerHead`, any set of faults, with or
without retries and chunked prefills (`ConstantsOK`), that `TypeOK`,
`SlabOwnership`, `HomeAgrees` and `CountersAgree` hold in every reachable state
and that `PinnedStays` holds of every step.

The inductive invariant `IInv` is their conjunction with `IdleIsEmpty`: while the
system is not initialised no request is live. None of the parts is inductive
alone. That a block that is filled gets a slab nobody has needs `HomeAgrees` (a
FREE block has no slab, a HOT one has a GPU slab); that `Push` never pushes a
slab twice needs `SlabOwnership` and `HomeAgrees`; that a counter is decremented
above zero only needs it to be the cardinality of a set with the moved block in
it; `SystemInit` builds fresh pools, which is sound because no block is left.

The proof has one lemma per action. Moves between tiers go through
`MoveKeepsInv` (metadata) and `PoolsAfterMove` (pools), fills through
`FillKeepsInv`, and `RequestDestroy` through `DestroyKeepsPool`.
The lemmas they rest on come first in the module: blocks of a walk are ranked bijectively
(`RankIsBijection`, `NthIsBijection`), popping and pushing keep a pool
partitioned (`PopKeepsPool`, `PushKeepsPool`, `AcquireKeepsPool`,
`ReleaseKeepsPool`), and a move changes cardinalities by one
(`MoveChangesCounts`, `JoinChangesCounts`).

The second part of `OrchKVProof` proves that `OrchKV` keeps what it acknowledged: `Lossless`
(`NothingLost`), that it implements `KVStore` (`StoreRefined`), and that token counts
are the tokens stored (`TokenCountHolds`). These are false without conditions, which
`Careful` states and which are those of `orchkv.cfg`: no retry of a call that failed,
a prefill only of an empty layer, no vector beyond its part of the file, and no
fault of a copy whose result the API drops (an upload, a synchronisation). Each is
needed; TLC refutes `Lossless` without it (`orchkv_append.cfg`, `orchkv_chunked.cfg`,
`orchkv_offset.cfg`, `orchkv_prefill.cfg`, and with `"sync"` among the faults). All
other faults may happen anywhere. The invariant adds to `IInv` that metadata and
acknowledgements part only on streams where a call failed (`Steady`), and that every
acknowledged token has a home and reads back as it was written (`Kept`). That a
fill or a move does not spoil another block's tokens is `SlabOwnership` and, for
files, that two places of a head never share an offset. For the refinement a move
between tiers is hidden because `Kept` holds before and after it.

`AddressMapProof` proves, for any capacity, any hash function and any number of
keys, `TypeOK`, `ProbesEnd` and that the table implements `BlockIndex` (`IsAnIndex`).
The invariant says that no key is in two slots and that the walk from a key's hash
to the key meets no empty slot (`Table`), that the counters count, and that a slot is
empty. Removal keeps the walks by leaving a tombstone; an insertion that reuses one
first probes to an empty slot, which is why no key is entered twice. `Rehashed` is a
recursive function, and a walk is as long as the table: the induction both need is
replaced by the least natural number at which a fact fails (`LeastNatural`, which
follows from the library's `WFMin`), with which the function's own equation is
contradicted.

`ConnectorProof` proves `TypeOK`, `SavedIsStored` and `KernelsReadCurrent` for any
number of layers, blocks and requests, any names of layers, any caller that keeps
vLLM's order of calls, and any order in which the three streams run. `BaseInv`
bounds what may be under way by the phase: saves only of layers this pass has
saved, loads only of layers it has not waited for, one per key, from buffers that no save writes; and a
load that comes after an event is of a later layer. That no two keys share a
buffer needs a free one to exist, which is counted: the table and each stream use
at most one per key (`EnoughFree`), and `FreeBuf` takes different ones for different
keys of one save because their ranks differ. `DataInv` says that what is in memory
is what the host's calls put there, or the operation that brings it is still in a
stream: a kernel (`KernelsOK`, `Computed`) or a load (`LoadsCurrent`) for the cache, a
save (`StoredOK`) for a buffer. `SavesCurrent` says of a save under way that `copy` allows what its
block holds and what it is to hold: the kernels launched before the save may
still run before it, and no later kernel or load writes the block, since those
of the next layers write other keys and the next pass begins after
`wait_for_save`. The loads of all layers are a flattened list of lists: `FlattenPrefixes` shows that the recursion
in `FlattenSeq` has one solution, so that the loads up to a layer are a prefix.

`VllmIntegrationProof` first proves the three safety properties of `BlockLevelSwap`,
for any numbers of processes, calls, requests and blocks, any files at first and
any versions asked for; a request has at most five tokens, as many as the table
of scores has (`Dip`). `SwapInv` is the patch's invariant and the scheduler's side by
side: `Launch` and `EndInstall` touch both, but only what has no tie to the rest
(`result`, `loaded`, `scorer`).

`OriginalKept` needs one first state left out (`Harmless`): the old release's file
next to a backup of vLLM's own, where `swap_upgrade.cfg` shows the text lost. The
property is not inductive: that `Open` empties the file is harmless only because the
same call has filled the backup, from a file that was still vLLM's. `WhereIs`
says where a call that is alone has the text at each of its places, `Alone` that
there is no other, and `Endangered` that the state left out does not come back,
although a crash may leave any mixture of file and backup. `PInv` makes all of it
depend on `Harmless` and on no two calls having overlapped, and adds the types
and that only the complete text is ever written (`ToWrite`), which hold without.

`TypeOK` rests on `VInv`: the queues are sequences without duplicates that share no
request (`Queues`); the position of a block is what tables of different requests
or different places of one never share (`Own`); and a request that waits or is to
be served lacks tokens (`Lengths`), without which `Serve` would pass the last one.
`NthIs` shows that taking the first, second, ... of a finite set of numbers lists it,
which makes blocks given at admission distinct and the queue of the next pass
one without duplicates. `ColdestIsVictim` compares the scores that were used with
those the victims deserve: `Follow` says that scores always follow from what is
remembered, `RegistryIs` that what is remembered at a choice is each block's owner,
place and number as the tables have them (because tables share no block),
and `FirstLeastIs` that there is a first of the least among the means, which
are compared in sixtieths (`BelowIs`).

Of `AttentionHooks` it proves `OncePerStep` (`ReportedOnce`) for any number of modules
and steps, any nesting, any set of intervals and any change of settings at any
moment, as long as hooks are not installed again after an uninstall. The property
is not inductive: a second report is excluded only because each module has one
wrapper, if any (`WrappedOnce`), and because the modules come in turn, so that
those ahead and those that run have reported nothing (`InTurn`). `IInv` is their
conjunction with the types; one lemma per kind of step preserves it. The
assumption is needed: `hooks_reinstall.cfg` shows the second report.
`NeverStarved` proves `SampledInTime` for every configuration, with or without
reinstallation and whichever forwards give no weights. In a step in which hooks
and settings stay, a module that has been called on a sampling step was asked
(`AskedFor`), and has reported once its forward returned, unless it withheld its
weights (`Reported`). So it has missed no more steps than have passed since the last
one to be sampled (`MissedFew`), and one more if a change fell inside a step
(`Allowed`): what that step left out is not known (`Unsettled`). A decode that a
forward ended makes no further step (`Stopped`).
`BlockIdsDistinct` shows that the identifiers blocks are reported under in one
step are distinct, for all numbers of layers, heads and blocks; it rests on two
lemmas about `(i, j) |-> i * m + j`.

`PagedKVProof` proves `SinksStay` and `TierMirrored` for any numbers of layers,
tokens and sinks, any block size, budget and batch sizes, with or without an
ssd_dir and whatever fails; and `ColdGoFirst` as long as `KVCacheManager` gets the
GPU memory it asks for (`"scored" \notin AllocMayFail`, the value of `paged.cfg`): a
block whose tensor was refused is listed on the GPU without data, no candidate,
and stays while warmer ones go. The invariant speaks of one block at a time. A
block is `Fine` if it is flagged as a sink when it holds sink tokens, on the GPU
when so flagged, where the C manager was told it is, and not without data on the
GPU; the flag is what the eviction and the spill look at, and `start` what
`SinksStay` is about, so neither property is inductive. There is one lemma per
movement of a block (`DemotedFine`, ...), one per way to make a row or a table
(`RowConcat`, `TableIntro`, ...) and one per action. `ColdGoFirst` rests on
`ColdestFirst` (a block no warmer than one of the first k in a finite linear
order is among the first k) and on the pressure measured once:
the step that evicts does not promote (`WarmOrVictims`), and no other action
takes a block off the GPU (`Stays`).

It also proves `TypeOK`, and `KeepsLog` under the same condition on allocations:
both managers implement `TokenLog`. The invariant, `DInv`, says what a block's
copies are worth: a block is `Sound` if the copy in the tier that counts (for the
SSD, the file under its identifier) holds its tokens, and nothing is said of the
copies below, which is why no path may read them. A `Row` of sound blocks, each
beginning where the one before it ends, is built to the numbers `1 .. n` (`BuiltRow`);
positions are sums of counts, which the model takes as cardinalities of sets of
pairs (`PairsStep`), and the least counterexample (`LeastNatural`) stands in for
induction along a row. The identifiers of a table are distinct and below `nextId`
(`Apart`): that is what makes the file a block writes its own (`WrittenIs`), and
what layers that add blocks in turn, or only some of them before an exception,
must keep (`IdRanges`, `CutTable`). A call either moves blocks (`RearrangedTable`) or
lets rows grow (`GrownTable`). A refused tensor leaves a `Hollow` block in
`KVCacheManager`, which the type theorem allows; a call that meets one raises
(`Unwritable`, `Phantoms`). An eviction that finds no pinned memory has moved the
first so many of the victims, and those it leaves are the warmer (`StoppedCold`).

`BufferedKVProof` proves the four properties of the run `buffered`, for any sizes,
budget and failures. `TypeOK` and `ScoredMakesRoom` need no condition. `Accounts`
needs the FIFO manager to take in one prompt, since its queue would name blocks
twice otherwise; `KeepsLog` needs a new prompt to come when nothing is listed as
evicted, and `buffered_reuse.cfg` shows it fail without. The invariant `DInv` does
not say which cells a copy came from: it says that the cells that count and all
copies hold tokens of this conversation (`Buffer`, `AllCopies`), so that copying
back in any order and any part of it is harmless (`RestoredIs`), and growth that
stops at some layer too (`GrownIs`). `AInv` adds that the lists are as `Accounts`
wants them and that the FIFO queue is increasing (`QueueOnce`): a call looks up the
listed blocks once, so nothing else keeps it from evicting a block twice.
`ScoredMakesRoom` is arithmetic about `OnGpu` once the listed ranges are counted:
`RoomMade` shows that evicting the blocks `V` lists `NLayers` times `V` more.

`IOWorkerPoolProof` proves `TypeOK`, `ExactlyOnce` and `FlushIsBarrier` for any finite
sets of workers and callers, any ring, with spurious wakeups and with or
without callers inside a pool that is destroyed; and `ReadsLatest` as long as
callers flush between two tasks on a place (`FlushBetween`), without which the
workers may overtake each other. In the invariant the number a task got at
its submission ties the ring (`RingOK`), the workers' hands (`HandsOK`) and the
history of what was performed (`RunsOK`) to `submitted - count`, and `CountOK` ties
`completed` to the workers that hold a task: `FlushIsBarrier` follows, since
`completed = submitted` leaves no room for a task in the ring or in a hand.
`LifeOK` says what each stage of the pool's life excludes (a worker that has left
saw an empty ring after `shutdown`, so no task comes after it); `RoomOK` that
the bound on tasks is never passed by callers already inside. For `ReadsLatest`,
`WantOK` and `DataOK` say that a place has at most one task that is not performed,
and holds what its caller wrote last unless that task is a write.

`TieredManagerProof` proves `TypeOK`, `BufferOwnership`, `LruListed` and `Readable`,
and that `TieredManager` implements `BlockHomes` (`MovesSpec`), for any numbers of
blocks, buffers and threads, any registry size and batch, any pinned blocks and
failures anywhere: as long as migrations and unregistrations exclude each other
(`Exclusive`). Without that, `OneMover` and `Forgotten` already fail in the runs
`tiered_double.cfg` and `tiered_unregister.cfg`. `ExclusionOK` turns the assumption
into what the steps need: one thread is active, and no block is half
unregistered meanwhile. `JobsOK` says, at each point of `mig_execute_one`, what its
locals and the block say of each other: before the transfer the block is where
it was, between two hops it is in the intermediate buffer with its data still at
home, at the commit the data is also in the target. `Owned` counts a buffer as
free, a data_ptr or in the thread's hands, in a form each step preserves without
cardinalities: at most once, and exactly once but for buffers of TIER_NVM, whose
last owner the commit takes away; `BufferOwnership` follows from it. `ListOK` is `LruListed` with the
one block that may be missing while it is migrated, `VictimsOK` says that victims
are still registered when their turn comes, `BlocksOK` is `Readable` with what
unregistered blocks hold. For the refinement `HomesOK` fixes the `CHOOSE` in
`HomeOf`: a block has the home `from` while its job is between hops, and its tier
otherwise. There is one lemma per action.

Only model-checked: the five liveness properties (`TasksComplete`, `CallsReturn`,
`DestroyReturns`, `OffloadReachesDram`, `AllFinish`), which are out of the prover's
reach. Every other property that a passing run checks is a theorem.

## Not modelled, and why

* Of the scheduler: C1, C2, C3, C5, C6, the statistics, `do_prefetch` and the
  start and stop of the background thread. The blocks `do_prefetch` dispatches
  are put into a local array and no migration is started for them; scores and
  thresholds are floating point, and only their order matters to the code
  around them, where any order is allowed.
* The OrchFS variant of the storage tier: same structure, over a library that is
  not part of the repository.
* CUDA streams inside the C API: each copy is synchronised before the call goes
  on.
* Out-of-memory in metadata allocation, and the failures of `malloc` and
  `pthread_create` in initialisation.
* `HybridScorer`: `create_scorer`, which alone constructs it, passes it an
  argument it does not take. `BlockHotnessTracker`'s averages: nothing reports
  attention to the tracker that version 1 creates. `register_orchkv_backend`: it
  registers a class with vLLM and keeps no state.
* What the numbers are: the reduction of attention weights to block scores, key
  norms (`report_qk_norm`), sizes in bytes, statistics, and the mode of the Python
  managers in which orchkv_core is not installed.
* `paper/` and `experiments/`. Most of their files draw figures from result files
  or from numbers in the script. The others time disks, links and models in a
  loop of one function and print a table: no state outlives the loop, nothing is
  shared, and what could be wrong in them is a number. The loop of the decoding
  drivers is in the model as the environment of the managers (`Forward`).
  `run_hyperparam_sensitivity.py` imitates C1 to C3 in floating point with
  formulas of its own, for one figure. These files are most of the repository's
  Python lines, so a share of lines says little about how much of the system is
  modelled.
* Tests and benchmarks.

## The plan

1. `TieredManager`: start and stop of the background thread, and a liveness
   question (is a tier above its watermark relieved while victims remain beyond
   the window of 4n?).
2. `Prefetch` (C5, C6): heap, dispatch, tracking set, hit and step reset against
   the budget.
3. Thresholds (C3) over scaled integers: order of the thresholds, hysteresis.
4. Proofs: `ColdestIsVictim` for requests of any length, which needs means over
   sums of any number of scores, by induction on the data.
