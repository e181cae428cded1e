----------------------------- MODULE Connector -----------------------------
(***************************************************************************)
(* The offloading connector of python/orchkv/vllm_integration/connector.py: *)
(* its scheduler half, which names the blocks to move in the metadata of a  *)
(* step, and its worker half, which moves them on two CUDA streams while    *)
(* the model computes on a third.  vLLM around it is external: it runs a    *)
(* forward pass layer by layer and calls the connector in a fixed order.    *)
(*                                                                         *)
(* A stream is a queue of operations the device performs in order, at any   *)
(* time after they were issued; nothing orders the streams but the waits of *)
(* the host.  A block of the GPU cache holds the number of the step that    *)
(* wrote it last.                                                          *)
(***************************************************************************)
EXTENDS Naturals, Sequences, FiniteSets, SequencesExt

CONSTANTS
  NLayers, Blocks, Reqs,
  Listed,            \* the layers vLLM gives a name of _get_layer_names, layer_0,
                     \* layer_1, ... up to the n_layers of the configuration
  PreemptedAt,       \* role of the connector told of preemptions
  Loads,             \* sets of blocks the caller may ask a step to load; the
                     \* scheduler half itself never asks for any
  Finishes,          \* BOUND: the blocks a request may finish with
  MaxSteps,          \* BOUND: forward passes
  MaxOffload         \* BOUND: blocks waiting to be named in a step's metadata

Layers == 1 .. NLayers
Keys   == Layers \X Blocks
Values == 0 .. MaxSteps
Bufs   == 1 .. 3 * NLayers * Cardinality(Blocks)   \* enough that one is free
NoBuf  == 0
NotCached == {NoBuf}

ASSUME ConnectorConstantsOK ==
  /\ NLayers \in Nat \ {0} /\ MaxSteps \in Nat /\ MaxOffload \in Nat
  /\ IsFiniteSet(Blocks) /\ NoBuf \notin Blocks
  /\ Listed \subseteq Layers /\ PreemptedAt \in {"scheduler", "worker"}
  /\ Loads \cup Finishes \subseteq SUBSET Blocks

VARIABLES
  \* the scheduler half
  cached,      \* _cached_requests: request -> its blocks when it finished
  offload,     \* _pending_offload: the list of every layer (they are equal)
  \* between the halves
  meta,        \* the step's metadata: blocks to save and to load, in all layers;
               \* and (vLLM's) slot, the block its tokens go to
  \* the worker half
  phase,       \* the last call made and its layer: <<"idle", 0>> between passes,
               \* <<"down", 0>> after shutdown
  step,        \* forward passes begun
  dram,        \* _dram_buffers: key -> pinned buffer, NoBuf if none
  events,      \* _load_events: layer -> loads issued when it was recorded, 0
               \* if there is none
  loadsDone,   \* loads the device has performed
  loadsIssued,
  \* the device
  compute, saves, loads,    \* the streams
  gpu,         \* key -> what the block holds
  heap,        \* pinned buffer -> what it holds
  \* HISTORY, for the properties
  now,         \* key -> what the block holds in the order of the host's calls
  copy,        \* key -> what its last save may store: what the block held when
               \* the save was issued, on the device and in that order
  wanted       \* key -> what it held when its request's offload was last asked
               \* for, {} if it was not, or its buffer was given back since

schedVars  == <<cached, offload>>
deviceVars == <<gpu, heap, compute, saves, loads, loadsDone>>
vars == <<cached, offload, meta, phase, step, dram, events, loadsDone, loadsIssued,
          compute, saves, loads, gpu, heap, now, copy, wanted>>

NoSlot == 0
NoMeta == [save |-> << >>, load |-> {}, slot |-> NoSlot]

-----------------------------------------------------------------------------
(* The scheduler half.  (Definitions marked MUTANT are faulty variants of   *)
(* the one that follows; nothing uses them.)                               *)

\* vLLM runs its scheduler between the forward passes.
Between == phase = <<"idle", 0>>

\* request_finished: the blocks are recorded, and vLLM is told (False) that it
\* may free them at once.
RequestFinished(r, bs) ==
  /\ Between /\ cached' = [cached EXCEPT ![r] = bs]
  /\ UNCHANGED <<offload, meta, phase, step, dram, events, loadsIssued, deviceVars,
                 now, copy, wanted>>

\* handle_preemptions: the recorded blocks, if any, are listed for every name
\* of _get_layer_names; a connector without a scheduler half does nothing.
HandlePreemption(r) ==
  /\ Between /\ cached[r] \notin {NotCached, {}}
  /\ Len(offload) + Cardinality(cached[r]) <= MaxOffload
  /\ offload' = IF PreemptedAt = "scheduler" THEN offload \o SetToSeq(cached[r]) ELSE offload
  /\ wanted' = [k \in Keys |-> IF k[2] \in cached[r] THEN {now[k]} ELSE wanted[k]]
  /\ UNCHANGED <<cached, meta, phase, step, dram, events, loadsIssued, deviceVars,
                 now, copy>>

\* get_num_new_matched_tokens: the number of blocks, less the tokens computed.
Matched(r, computed) ==
  IF cached[r] = NotCached \/ Cardinality(cached[r]) < computed THEN 0
  ELSE Cardinality(cached[r]) - computed

TakenAlias == << >>  \* MUTANT: the metadata shares the lists, then cleared
Taken      == offload

\* build_connector_meta and the start of the step in the worker, whose
\* metadata it binds: the pending lists are copied, then cleared.  The loads
\* are the caller's.
Begin ==
  /\ phase = <<"idle", 0>> /\ step < MaxSteps
  /\ step' = step + 1 /\ phase' = <<"begun", 0>>
  /\ \E L \in Loads, b \in Blocks : meta' = [save |-> Taken, load |-> L, slot |-> b]
  /\ offload' = << >>
  /\ UNCHANGED <<cached, dram, events, loadsIssued, deviceVars, now, copy, wanted>>

-----------------------------------------------------------------------------
(* The worker half, in the order of a forward pass.                        *)

\* start_load_kv: blocks without a buffer are passed over.
LoadOps(l) == SetToSeq({[key |-> <<l, b>>, buf |-> dram[<<l, b>>]] :
                          b \in {c \in meta.load : dram[<<l, c>>] # NoBuf}})
AllLoads == FlattenSeq([l \in Layers |-> LoadOps(l)])
IssuedUpto(l) == loadsIssued + Len(FlattenSeq([m \in 1 .. l |-> LoadOps(m)]))
StartLoad ==
  /\ phase = <<"begun", 0>>
  /\ phase' = <<"done", 0>>
  /\ loads' = loads \o AllLoads
  /\ loadsIssued' = IssuedUpto(NLayers)
  /\ events' = IF meta.load = {} THEN events ELSE [l \in Layers |-> IssuedUpto(l)]
  /\ now' = [k \in Keys |-> IF k[2] \in meta.load /\ dram[k] # NoBuf
                            THEN heap[dram[k]] ELSE now[k]]
  /\ UNCHANGED <<schedVars, meta, step, dram, loadsDone, compute, saves, gpu, heap,
                 copy, wanted>>

\* wait_for_layer_load: sleeps until the layer's event has happened.
LoadedSoon(l) == TRUE  \* MUTANT: the event is not waited for
LoadedUpto(l) == loadsDone >= events[l]
WaitForLayerLoad(l) ==
  /\ phase = <<"done", l - 1>> /\ LoadedUpto(l)
  /\ phase' = <<"loaded", l>> /\ events' = [events EXCEPT ![l] = 0]
  /\ UNCHANGED <<schedVars, meta, step, dram, loadsIssued, deviceVars, now, copy, wanted>>

\* vLLM: the kernels of a layer are launched; they read the cache and write the
\* step's block.
Kernels(l) ==
  /\ phase = <<"loaded", l>>
  /\ phase' = <<"computed", l>>
  /\ compute' = Append(compute, [key |-> <<l, meta.slot>>, val |-> step])
  /\ now' = [now EXCEPT ![<<l, meta.slot>>] = step]
  /\ UNCHANGED <<schedVars, meta, step, dram, events, loadsIssued, gpu, heap, saves,
                 loads, loadsDone, copy, wanted>>

\* save_kv_layer: a buffer per key, kept from save to save, and a copy each on a
\* stream of its own: the kernels of the layer may come before or after it.
\* A layer under another name than the lists' finds none.
Used == {dram[k] : k \in Keys} \cup {saves[i].buf : i \in 1 .. Len(saves)}
                               \cup {loads[i].buf : i \in 1 .. Len(loads)}
FreeBuf(n) == CHOOSE x \in Bufs \ Used : Cardinality({y \in Bufs \ Used : y < x}) = n
HeldAny(k) == LET q == {m \in Keys : m[2] = k[2] /\ dram[m] # NoBuf}  \* MUTANT: keyed
              IN  IF q = {} THEN NoBuf ELSE dram[CHOOSE m \in q : TRUE]  \* by block only
Held(k) == dram[k]
SaveList(l) == IF l \in Listed THEN meta.save ELSE << >>
Save(l) ==
  LET bs    == [i \in 1 .. Len(SaveList(l)) |-> <<l, SaveList(l)[i]>>]
      fresh == SetToSeq({k \in ToSet(bs) : Held(k) = NoBuf})
      at    == [k \in Keys |-> IF k \in ToSet(fresh)
                               THEN FreeBuf((CHOOSE i \in 1 .. Len(fresh) : fresh[i] = k) - 1)
                               ELSE IF k \in ToSet(bs) THEN Held(k) ELSE dram[k]]
  IN /\ phase = <<"computed", l>>
     /\ phase' = <<"done", l>>
     /\ dram' = at
     /\ saves' = saves \o [i \in 1 .. Len(bs) |-> [key |-> bs[i], buf |-> at[bs[i]]]]
     /\ copy' = [k \in Keys |-> IF k \in ToSet(bs) THEN {gpu[k], now[k]} ELSE copy[k]]
     /\ UNCHANGED <<schedVars, meta, step, events, loadsIssued, gpu, heap, compute,
                    loads, loadsDone, now, wanted>>

\* wait_for_save: sleeps until the save stream is empty.
SavedSoon == TRUE  \* MUTANT: the stream is not waited for
AllSaved  == saves = << >>
WaitForSave ==
  /\ phase = <<"done", NLayers>> /\ AllSaved
  /\ phase' = <<"saved", 0>>
  /\ UNCHANGED <<schedVars, meta, step, dram, events, loadsIssued, deviceVars, now,
                 copy, wanted>>

\* clear_connector_metadata.  vLLM then reads the tokens the pass sampled, for
\* which its kernels must be done, and the next step may come.
End ==
  /\ phase = <<"saved", 0>> /\ compute = << >>
  /\ phase' = <<"idle", 0>> /\ meta' = NoMeta
  /\ UNCHANGED <<schedVars, step, dram, events, loadsIssued, deviceVars, now, copy,
                 wanted>>

\* free_blocks: the buffer is dropped from the table; a copy under way keeps it.
FreeBlock(k) ==
  /\ dram[k] # NoBuf
  /\ dram' = [dram EXCEPT ![k] = NoBuf]
  /\ wanted' = [wanted EXCEPT ![k] = {}]
  /\ UNCHANGED <<schedVars, meta, phase, step, events, loadsIssued, deviceVars, now, copy>>

\* shutdown: waits for both streams and drops the buffers.
Shutdown ==
  /\ phase = <<"idle", 0>> /\ AllSaved /\ loads = << >>
  /\ phase' = <<"down", 0>> /\ dram' = [k \in Keys |-> NoBuf]
  /\ UNCHANGED <<schedVars, meta, step, events, loadsIssued, deviceVars, now,
                 copy, wanted>>

-----------------------------------------------------------------------------
(* The device.                                                             *)

hostVars == <<schedVars, meta, phase, step, dram, events, loadsIssued, now, copy, wanted>>

DoKernel ==
  /\ compute # << >> /\ compute' = Tail(compute)
  /\ gpu' = [gpu EXCEPT ![Head(compute).key] = Head(compute).val]
  /\ UNCHANGED <<hostVars, heap, saves, loads, loadsDone>>

DoSave ==
  /\ saves # << >> /\ saves' = Tail(saves)
  /\ heap' = [heap EXCEPT ![Head(saves).buf] = gpu[Head(saves).key]]
  /\ UNCHANGED <<hostVars, gpu, compute, loads, loadsDone>>

DoLoad ==
  /\ loads # << >> /\ loads' = Tail(loads)
  /\ gpu' = [gpu EXCEPT ![Head(loads).key] = heap[Head(loads).buf]]
  /\ loadsDone' = loadsDone + 1
  /\ UNCHANGED <<hostVars, heap, compute, saves>>

Init ==
  /\ cached = [r \in Reqs |-> NotCached] /\ offload = << >> /\ meta = NoMeta
  /\ phase = <<"idle", 0>> /\ step = 0
  /\ dram = [k \in Keys |-> NoBuf] /\ events = [l \in Layers |-> 0]
  /\ loadsDone = 0 /\ loadsIssued = 0
  /\ compute = << >> /\ saves = << >> /\ loads = << >>
  /\ gpu = [k \in Keys |-> 0] /\ heap = [x \in Bufs |-> 0]
  /\ now = [k \in Keys |-> 0] /\ copy = [k \in Keys |-> {}] /\ wanted = [k \in Keys |-> {}]

Scheduler == \E r \in Reqs : HandlePreemption(r) \/ \E bs \in Finishes : RequestFinished(r, bs)
Layer(l)  == WaitForLayerLoad(l) \/ Kernels(l) \/ Save(l)
Worker    == StartLoad \/ WaitForSave \/ End \/ (\E l \in Layers : Layer(l))
Device    == DoKernel \/ DoSave \/ DoLoad
Next == Scheduler \/ Begin \/ Worker \/ Device \/ Shutdown \/ (\E k \in Keys : FreeBlock(k))

Spec == Init /\ [][Next]_vars

\* vLLM goes on with a pass it began and begins another while it may, and the
\* device goes on with each stream that is not empty.
Fairness == /\ WF_vars(Begin) /\ WF_vars(Worker)
            /\ WF_vars(DoKernel) /\ WF_vars(DoSave) /\ WF_vars(DoLoad)
FairSpec == Spec /\ Fairness

-----------------------------------------------------------------------------
(* Properties.                                                             *)

Ops(stream) == \A i \in 1 .. Len(stream) : stream[i].key \in Keys

\* What each variable may hold: in particular no two keys share a pinned
\* buffer, and a load never finds more done than was issued.
TypeOK ==
  /\ \A r \in Reqs : cached[r] \in (SUBSET Blocks) \cup {NotCached}
  /\ Len(offload) <= MaxOffload /\ ToSet(offload) \subseteq Blocks
  /\ ToSet(meta.save) \subseteq Blocks /\ meta.load \in Loads \cup {{}}
  /\ meta.slot \in Blocks \cup {NoSlot}
  /\ phase \in {"idle", "begun", "done", "loaded", "computed", "saved", "down"}
               \X (0 .. NLayers)
  /\ step \in Values
  /\ \A k \in Keys : dram[k] \in Bufs \cup {NoBuf} /\ gpu[k] \in Values
  /\ \A k, m \in Keys : k # m /\ dram[k] # NoBuf => dram[k] # dram[m]
  /\ Ops(compute) /\ Ops(saves) /\ Ops(loads)
  /\ loadsDone + Len(loads) = loadsIssued /\ \A l \in Layers : events[l] <= loadsIssued

\* After wait_for_save every buffer in the table holds what its own block held
\* between the last call of save_kv_layer for it and the return of that pass's
\* wait_for_save: the value before or after the kernels still to run at the call,
\* which nothing orders with the copy, and never an older one, another key's, or
\* that of a load or a buffer freed and allocated again (connector.py:142-172).
SavedIsStored ==
  phase = <<"saved", 0>> =>
    \A k \in Keys : dram[k] # NoBuf => heap[dram[k]] \in copy[k]

\* When wait_for_layer_load returns the kernels of the layer read, from every
\* block, what the calls made so far put there: the loads of this layer are
\* done though those of later layers may not be, and none of an earlier pass
\* comes in late (connector.py:174-202).
KernelsReadCurrent ==
  \A l \in Layers : phase = <<"loaded", l>> =>
    \A b \in Blocks : gpu[<<l, b>>] = now[<<l, b>>]

\* A block whose offload is asked for before the last pass reaches the host in
\* every layer the lists name: some later pass ends with its data in buffers of
\* its own, but for those given back (connector.py:142-172, 258-267, 277-284).
Stored(k) == dram[k] # NoBuf /\ heap[dram[k]] \in copy[k]
ReachesDram(b, ls) ==
  (step < MaxSteps /\ \E l \in Layers : wanted[<<l, b>>] # {}) ~>
    (\/ phase = <<"saved", 0>> /\ \A l \in ls : wanted[<<l, b>>] # {} => Stored(<<l, b>>)
     \/ phase = <<"down", 0>>)
OffloadReachesDram == \A b \in Blocks : ReachesDram(b, Listed)

(* The next three say more than the code does; each has a run that refutes it. *)

\* "Mark preempted request blocks for offloading to DRAM" (connector.py:278): a
\* preempted request's blocks reach the host in every layer, whatever vLLM calls
\* its layers and whichever connector it tells.
PreemptedReachesDram == \A b \in Blocks : ReachesDram(b, Layers)

\* "Mark preempted request blocks for offloading to DRAM" (connector.py:278):
\* what a pass saves for a block is what the block held when its offload was
\* asked for.
OffloadIsOwners ==
  phase = <<"saved", 0>> =>
    \A k \in Keys : k[2] \in ToSet(meta.save) /\ dram[k] # NoBuf /\ wanted[k] # {} =>
      heap[dram[k]] \in wanted[k]

\* "save_kv_layer() <- after each layer's attention forward" (connector.py:13):
\* what a pass saves for a block is what the kernels of the pass left there.
SavedAfterForward ==
  phase = <<"saved", 0>> =>
    \A k \in Keys : k[1] \in Listed /\ k[2] \in ToSet(meta.save) /\ dram[k] # NoBuf =>
      heap[dram[k]] = now[k]
=============================================================================
