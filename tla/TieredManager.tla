--------------------------- MODULE TieredManager ---------------------------
(***************************************************************************)
(* Blocks under the tiered manager (C8), its eviction policy (C4) and the  *)
(* migration engine (C7): threads that run tm_schedule_once or call        *)
(* mig_execute_one, and an owner that registers, accesses and unregisters  *)
(* blocks meanwhile.                                                       *)
(*                                                                         *)
(* The eviction policy works under its own mutex, so each of its calls is  *)
(* one action.  The migration engine reads and writes blocks with no lock: *)
(* its check, its mark, each transfer and its commit are actions of their  *)
(* own.  Scores only order victims; any order is possible.                 *)
(***************************************************************************)
EXTENDS Integers, FiniteSets, Sequences

CONSTANTS
  Blocks,            \* the blocks of the owner (kv_block_t)
  Threads,           \* the threads that migrate
  GpuBufs, DramBufs, NvmBufs, \* what alloc_fn hands out for each tier
  MaxBlocks,         \* max_blocks
  Batch,             \* demote_batch_size
  Pinned,            \* blocks registered with KV_FLAG_PIN
  Exclusive,         \* does the caller keep migrations and unregistrations apart?
  NoBuf, NoBlock

Bufs  == GpuBufs \union DramBufs \union NvmBufs
Tiers == {"NONE", "GPU", "DRAM", "NVM"}
States == {"FREE", "HOT", "WARM", "COLD", "MIGRATING"}

ASSUME ManagerConstantsOK ==
  /\ IsFiniteSet(Blocks) /\ NoBuf \notin Bufs /\ NoBlock \notin Blocks
  /\ IsFiniteSet(GpuBufs) /\ IsFiniteSet(DramBufs) /\ IsFiniteSet(NvmBufs)
  /\ GpuBufs \cap DramBufs = {} /\ (GpuBufs \union DramBufs) \cap NvmBufs = {}
  /\ MaxBlocks \in Nat /\ Batch \in Nat \ {0} /\ Pinned \subseteq Blocks
  /\ Exclusive \in BOOLEAN

VARIABLES
  stage,     \* block -> how far its owner is with registering it
  lru,       \* the LRU list, most recently used first
  state, tier, ptr,   \* of a block
  free,      \* buffer -> times it is on the allocator's free list
  data,      \* buffer -> the block whose data it holds
  stored,    \* blocks whose data the storage holds
  pc, phase, victims, job   \* of a thread

threadVars == <<pc, phase, victims, job>>
blockVars  == <<state, tier, ptr>>
vars == <<stage, lru, state, tier, ptr, free, data, stored, pc, phase, victims, job>>

\* A block is outside; in the registry but not yet in the LRU list; in both;
\* out of the registry but still in the list; or forgotten, its memory still held.
Stages   == {"out", "joining", "in", "leaving", "left"}
Registry == {b \in Blocks : stage[b] \in {"joining", "in"}}

\* What a thread in mig_execute_one keeps in its locals, and around it.
JobFor(b, to, dst, inter, old) ==
  [blk |-> b, from |-> "NONE", to |-> to, dst |-> dst, inter |-> inter, old |-> old,
   saved |-> "FREE", savedTier |-> "NONE", savedPtr |-> NoBuf, ok |-> FALSE]
NoJob == JobFor(NoBlock, "NONE", NoBuf, NoBuf, NoBuf)
Jobs == [blk : Blocks \union {NoBlock}, from : Tiers, to : Tiers,
         dst : Bufs \union {NoBuf}, inter : Bufs \union {NoBuf},
         old : Bufs \union {NoBuf}, saved : States, savedTier : Tiers,
         savedPtr : Bufs \union {NoBuf}, ok : BOOLEAN]

BufsOf(t) ==
  CASE t = "GPU" -> GpuBufs [] t = "DRAM" -> DramBufs [] t = "NVM" -> NvmBufs [] OTHER -> {}

-----------------------------------------------------------------------------
(* The eviction policy.  (Definitions marked MUTANT are faulty variants of  *)
(* the one that follows; nothing uses them.)                                *)

\* The list with b detached, where it is listed.
Without(list, b) ==
  IF \E i \in DOMAIN list : list[i] = b
  THEN LET i == CHOOSE i \in DOMAIN list : list[i] = b
       IN  SubSeq(list, 1, i - 1) \o SubSeq(list, i + 1, Len(list))
  ELSE list
TouchTwice(list, b) == <<b>> \o list  \* MUTANT: a listed block is not detached
Touch(list, b)      == <<b>> \o Without(list, b)

\* After a migration: storage blocks leave the list, others move to its head.
Relisted(list, b, to) == IF to = "NVM" THEN Without(list, b) ELSE Touch(list, b)

MayMoveAny(b) == TRUE  \* MUTANT: KV_FLAG_PIN not looked at
MayMove(b)    == b \notin Pinned

\* select_victims: the last 4n blocks of the list are looked at; the n best
\* of them that live in the tier, best first.
Eligible(t) ==
  {b \in Blocks : /\ tier[b] = t /\ MayMove(b) /\ state[b] # "MIGRATING"
                  /\ \E i \in 1 .. Len(lru) : lru[i] = b /\ i > Len(lru) - 4 * Batch}
Selections(t) ==
  LET n == IF Cardinality(Eligible(t)) < Batch THEN Cardinality(Eligible(t)) ELSE Batch
  IN  {s \in [1 .. n -> Eligible(t)] : \A i, j \in 1 .. n : s[i] = s[j] => i = j}

-----------------------------------------------------------------------------
(* The owner of the blocks.                                                *)

Idle == \A t \in Threads : pc[t] = "idle"

\* A new block, with its data in a buffer, enters the registry; in a second
\* step the list.  Without a free place in the registry nothing happens.
Register(b) ==
  /\ stage[b] = "out" /\ Cardinality(Registry) < MaxBlocks
  /\ \E t \in {"GPU", "DRAM"} : \E p \in BufsOf(t) :
       /\ free[p] = 1
       /\ free' = [free EXCEPT ![p] = 0]
       /\ data' = [data EXCEPT ![p] = b]
       /\ tier' = [tier EXCEPT ![b] = t] /\ ptr' = [ptr EXCEPT ![b] = p]
       /\ state' = [state EXCEPT ![b] = IF t = "GPU" THEN "HOT" ELSE "WARM"]
  /\ stage' = [stage EXCEPT ![b] = "joining"]
  /\ UNCHANGED <<lru, stored, threadVars>>

List(b) ==
  /\ stage[b] = "joining"
  /\ stage' = [stage EXCEPT ![b] = "in"]
  /\ lru' = Touch(lru, b)
  /\ UNCHANGED <<blockVars, free, data, stored, threadVars>>

\* tm_notify_access, on a block of any tier.
Access(b) ==
  /\ stage[b] = "in"
  /\ lru' = Touch(lru, b)
  /\ UNCHANGED <<stage, blockVars, free, data, stored, threadVars>>

\* tm_unregister_block, and the end of the block.
Unregister(b) ==
  /\ stage[b] = "in" /\ (Exclusive => Idle)
  /\ stage' = [stage EXCEPT ![b] = "leaving"]
  /\ UNCHANGED <<lru, blockVars, free, data, stored, threadVars>>

Unlist(b) ==
  /\ stage[b] = "leaving"
  /\ stage' = [stage EXCEPT ![b] = "left"]
  /\ lru' = Without(lru, b)
  /\ UNCHANGED <<blockVars, free, data, stored, threadVars>>

Discard(b) ==
  /\ stage[b] = "left"
  /\ stage' = [stage EXCEPT ![b] = "out"]
  /\ free' = IF ptr[b] = NoBuf THEN free ELSE [free EXCEPT ![ptr[b]] = @ + 1]
  /\ tier' = [tier EXCEPT ![b] = "NONE"] /\ ptr' = [ptr EXCEPT ![b] = NoBuf]
  /\ state' = [state EXCEPT ![b] = "FREE"]
  /\ stored' = stored \ {b}
  /\ UNCHANGED <<lru, data, threadVars>>

-----------------------------------------------------------------------------
(* tm_schedule_once: victims of the GPU, then victims of the DRAM.         *)

MayBegin(t) ==
  pc[t] = "idle" /\ (Exclusive => Idle /\ \A b \in Blocks : stage[b] # "leaving")

\* Where a thread goes when a victim, or a whole phase, is done with.
AfterPhase(t) ==
  /\ victims' = [victims EXCEPT ![t] = <<>>]
  /\ phase' = [phase EXCEPT ![t] = IF @ = "GPU" THEN "DRAM" ELSE "none"]
  /\ pc' = [pc EXCEPT ![t] = IF phase[t] = "GPU" THEN "select" ELSE "idle"]

Begin(t) ==
  /\ MayBegin(t)
  /\ pc' = [pc EXCEPT ![t] = "select"] /\ phase' = [phase EXCEPT ![t] = "GPU"]
  /\ UNCHANGED <<stage, lru, blockVars, free, data, stored, victims, job>>

\* The usage the caller reported is above the watermark, and there is a victim.
Select(t) ==
  /\ pc[t] = "select" /\ Eligible(phase[t]) # {}
  /\ \E s \in Selections(phase[t]) : victims' = [victims EXCEPT ![t] = s]
  /\ pc' = [pc EXCEPT ![t] = "alloc"]
  /\ UNCHANGED <<stage, lru, blockVars, free, data, stored, phase, job>>

\* It is not, or there is none.
SkipPhase(t) ==
  /\ pc[t] = "select" /\ AfterPhase(t)
  /\ UNCHANGED <<stage, lru, blockVars, free, data, stored, job>>

\* alloc_fn for the next victim, for a move to storage as for any other.
Alloc(t) ==
  LET b  == Head(victims[t])
      to == IF phase[t] = "GPU" THEN "DRAM" ELSE "NVM"
  IN  /\ pc[t] = "alloc"
      /\ \E d \in {p \in BufsOf(to) : free[p] > 0} :
           /\ free' = [free EXCEPT ![d] = @ - 1]
           /\ job' = [job EXCEPT ![t] = JobFor(b, to, d, NoBuf, ptr[b])]
      /\ pc' = [pc EXCEPT ![t] = "check"]
      /\ UNCHANGED <<stage, lru, blockVars, data, stored, phase, victims>>

\* alloc_fn returns NULL: the other victims are let go.
AllocFails(t) ==
  /\ pc[t] = "alloc" /\ AfterPhase(t)
  /\ UNCHANGED <<stage, lru, blockVars, free, data, stored, job>>

\* A direct call of mig_execute_one, its caller doing what the manager does
\* around it, with a buffer for the stop between two hops where it needs one;
\* it may leave out the buffer for storage.
Direct(t, b, to) ==
  LET from  == tier[b]
      hops2 == {from, to} = {"GPU", "NVM"}
  IN  /\ MayBegin(t) /\ stage[b] = "in" /\ from # to
      /\ \E d \in {p \in BufsOf(to) : free[p] > 0} \union {q \in {NoBuf} : to = "NVM"},
            i \in IF hops2 THEN {p \in DramBufs : free[p] > 0} ELSE {NoBuf} :
           /\ free' = [p \in Bufs |-> IF p \in {d, i} THEN free[p] - 1 ELSE free[p]]
           /\ job' = [job EXCEPT ![t] = JobFor(b, to, d, i, ptr[b])]
      /\ pc' = [pc EXCEPT ![t] = "check"]
      /\ UNCHANGED <<stage, lru, blockVars, data, stored, phase, victims>>

-----------------------------------------------------------------------------
(* mig_execute_one.                                                        *)

TwoHop(j)    == {j.from, j.to} = {"GPU", "NVM"}
SettledIn(t) == CASE t = "GPU" -> "HOT" [] t = "DRAM" -> "WARM" [] t = "NVM" -> "COLD"

\* mig_determine_op knows the pair of tiers, and a two-hop op has its buffer.
Routable(j, from) ==
  /\ from # "NONE" /\ from # j.to
  /\ {from, j.to} = {"GPU", "NVM"} => j.inter # NoBuf

Check(t) ==
  LET b  == job[t].blk
      go == MayMove(b) /\ state[b] # "MIGRATING" /\ Routable(job[t], tier[b])
  IN  /\ pc[t] = "check"
      /\ job' = [job EXCEPT ![t].from = tier[b]]
      /\ pc' = [pc EXCEPT ![t] = IF go THEN "mark" ELSE "free"]
      /\ UNCHANGED <<stage, lru, blockVars, free, data, stored, phase, victims>>

SavedLate(b) == "MIGRATING"  \* MUTANT: the state saved after it is overwritten
Saved(b)     == state[b]
Mark(t) ==
  LET b == job[t].blk
  IN  /\ pc[t] = "mark"
      /\ job' = [job EXCEPT ![t].saved = Saved(b)]
      /\ state' = [state EXCEPT ![b] = "MIGRATING"]
      /\ pc' = [pc EXCEPT ![t] = "move"]
      /\ UNCHANGED <<stage, lru, tier, ptr, free, data, stored, phase, victims>>

\* transfer_fn, one hop: from the block's data_ptr, or its place in storage
\* when there is none, into the buffer it is given, and into storage when the
\* hop leads there.
Transfer(b, from, to, dst) ==
  LET ok == IF from = "NVM" THEN b \in stored ELSE ptr[b] # NoBuf /\ data[ptr[b]] = b
  IN  /\ data' = [p \in Bufs |-> IF p # dst THEN data[p] ELSE IF ok THEN b ELSE NoBlock]
      /\ stored' = IF to # "NVM" THEN stored
                   ELSE IF ok THEN stored \union {b} ELSE stored \ {b}

\* The only hop.
Move(t) ==
  LET j == job[t]
  IN  /\ pc[t] = "move" /\ ~TwoHop(j)
      /\ Transfer(j.blk, j.from, j.to, j.dst)
      /\ pc' = [pc EXCEPT ![t] = "commit"]
      /\ UNCHANGED <<stage, lru, blockVars, free, phase, victims, job>>

\* The first of two hops; the block stops in the intermediate buffer.
FirstHop(t) ==
  LET j == job[t]
  IN  /\ pc[t] = "move" /\ TwoHop(j)
      /\ Transfer(j.blk, j.from, "DRAM", j.inter)
      /\ tier' = [tier EXCEPT ![j.blk] = "DRAM"]
      /\ ptr' = [ptr EXCEPT ![j.blk] = j.inter]
      /\ job' = [job EXCEPT ![t].savedTier = tier[j.blk], ![t].savedPtr = ptr[j.blk]]
      /\ pc' = [pc EXCEPT ![t] = "hop2"]
      /\ UNCHANGED <<stage, lru, state, free, phase, victims>>

SecondHop(t) ==
  LET j == job[t]
  IN  /\ pc[t] = "hop2"
      /\ Transfer(j.blk, "DRAM", j.to, j.dst)
      /\ pc' = [pc EXCEPT ![t] = "commit"]
      /\ UNCHANGED <<stage, lru, blockVars, free, phase, victims, job>>

\* transfer_fn fails; in the second hop, tier and data_ptr go back first.
PtrKept(j)     == ptr  \* MUTANT: data_ptr left in the intermediate buffer
PtrRestored(j) == [ptr EXCEPT ![j.blk] = j.savedPtr]
MoveFails(t) ==
  LET j == job[t]
  IN  /\ \/ pc[t] = "move" /\ UNCHANGED <<tier, ptr>>
         \/ /\ pc[t] = "hop2"
            /\ tier' = [tier EXCEPT ![j.blk] = j.savedTier]
            /\ ptr' = PtrRestored(j)
      /\ state' = [state EXCEPT ![j.blk] = j.saved]
      /\ pc' = [pc EXCEPT ![t] = "free"]
      /\ UNCHANGED <<stage, lru, free, data, stored, phase, victims, job>>

\* Tier, data_ptr and state.  A block in storage has no data_ptr, whatever
\* buffer its migration was given.
PtrAfter(j) == IF j.to = "NVM" THEN NoBuf ELSE j.dst
Commit(t) ==
  LET j == job[t]
  IN  /\ pc[t] = "commit"
      /\ tier' = [tier EXCEPT ![j.blk] = j.to]
      /\ ptr' = [ptr EXCEPT ![j.blk] = PtrAfter(j)]
      /\ state' = [state EXCEPT ![j.blk] = SettledIn(j.to)]
      /\ pc' = [pc EXCEPT ![t] = "lru"]
      /\ UNCHANGED <<stage, lru, free, data, stored, phase, victims, job>>

\* evpol_lru_remove or evpol_lru_touch.
Relist(t) ==
  /\ pc[t] = "lru"
  /\ lru' = Relisted(lru, job[t].blk, job[t].to)
  /\ job' = [job EXCEPT ![t].ok = TRUE]
  /\ pc' = [pc EXCEPT ![t] = "free"]
  /\ UNCHANGED <<stage, blockVars, free, data, stored, phase, victims>>

\* free_fn: the old buffer after a success, the new one after a failure, and
\* a direct caller's intermediate buffer in either case.  After a successful
\* move to storage nobody has the new one.
LeftOverBoth(j) == {j.inter, j.old, j.dst} \ {NoBuf}  \* MUTANT: both are freed
LeftOver(j)     == {j.inter, IF j.ok THEN j.old ELSE j.dst} \ {NoBuf}
Free(t) ==
  /\ pc[t] = "free"
  /\ free' = [p \in Bufs |-> IF p \in LeftOver(job[t]) THEN free[p] + 1 ELSE free[p]]
  /\ job' = [job EXCEPT ![t] = NoJob]
  /\ IF Len(victims[t]) > 1
     THEN /\ victims' = [victims EXCEPT ![t] = Tail(@)]
          /\ pc' = [pc EXCEPT ![t] = "alloc"] /\ UNCHANGED phase
     ELSE AfterPhase(t)
  /\ UNCHANGED <<stage, lru, blockVars, data, stored>>

-----------------------------------------------------------------------------
Init ==
  /\ stage = [b \in Blocks |-> "out"] /\ lru = <<>> /\ stored = {}
  /\ state = [b \in Blocks |-> "FREE"] /\ tier = [b \in Blocks |-> "NONE"]
  /\ ptr = [b \in Blocks |-> NoBuf]
  /\ free = [p \in Bufs |-> 1] /\ data = [p \in Bufs |-> NoBlock]
  /\ pc = [t \in Threads |-> "idle"] /\ phase = [t \in Threads |-> "none"]
  /\ victims = [t \in Threads |-> <<>>] /\ job = [t \in Threads |-> NoJob]

Execute(t) ==
  \/ Check(t) \/ Mark(t) \/ Move(t) \/ FirstHop(t) \/ SecondHop(t) \/ MoveFails(t)
  \/ Commit(t) \/ Relist(t) \/ Free(t)

Next ==
  \/ \E b \in Blocks : \/ Register(b) \/ List(b) \/ Access(b)
                       \/ Unregister(b) \/ Unlist(b) \/ Discard(b)
  \/ \E t \in Threads : \/ Begin(t) \/ Select(t) \/ SkipPhase(t) \/ Alloc(t)
                        \/ AllocFails(t) \/ Execute(t)
  \/ \E t \in Threads, b \in Blocks, to \in {"GPU", "DRAM", "NVM"} : Direct(t, b, to)

Spec == Init /\ [][Next]_vars

-----------------------------------------------------------------------------
(* Properties.                                                             *)

\* Every variable holds a value of its kind; no buffer is freed twice over.
TypeOK ==
  /\ stage \in [Blocks -> Stages] /\ lru \in Seq(Blocks) /\ stored \subseteq Blocks
  /\ state \in [Blocks -> States] /\ tier \in [Blocks -> Tiers]
  /\ ptr \in [Blocks -> Bufs \union {NoBuf}]
  /\ free \in [Bufs -> 0 .. 1] /\ data \in [Bufs -> Blocks \union {NoBlock}]
  /\ pc \in [Threads -> {"idle", "select", "alloc", "check", "mark", "move", "hop2",
                         "commit", "lru", "free"}]
  /\ phase \in [Threads -> {"none", "GPU", "DRAM"}]
  /\ victims \in [Threads -> Seq(Blocks)] /\ job \in [Threads -> Jobs]

\* Who works on block b, from the choice of a buffer to the last free.
Working(t, b) == pc[t] \notin {"idle", "select", "alloc"} /\ job[t].blk = b

\* The buffers that thread t alone has to give away or to free.
Holds(t) ==
  LET j == job[t]
  IN  (CASE pc[t] \in {"check", "mark", "move"} -> {j.dst, j.inter}
         [] pc[t] \in {"hop2", "commit"} -> {j.dst, IF TwoHop(j) THEN j.savedPtr ELSE NoBuf}
         [] pc[t] = "lru" -> {j.inter, j.old}
         [] pc[t] = "free" -> LeftOver(j)
         [] OTHER -> {}) \ {NoBuf}

\* How many owners a buffer has: the free list, blocks whose data_ptr it is,
\* and threads that have it in their hands.
Owners(p) == free[p] + Cardinality({b \in Blocks : ptr[b] = p})
                     + Cardinality({t \in Threads : p \in Holds(t)})

\* No buffer has two owners, and a buffer of the GPU or of the host has one:
\* migrations that succeed, are refused or fail in either hop free none that
\* is in use and lose none of these.
BufferOwnership ==
  \A p \in Bufs : Owners(p) <= 1 /\ (p \notin NvmBufs => Owners(p) = 1)

\* When no migration is under way, every buffer has an owner, those that
\* alloc_fn gave for storage included.
NothingLost == Idle => \A p \in Bufs : Owners(p) = 1

\* The LRU list holds each block once, only registered ones, and every
\* registered block that could be a victim: one that is missing would never
\* be demoted again.
LruListed ==
  /\ \A i, j \in 1 .. Len(lru) : lru[i] = lru[j] => i = j
  /\ \A i \in 1 .. Len(lru) : stage[lru[i]] \in {"in", "leaving"}
  /\ \A b \in Blocks :
       stage[b] = "in" /\ tier[b] \in {"GPU", "DRAM"} /\ (\A t \in Threads : ~Working(t, b))
         => \E i \in 1 .. Len(lru) : lru[i] = b

\* A block's data is where its tier and data_ptr say, in every state of a
\* migration, and when nobody works on it its state is the one of its tier.
Readable ==
  \A b \in Blocks : stage[b] # "out" =>
    /\ IF tier[b] = "NVM" THEN b \in stored ELSE ptr[b] # NoBuf /\ data[ptr[b]] = b
    /\ (\A t \in Threads : ~Working(t, b)) => state[b] = SettledIn(tier[b])

\* The home of a block: what its tier was before a move over two hops began.
HomeOf(b) ==
  IF \E t \in Threads : pc[t] \in {"hop2", "commit"} /\ job[t].blk = b /\ TwoHop(job[t])
  THEN job[CHOOSE t \in Threads : pc[t] \in {"hop2", "commit"} /\ job[t].blk = b].savedTier
  ELSE tier[b]
Moves == INSTANCE BlockHomes WITH home <- [b \in Blocks |-> HomeOf(b)]

\* A migration is one step from home to home, whatever number of hops it
\* takes; a failed one is none; a pinned block stays.
MovesSpec == Moves!Spec

\* MIGRATING keeps a second thread from migrating a block.
OneMover ==
  \A t, u \in Threads : t # u /\ {pc[t], pc[u]} \subseteq {"move", "hop2", "commit"}
    => job[t].blk # job[u].blk

\* Once tm_unregister_block has returned, the manager does not hold the block.
Forgotten ==
  \A b \in Blocks : stage[b] \in {"left", "out"} =>
    \A i \in 1 .. Len(lru) : lru[i] # b
=============================================================================
