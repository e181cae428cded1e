------------------------- MODULE TieredManagerProof -------------------------
(***************************************************************************)
(* For any number of blocks, buffers and threads, any list length and any   *)
(* batch: while migrations exclude each other and unregistrations, no       *)
(* buffer is freed in use and none of the GPU or of the host is lost,       *)
(* blocks stay readable in every state of a migration, and blocks that can  *)
(* be demoted stay in the LRU list.                                         *)
(***************************************************************************)
EXTENDS TieredManager, FiniteSetTheorems, SequenceTheorems, TLAPS

USE ManagerConstantsOK DEF ManagerConstantsOK

\* The buffers that are never given away for good.
Tracked == GpuBufs \union DramBufs

LEMMA TrackedIs ==
  /\ Bufs = Tracked \union NvmBufs /\ Tracked \cap NvmBufs = {}
  /\ GpuBufs \subseteq Tracked /\ DramBufs \subseteq Tracked
  BY DEF Bufs, Tracked
USE TrackedIs

Active(t) == pc[t] # "idle"
Occurs(list, b) == \E i \in 1 .. Len(list) : list[i] = b
NoRepeats(list) == \A i, j \in 1 .. Len(list) : list[i] = list[j] => i = j

\* One thread at a time, and nothing is half unregistered meanwhile.
ExclusionOK ==
  /\ \A t, u \in Threads : Active(t) /\ Active(u) => t = u
  /\ \A t \in Threads : Active(t) => \A b \in Blocks : stage[b] # "leaving"

\* Victims are registered and listed blocks.
VictimsOK ==
  \A t \in Threads :
    /\ pc[t] = "idle" => victims[t] = <<>>
    /\ pc[t] = "alloc" => victims[t] # <<>>
    /\ \A i \in 1 .. Len(victims[t]) : stage[victims[t][i]] = "in"

\* A buffer is on the free list F, the data_ptr (P) of one block, or in H, the
\* set of buffers in the hands of a thread, and in one of them only; one for
\* storage may be nowhere.
Owned(F, P, H) ==
  /\ \A p \in Tracked : F[p] = 1 \/ (\E b \in Blocks : P[b] = p) \/ p \in H
  /\ \A p \in Bufs : F[p] = 1 => (\A b \in Blocks : P[b] # p) /\ p \notin H
  /\ \A b, c \in Blocks : P[b] = P[c] /\ P[b] # NoBuf => b = c
  /\ \A b \in Blocks : P[b] \notin H
Held == UNION {Holds(t) : t \in Threads}
OwnOK == Owned(free, ptr, Held)

\* Where b's data is, if it lives in tier t with data_ptr p.
In(b, t, p) ==
  /\ t \in {"GPU", "DRAM", "NVM"}
  /\ IF t = "NVM" THEN b \in stored /\ p = NoBuf ELSE p \in Tracked /\ data[p] = b
Settled(b) == state[b] = SettledIn(tier[b])

\* What the locals of mig_execute_one and the block say of each other, from
\* the choice of a buffer to the last free.
Before(t) ==       \* the block is where it was
  LET j == job[t]
  IN  tier[j.blk] = j.from /\ ptr[j.blk] = j.old
Halfway(t) ==      \* it is in the intermediate buffer, its data also at home
  LET j == job[t]
  IN  /\ tier[j.blk] = "DRAM" /\ ptr[j.blk] = j.inter
      /\ j.savedTier = j.from /\ j.savedPtr = j.old /\ In(j.blk, j.from, j.old)
Routed(t) ==
  LET j == job[t]
  IN  /\ j.from \in {"GPU", "DRAM", "NVM"} /\ j.from # j.to
      /\ TwoHop(j) <=> j.inter # NoBuf
      /\ j.blk \notin Pinned
JobOK(t) ==
  LET j == job[t]
      b == j.blk
  IN  /\ b \in Blocks /\ stage[b] = "in" /\ j.to \in {"GPU", "DRAM", "NVM"}
      /\ j.dst \in BufsOf(j.to) \/ (j.to = "NVM" /\ j.dst = NoBuf)
      /\ j.inter \in DramBufs \union {NoBuf}
      /\ pc[t] # "free" => ~ j.ok
      /\ pc[t] = "check" => /\ j.old = ptr[b] /\ Settled(b)
                            /\ j.inter # NoBuf => {tier[b], j.to} = {"GPU", "NVM"}
      /\ pc[t] = "mark" => Routed(t) /\ Before(t) /\ Settled(b)
      /\ pc[t] = "move" => Routed(t) /\ Before(t)
      /\ pc[t] = "hop2" => Routed(t) /\ TwoHop(j) /\ Halfway(t)
      /\ pc[t] = "commit" => /\ Routed(t) /\ In(b, j.to, PtrAfter(j))
                             /\ IF TwoHop(j) THEN Halfway(t) ELSE Before(t)
      /\ pc[t] \in {"move", "hop2", "commit"} =>
           state[b] = "MIGRATING" /\ j.saved = SettledIn(j.from)
      /\ pc[t] = "lru" => tier[b] = j.to /\ Settled(b)
      /\ pc[t] = "free" => Settled(b)
JobsOK == \A t \in Threads : pc[t] \notin {"idle", "select", "alloc"} => JobOK(t)

BlocksOK ==
  \A b \in Blocks :
    /\ stage[b] = "out" => ptr[b] = NoBuf /\ tier[b] = "NONE"
    /\ stage[b] # "out" => In(b, tier[b], ptr[b])
    /\ stage[b] # "out" /\ (\A t \in Threads : ~Working(t, b)) => Settled(b)

\* Of a block on its way up from storage, or one whose migration has just been
\* committed, the list may know nothing yet.
Unlisted(t, b) ==
  /\ job[t].blk = b
  /\ pc[t] = "lru" \/ (pc[t] \in {"hop2", "commit"} /\ job[t].from = "NVM")
ListOK ==
  /\ NoRepeats(lru)
  /\ \A b \in Blocks : Occurs(lru, b) => stage[b] \in {"in", "leaving"}
  /\ \A b \in Blocks : stage[b] = "in" =>
       Occurs(lru, b) \/ tier[b] = "NVM" \/ \E t \in Threads : Unlisted(t, b)

IInv == /\ TypeOK /\ ExclusionOK /\ VictimsOK /\ OwnOK /\ JobsOK /\ BlocksOK /\ ListOK

-----------------------------------------------------------------------------
(* The list.                                                               *)

LEMMA WithoutIs ==
  ASSUME NEW list \in Seq(Blocks), NoRepeats(list), NEW b
  PROVE  /\ Without(list, b) \in Seq(Blocks) /\ NoRepeats(Without(list, b))
         /\ \A c \in Blocks : Occurs(Without(list, b), c) <=> Occurs(list, c) /\ c # b
<1>1. DOMAIN list = 1 .. Len(list) /\ Len(list) \in Nat
  OBVIOUS
<1>2. CASE Occurs(list, b)
  <2> DEFINE i == CHOOSE i \in DOMAIN list : list[i] = b
             front == SubSeq(list, 1, i - 1)
             back == SubSeq(list, i + 1, Len(list))
  <2>1. i \in 1 .. Len(list) /\ list[i] = b
    BY <1>1, <1>2 DEF Occurs
  <2>2. Without(list, b) = front \o back
    BY <1>1, <1>2 DEF Without, Occurs
  <2> HIDE DEF i
  <2>3. /\ front \in Seq(Blocks) /\ Len(front) = i - 1
        /\ \A k \in 1 .. i - 1 : front[k] = list[k]
    BY <2>1, SubSeqProperties
  <2>4. /\ back \in Seq(Blocks) /\ Len(back) = Len(list) - i
        /\ \A k \in 1 .. Len(list) - i : back[k] = list[i + k]
    BY <2>1, SubSeqProperties
  <2> HIDE DEF front, back
  <2> DEFINE new == front \o back
  <2>5. /\ new \in Seq(Blocks) /\ Len(new) = Len(list) - 1
        /\ \A k \in 1 .. Len(list) - 1 : new[k] = IF k < i THEN list[k] ELSE list[k + 1]
    <3>1. /\ new \in Seq(Blocks) /\ Len(new) = Len(front) + Len(back)
          /\ \A k \in 1 .. Len(front) + Len(back) :
               new[k] = IF k <= Len(front) THEN front[k] ELSE back[k - Len(front)]
      <4>1. front \in Seq(Blocks) /\ back \in Seq(Blocks)
        BY <2>3, <2>4
      <4>2. QED
        BY ONLY <4>1, ConcatProperties, Zenon
    <3> HIDE DEF new
    <3>2. ASSUME NEW k \in 1 .. Len(list) - 1
          PROVE  new[k] = IF k < i THEN list[k] ELSE list[k + 1]
      <4>1. i \in Int /\ k \in Int /\ Len(front) + Len(back) = Len(list) - 1
        BY <1>1, <2>1, <2>3, <2>4
      <4>2. new[k] = IF k <= i - 1 THEN front[k] ELSE back[k - (i - 1)]
        BY <2>3, <3>1, <4>1
      <4>3. CASE k < i
        BY <2>3, <4>1, <4>2, <4>3
      <4>4. CASE ~ (k < i)
        <5>1. k - (i - 1) \in 1 .. Len(list) - i /\ i + (k - (i - 1)) = k + 1
          BY <1>1, <4>1, <4>4
        <5>2. back[k - (i - 1)] = list[i + (k - (i - 1))]
          BY <2>4, <5>1
        <5>3. ~ (k <= i - 1)
          BY <4>1, <4>4
        <5>4. QED
          BY <4>2, <4>4, <5>1, <5>2, <5>3
      <4>5. QED
        BY <4>3, <4>4
    <3>3. QED
      BY <1>1, <2>1, <2>3, <2>4, <3>1, <3>2
  <2> HIDE DEF new
  <2>6. NoRepeats(new)
    <3> SUFFICES ASSUME NEW j \in 1 .. Len(list) - 1, NEW k \in 1 .. Len(list) - 1,
                        new[j] = new[k]
                 PROVE  j = k
      BY <2>5 DEF NoRepeats
    <3>1. PICK m \in 1 .. Len(list) : new[j] = list[m] /\ m = IF j < i THEN j ELSE j + 1
      BY <1>1, <2>1, <2>5
    <3>2. PICK n \in 1 .. Len(list) : new[k] = list[n] /\ n = IF k < i THEN k ELSE k + 1
      BY <1>1, <2>1, <2>5
    <3>3. m = n
      BY <3>1, <3>2 DEF NoRepeats
    <3>4. QED
      BY <1>1, <2>1, <3>1, <3>2, <3>3
  <2>7. ASSUME NEW c \in Blocks PROVE Occurs(new, c) <=> Occurs(list, c) /\ c # b
    <3>1. ASSUME NEW k \in 1 .. Len(new), new[k] = c PROVE Occurs(list, c) /\ c # b
      BY <1>1, <2>1, <2>5, <3>1 DEF NoRepeats, Occurs
    <3>2. ASSUME NEW k \in 1 .. Len(list), list[k] = c, c # b PROVE Occurs(new, c)
      <4>1. CASE k < i
        BY <1>1, <2>1, <2>5, <3>2, <4>1 DEF Occurs
      <4>2. CASE k > i
        <5>1. k - 1 \in 1 .. Len(new) /\ new[k - 1] = c
          BY <1>1, <2>1, <2>5, <3>2, <4>2
        <5>2. QED
          BY <5>1 DEF Occurs
      <4>3. QED
        BY <2>1, <3>2, <4>1, <4>2
    <3>3. QED
      BY <3>1, <3>2 DEF Occurs
  <2>8. QED
    BY <2>2, <2>5, <2>6, <2>7 DEF new
<1>3. CASE ~ Occurs(list, b)
  <2>1. Without(list, b) = list
    BY <1>1, <1>3 DEF Without, Occurs
  <2>2. QED
    BY <1>3, <2>1 DEF Occurs
<1>4. QED
  BY <1>2, <1>3

LEMMA TouchIs ==
  ASSUME NEW list \in Seq(Blocks), NoRepeats(list), NEW b \in Blocks
  PROVE  /\ Touch(list, b) \in Seq(Blocks) /\ NoRepeats(Touch(list, b))
         /\ \A c \in Blocks : Occurs(Touch(list, b), c) <=> Occurs(list, c) \/ c = b
<1> DEFINE rest == Without(list, b)
<1>1. /\ rest \in Seq(Blocks) /\ NoRepeats(rest)
      /\ \A c \in Blocks : Occurs(rest, c) <=> Occurs(list, c) /\ c # b
  BY WithoutIs
<1>2. Touch(list, b) = <<b>> \o rest
  BY DEF Touch
<1> HIDE DEF rest
<1> DEFINE new == <<b>> \o rest
<1>3. /\ new \in Seq(Blocks) /\ Len(new) = Len(rest) + 1 /\ Len(rest) \in Nat
      /\ new[1] = b /\ \A k \in 1 .. Len(rest) : new[k + 1] = rest[k]
  BY <1>1
<1>4. \A k \in 1 .. Len(new) : k = 1 \/ (k - 1 \in 1 .. Len(rest) /\ new[k] = rest[k - 1])
  <2> SUFFICES ASSUME NEW k \in 1 .. Len(new), k # 1
               PROVE  k - 1 \in 1 .. Len(rest) /\ new[k] = rest[k - 1]
    OBVIOUS
  <2>1. k - 1 \in 1 .. Len(rest) /\ (k - 1) + 1 = k
    BY <1>3
  <2>2. QED
    BY <1>3, <2>1
<1>5. \A k \in 1 .. Len(rest) : rest[k] # b
  BY <1>1 DEF Occurs
<1> HIDE DEF new
<1>6. NoRepeats(new)
  <2> SUFFICES ASSUME NEW i \in 1 .. Len(new), NEW j \in 1 .. Len(new), new[i] = new[j]
               PROVE  i = j
    BY DEF NoRepeats
  <2>1. CASE i = 1 \/ j = 1
    BY <1>3, <1>4, <1>5, <2>1
  <2>2. CASE i # 1 /\ j # 1
    <3>1. i - 1 = j - 1
      BY <1>1, <1>4, <2>2 DEF NoRepeats
    <3>2. QED
      BY <1>3, <3>1
  <2>3. QED
    BY <2>1, <2>2
<1>7. ASSUME NEW c \in Blocks PROVE Occurs(new, c) <=> Occurs(rest, c) \/ c = b
  <2>1. ASSUME NEW k \in 1 .. Len(new), new[k] = c PROVE Occurs(rest, c) \/ c = b
    BY <1>3, <1>4, <2>1 DEF Occurs
  <2>2. ASSUME NEW k \in 1 .. Len(rest), rest[k] = c PROVE Occurs(new, c)
    <3>1. k + 1 \in 1 .. Len(new) /\ new[k + 1] = c
      BY <1>3, <2>2
    <3>2. QED
      BY <3>1 DEF Occurs
  <2>3. 1 \in 1 .. Len(new)
    BY <1>3
  <2>4. QED
    BY <1>3, <2>1, <2>2, <2>3 DEF Occurs
<1>8. QED
  BY <1>1, <1>2, <1>3, <1>6, <1>7 DEF new

-----------------------------------------------------------------------------
(* Whose turn it is.                                                       *)

\* A step of thread t alone.
Alone(t) ==
  /\ \A u \in Threads : u # t => pc[u] = "idle" /\ pc'[u] = "idle"
  /\ UNCHANGED stage /\ \A b \in Blocks : stage[b] # "leaving"

LEMMA IsAlone ==
  ASSUME IInv, Exclusive, NEW t \in Threads, Active(t) \/ MayBegin(t), UNCHANGED stage,
         NEW x, pc' = [pc EXCEPT ![t] = x]
  PROVE  Alone(t) /\ pc'[t] = x
<1>1. \A u \in Threads : u # t => pc[u] = "idle"
  BY DEF IInv, ExclusionOK, Active, MayBegin, Idle
<1>2. pc'[t] = x /\ \A u \in Threads : u # t => pc'[u] = pc[u]
  BY DEF IInv, TypeOK
<1>3. \A b \in Blocks : stage[b] # "leaving"
  BY DEF IInv, ExclusionOK, MayBegin
<1>4. QED
  BY <1>1, <1>2, <1>3 DEF Alone

LEMMA AloneExclusion ==
  ASSUME NEW t \in Threads, Alone(t)
  PROVE  ExclusionOK'
  BY DEF Alone, ExclusionOK, Active

LEMMA AloneHeld ==
  ASSUME NEW t \in Threads, Alone(t)
  PROVE  Held = Holds(t) /\ Held' = Holds(t)'
<1>1. \A u \in Threads : u # t => Holds(u) = {} /\ Holds(u)' = {}
  BY DEF Alone, Holds
<1>2. QED
  BY <1>1 DEF Held

LEMMA AloneVictims ==
  ASSUME IInv, NEW t \in Threads, Alone(t),
         \A u \in Threads : u # t => victims'[u] = victims[u],
         pc'[t] = "idle" => victims'[t] = <<>>, pc'[t] = "alloc" => victims'[t] # <<>>,
         \A i \in 1 .. Len(victims'[t]) : stage[victims'[t][i]] = "in"
  PROVE  VictimsOK'
  BY DEF IInv, VictimsOK, Alone

LEMMA AloneJobs ==
  ASSUME NEW t \in Threads, Alone(t),
         pc'[t] \notin {"idle", "select", "alloc"} => JobOK(t)'
  PROVE  JobsOK'
  BY DEF JobsOK, Alone

\* Blocks other than b are as they were.
Others(b) ==
  \A c \in Blocks : c # b =>
    /\ state'[c] = state[c] /\ tier'[c] = tier[c] /\ ptr'[c] = ptr[c]
    /\ stage[c] # "out" /\ In(c, tier[c], ptr[c]) => In(c, tier[c], ptr[c])'

LEMMA AloneBlocks ==
  ASSUME IInv, NEW t \in Threads, Alone(t), NEW b, Others(b),
         \A c \in Blocks : c # b => ~ Working(t, c),
         b \in Blocks => /\ stage[b] # "out" /\ In(b, tier[b], ptr[b])'
                         /\ Settled(b)' \/ Working(t, b)'
  PROVE  BlocksOK'
<1> SUFFICES ASSUME NEW c \in Blocks
             PROVE  /\ stage[c] = "out" => ptr'[c] = NoBuf /\ tier'[c] = "NONE"
                    /\ stage[c] # "out" => In(c, tier[c], ptr[c])'
                    /\ stage[c] # "out" /\ (\A u \in Threads : ~Working(u, c)')
                         => Settled(c)'
  BY DEF BlocksOK, Alone
<1>1. CASE c = b
  BY <1>1
<1>2. CASE c # b
  <2>1. \A u \in Threads : ~ Working(u, c)
    BY <1>2 DEF Working, Alone
  <2>2. /\ stage[c] = "out" => ptr[c] = NoBuf /\ tier[c] = "NONE"
        /\ stage[c] # "out" => In(c, tier[c], ptr[c]) /\ Settled(c)
    BY <2>1 DEF IInv, BlocksOK
  <2>3. Settled(c) => Settled(c)'
    BY <1>2 DEF Others, Settled
  <2>4. QED
    BY <1>2, <2>2, <2>3 DEF Others, In
<1>3. QED
  BY <1>1, <1>2

\* What a thread that is between two migrations leaves of the blocks.
LEMMA QuietBlocks ==
  ASSUME IInv, NEW t \in Threads, Alone(t), UNCHANGED <<blockVars, data, stored>>,
         pc[t] \in {"idle", "select", "alloc"}
  PROVE  BlocksOK'
<1>1. \A u \in Threads, c \in Blocks : ~ Working(u, c)
  BY DEF Working, Alone
<1>2. \A c \in Blocks : /\ stage[c] = "out" => ptr[c] = NoBuf /\ tier[c] = "NONE"
                        /\ stage[c] # "out" => In(c, tier[c], ptr[c]) /\ Settled(c)
  BY <1>1 DEF IInv, BlocksOK
<1>3. QED
  BY <1>2 DEF BlocksOK, Alone, In, Settled, blockVars

LEMMA QuietList ==
  ASSUME IInv, NEW t \in Threads, Alone(t), UNCHANGED <<lru, tier>>,
         pc[t] \notin {"lru", "hop2", "commit"}
  PROVE  ListOK'
<1>1. \A u \in Threads, c \in Blocks : ~ Unlisted(u, c)
  BY DEF Unlisted, Alone
<1>2. QED
  BY <1>1 DEF IInv, ListOK, Alone

\* A block whose migration is under way is on the list, or may not be yet.
LEMMA BusyList ==
  ASSUME IInv, NEW t \in Threads, Alone(t), UNCHANGED lru, NEW b \in Blocks,
         \A c \in Blocks : c # b => tier'[c] = tier[c],
         job[t].blk = b,
         Occurs(lru, b) \/ tier'[b] = "NVM" \/ Unlisted(t, b)'
  PROVE  ListOK'
<1>1. \A u \in Threads, c \in Blocks : c # b => ~ Unlisted(u, c)
  BY DEF Unlisted, Alone
<1>2. \A c \in Blocks : c # b /\ stage[c] = "in" => Occurs(lru, c) \/ tier[c] = "NVM"
  BY <1>1 DEF IInv, ListOK
<1>3. QED
  BY <1>2 DEF IInv, ListOK, Alone

-----------------------------------------------------------------------------
(* Values of their kind.                                                   *)

LEMMA JobTypes ==
  /\ NoJob \in Jobs
  /\ \A j \in Jobs : /\ j.blk \in Blocks \union {NoBlock} /\ j.to \in Tiers
                     /\ j.from \in Tiers /\ j.dst \in Bufs \union {NoBuf}
                     /\ j.inter \in Bufs \union {NoBuf} /\ j.old \in Bufs \union {NoBuf}
                     /\ j.saved \in States /\ j.savedTier \in Tiers
                     /\ j.savedPtr \in Bufs \union {NoBuf} /\ j.ok \in BOOLEAN
  BY DEF Jobs, NoJob, JobFor, Tiers, States

\* The free list never holds a buffer twice.
LEMMA Frees ==
  ASSUME NEW F \in [Bufs -> 0 .. 1], NEW P, NEW H, Owned(F, P, H), NEW L, L \subseteq H
  PROVE  [p \in Bufs |-> IF p \in L THEN F[p] + 1 ELSE F[p]] \in [Bufs -> 0 .. 1]
<1> SUFFICES ASSUME NEW p \in Bufs
             PROVE  (IF p \in L THEN F[p] + 1 ELSE F[p]) \in 0 .. 1
  OBVIOUS
<1>1. p \in L => F[p] = 0
  BY DEF Owned
<1>2. QED
  BY <1>1

\* What a migrating thread has in its hands and in its job.
LEMMA HoldsIs ==
  ASSUME NEW t \in Threads
  PROVE  /\ pc[t] \in {"idle", "select", "alloc"} => Holds(t) = {}
         /\ pc[t] \in {"check", "mark", "move"} =>
              Holds(t) = {job[t].dst, job[t].inter} \ {NoBuf}
         /\ pc[t] \in {"hop2", "commit"} =>
              Holds(t) = {job[t].dst, IF TwoHop(job[t]) THEN job[t].savedPtr ELSE NoBuf}
                           \ {NoBuf}
         /\ pc[t] = "lru" => Holds(t) = {job[t].inter, job[t].old} \ {NoBuf}
         /\ pc[t] = "free" => Holds(t) = LeftOver(job[t])
<1>1. CASE pc[t] \in {"idle", "select", "alloc"}
  BY <1>1 DEF Holds
<1>2. CASE pc[t] \in {"check", "mark", "move"}
  BY <1>2 DEF Holds
<1>3. CASE pc[t] \in {"hop2", "commit"}
  BY <1>3 DEF Holds
<1>4. CASE pc[t] = "lru"
  BY <1>4 DEF Holds
<1>5. CASE pc[t] = "free"
  BY <1>5 DEF Holds, LeftOver
<1>6. QED
  BY <1>1, <1>2, <1>3, <1>4, <1>5

-----------------------------------------------------------------------------
(* The owner.                                                              *)

LEMMA OwnerHeld ==
  ASSUME UNCHANGED threadVars
  PROVE  /\ Held' = Held
         /\ \A t \in Threads : Holds(t)' = Holds(t) /\ Holds(t) \subseteq Held
         /\ \A t \in Threads, b \in Blocks : (Working(t, b)' <=> Working(t, b))
         /\ \A t \in Threads, b \in Blocks : Unlisted(t, b)' <=> Unlisted(t, b)
<1>1. \A t \in Threads : Holds(t)' = Holds(t)
  BY DEF threadVars, Holds, LeftOver, TwoHop
<1>2. QED
  BY <1>1 DEF threadVars, Held, Working, Unlisted

\* Migrations go on undisturbed while nobody touches their block or buffers.
Spared(t) ==
  /\ \A b \in Blocks : job[t].blk = b =>
       /\ stage'[b] = stage[b] /\ state'[b] = state[b]
       /\ tier'[b] = tier[b] /\ ptr'[b] = ptr[b] /\ (b \in stored => b \in stored')
  /\ \A p \in Holds(t) \cap Bufs : data'[p] = data[p]

LEMMA OwnerJobs ==
  ASSUME IInv, UNCHANGED threadVars,
         \A t \in Threads : pc[t] \notin {"idle", "select", "alloc"} => Spared(t)
  PROVE  JobsOK'
<1> SUFFICES ASSUME NEW t \in Threads, pc[t] \notin {"idle", "select", "alloc"}
             PROVE  JobOK(t)'
  BY DEF JobsOK, threadVars
<1> DEFINE j == job[t]
           b == j.blk
<1>1. JobOK(t)
  BY DEF IInv, JobsOK
<1>2. /\ stage'[b] = stage[b] /\ state'[b] = state[b] /\ tier'[b] = tier[b]
      /\ ptr'[b] = ptr[b] /\ (b \in stored => b \in stored')
      /\ \A p \in Holds(t) \cap Bufs : data'[p] = data[p]
  BY <1>1 DEF Spared, JobOK
<1>3. pc' = pc /\ job' = job
  BY DEF threadVars
<1>4. pc[t] = "commit" => (In(b, j.to, PtrAfter(j)) => In(b, j.to, PtrAfter(j))')
  BY <1>2, <1>3 DEF In, Holds, PtrAfter
<1>5. pc[t] \in {"hop2", "commit"} /\ TwoHop(j) => (Halfway(t) => Halfway(t)')
  BY <1>2, <1>3 DEF Halfway, In, Holds
<1>6. (Routed(t) => Routed(t)') /\ (Before(t) => Before(t)') /\ (Settled(b) => Settled(b)')
      /\ TwoHop(j)' = TwoHop(j)
  BY <1>2, <1>3 DEF Routed, Before, Settled, TwoHop
<1>7. QED
  BY <1>1, <1>2, <1>3, <1>4, <1>5, <1>6 DEF JobOK

LEMMA RegisterFine == ASSUME IInv, NEW b \in Blocks, Register(b) PROVE IInv'
<1>1. PICK t \in {"GPU", "DRAM"}, p \in Bufs :
        /\ p \in BufsOf(t) /\ free[p] = 1 /\ free' = [free EXCEPT ![p] = 0] /\ data' = [data EXCEPT ![p] = b]
        /\ tier' = [tier EXCEPT ![b] = t] /\ ptr' = [ptr EXCEPT ![b] = p]
        /\ state' = [state EXCEPT ![b] = IF t = "GPU" THEN "HOT" ELSE "WARM"]
  BY DEF Register, BufsOf, Bufs
<1>2. /\ stage[b] = "out" /\ stage' = [stage EXCEPT ![b] = "joining"]
      /\ UNCHANGED <<lru, stored>> /\ UNCHANGED threadVars
  BY DEF Register
<1>3. p \in Bufs /\ ptr[b] = NoBuf /\ p # NoBuf
  BY <1>1, <1>2 DEF IInv, BlocksOK, BufsOf, Bufs
<1>4. p \notin Held /\ \A c \in Blocks : ptr[c] # p
  BY <1>1, <1>3 DEF IInv, OwnOK, Owned
<1>5. TypeOK'
  BY <1>1, <1>2, <1>3 DEF IInv, TypeOK, Stages, States, Tiers, threadVars
<1>6. ExclusionOK' /\ VictimsOK'
  BY <1>2 DEF IInv, TypeOK, ExclusionOK, VictimsOK, Active, threadVars
<1>7. OwnOK'
  <2>1. Owned(free', ptr', Held)
    BY <1>1, <1>3, <1>4 DEF IInv, TypeOK, OwnOK, Owned
  <2>2. QED
    BY <1>2, <2>1, OwnerHeld DEF OwnOK
<1>8. JobsOK'
  <2> SUFFICES ASSUME NEW u \in Threads, pc[u] \notin {"idle", "select", "alloc"}
               PROVE  Spared(u)
    BY <1>2, OwnerJobs
  <2>1. job[u].blk \in Blocks /\ job[u].blk # b
    BY <1>2 DEF IInv, JobsOK, JobOK
  <2>2. p \notin Holds(u)
    BY <1>4 DEF Held
  <2>3. QED
    BY <1>1, <1>2, <1>3, <2>1, <2>2 DEF IInv, TypeOK, Spared
<1>9. BlocksOK'
  <2>1. In(b, tier[b], ptr[b])' /\ Settled(b)'
    BY <1>1, <1>3 DEF IInv, TypeOK, In, Settled, SettledIn, BufsOf
  <2>2. ASSUME NEW c \in Blocks, c # b
        PROVE  /\ UNCHANGED <<stage[c], state[c], tier[c], ptr[c]>>
               /\ In(c, tier[c], ptr[c]) => In(c, tier[c], ptr[c])'
    BY <1>1, <1>2, <1>3, <1>4, <2>2 DEF IInv, TypeOK, In
  <2>3. stage'[b] = "joining"
    BY <1>2 DEF IInv, TypeOK
  <2>4. \A c \in Blocks : c # b => (Settled(c) => Settled(c)')
    BY <2>2 DEF Settled
  <2>5. ASSUME NEW c \in Blocks
        PROVE  /\ stage'[c] = "out" => ptr'[c] = NoBuf /\ tier'[c] = "NONE"
               /\ stage'[c] # "out" => In(c, tier[c], ptr[c])'
               /\ stage'[c] # "out" /\ (\A u \in Threads : ~ Working(u, c)') => Settled(c)'
    <3>1. CASE c = b
      BY <2>1, <2>3, <3>1 DEF In
    <3>2. CASE c # b
      <4>1. /\ stage[c] = "out" => ptr[c] = NoBuf /\ tier[c] = "NONE"
            /\ stage[c] # "out" => In(c, tier[c], ptr[c])
            /\ stage[c] # "out" /\ (\A u \in Threads : ~ Working(u, c)) => Settled(c)
        BY DEF IInv, BlocksOK
      <4>2. QED
        BY <1>2, <2>2, <2>4, <3>2, <4>1, OwnerHeld DEF In
    <3>3. QED
      BY <3>1, <3>2
  <2>6. QED
    BY <2>5 DEF BlocksOK
<1>10. ListOK'
  <2>1. \A c \in Blocks : c # b => UNCHANGED <<stage[c], tier[c]>>
    BY <1>1, <1>2 DEF IInv, TypeOK
  <2>2. stage'[b] = "joining" /\ ~ Occurs(lru, b)
    BY <1>2 DEF IInv, TypeOK, ListOK
  <2>3. QED
    BY <1>2, <2>1, <2>2, OwnerHeld DEF IInv, ListOK
<1>11. QED
  BY <1>5, <1>6, <1>7, <1>8, <1>9, <1>10 DEF IInv

\* Steps of the owner that change its stage and the list only.
LEMMA StageBlocks ==
  ASSUME IInv, NEW b \in Blocks, NEW s \in Stages \ {"out"}, stage[b] # "out",
         stage' = [stage EXCEPT ![b] = s],
         UNCHANGED <<blockVars, free, data, stored>>, UNCHANGED threadVars
  PROVE  BlocksOK' /\ OwnOK'
<1>1. \A c \in Blocks : stage'[c] = "out" <=> stage[c] = "out"
  BY DEF IInv, TypeOK
<1>2. \A c \in Blocks : /\ In(c, tier[c], ptr[c])' <=> In(c, tier[c], ptr[c])
                        /\ Settled(c)' <=> Settled(c)
  BY DEF In, Settled, blockVars
<1>3. BlocksOK'
  BY <1>1, <1>2, OwnerHeld DEF IInv, BlocksOK, blockVars
<1>4. OwnOK'
  BY OwnerHeld DEF IInv, OwnOK, blockVars
<1>5. QED
  BY <1>3, <1>4

LEMMA StageJobs ==
  ASSUME IInv, NEW b \in Blocks, NEW s \in Stages,
         s = "in" \/ \A t \in Threads : ~ Working(t, b),
         stage' = [stage EXCEPT ![b] = s],
         UNCHANGED <<blockVars, data, stored>>, UNCHANGED threadVars
  PROVE  JobsOK'
<1> SUFFICES ASSUME NEW u \in Threads, pc[u] \notin {"idle", "select", "alloc"}
             PROVE  Spared(u)
  BY OwnerJobs
<1>1. job[u].blk \in Blocks /\ stage[job[u].blk] = "in"
  BY DEF IInv, JobsOK, JobOK
<1>2. stage'[job[u].blk] = "in"
  BY <1>1 DEF IInv, TypeOK, Working
<1>3. QED
  BY <1>1, <1>2 DEF blockVars, Spared

LEMMA ListFine == ASSUME IInv, NEW b \in Blocks, List(b) PROVE IInv'
<1>1. /\ stage[b] = "joining" /\ stage' = [stage EXCEPT ![b] = "in"]
      /\ lru' = Touch(lru, b)
      /\ UNCHANGED <<blockVars, free, data, stored>> /\ UNCHANGED threadVars
  BY DEF List
<1>2. /\ lru' \in Seq(Blocks) /\ NoRepeats(lru')
      /\ \A c \in Blocks : Occurs(lru', c) <=> Occurs(lru, c) \/ c = b
  BY <1>1, TouchIs DEF IInv, TypeOK, ListOK
<1>3. stage'[b] = "in" /\ \A c \in Blocks : c # b => stage'[c] = stage[c]
  BY <1>1 DEF IInv, TypeOK
<1>4. TypeOK'
  BY <1>1, <1>2 DEF IInv, TypeOK, Stages, blockVars, threadVars
<1>5. ExclusionOK' /\ VictimsOK'
  BY <1>1, <1>3 DEF IInv, TypeOK, ExclusionOK, VictimsOK, Active, threadVars
<1>6. BlocksOK' /\ OwnOK' /\ JobsOK'
  BY <1>1, StageBlocks, StageJobs DEF Stages
<1>7. ListOK'
  BY <1>1, <1>2, <1>3, OwnerHeld DEF IInv, ListOK, blockVars
<1>8. QED
  BY <1>4, <1>5, <1>6, <1>7 DEF IInv

LEMMA AccessFine == ASSUME IInv, NEW b \in Blocks, Access(b) PROVE IInv'
<1>1. /\ stage[b] = "in" /\ stage' = stage /\ lru' = Touch(lru, b)
      /\ UNCHANGED <<blockVars, free, data, stored>> /\ UNCHANGED threadVars
  BY DEF Access
<1>2. /\ lru' \in Seq(Blocks) /\ NoRepeats(lru')
      /\ \A c \in Blocks : Occurs(lru', c) <=> Occurs(lru, c) \/ c = b
  BY <1>1, TouchIs DEF IInv, TypeOK, ListOK
<1>3. stage' = [stage EXCEPT ![b] = "in"]
  BY <1>1 DEF IInv, TypeOK
<1>4. TypeOK'
  BY <1>1, <1>2 DEF IInv, TypeOK, blockVars, threadVars
<1>5. ExclusionOK' /\ VictimsOK'
  BY <1>1 DEF IInv, ExclusionOK, VictimsOK, Active, threadVars
<1>6. BlocksOK' /\ OwnOK' /\ JobsOK'
  BY <1>1, <1>3, StageBlocks, StageJobs DEF Stages
<1>7. ListOK'
  BY <1>1, <1>2, OwnerHeld DEF IInv, ListOK, blockVars
<1>8. QED
  BY <1>4, <1>5, <1>6, <1>7 DEF IInv

LEMMA UnregisterFine == ASSUME IInv, Exclusive, NEW b \in Blocks, Unregister(b) PROVE IInv'
<1>1. /\ stage[b] = "in" /\ stage' = [stage EXCEPT ![b] = "leaving"] /\ Idle
      /\ UNCHANGED <<lru, blockVars, free, data, stored>> /\ UNCHANGED threadVars
  BY DEF Unregister
<1>2. stage'[b] = "leaving" /\ \A c \in Blocks : c # b => stage'[c] = stage[c]
  BY <1>1 DEF IInv, TypeOK
<1>3. TypeOK'
  BY <1>1 DEF IInv, TypeOK, Stages, blockVars, threadVars
<1>4. ExclusionOK'
  BY <1>1 DEF ExclusionOK, Active, Idle, threadVars
<1>5. VictimsOK'
  BY <1>1 DEF IInv, VictimsOK, Idle, threadVars
<1>6. \A t \in Threads : ~ Working(t, b)
  BY <1>1 DEF Idle, Working
<1>7. BlocksOK' /\ OwnOK' /\ JobsOK'
  BY <1>1, <1>6, StageBlocks, StageJobs DEF Stages
<1>8. ListOK'
  BY <1>1, <1>2, OwnerHeld DEF IInv, ListOK, blockVars
<1>9. QED
  BY <1>3, <1>4, <1>5, <1>7, <1>8 DEF IInv

LEMMA UnlistFine == ASSUME IInv, NEW b \in Blocks, Unlist(b) PROVE IInv'
<1>1. /\ stage[b] = "leaving" /\ stage' = [stage EXCEPT ![b] = "left"]
      /\ lru' = Without(lru, b)
      /\ UNCHANGED <<blockVars, free, data, stored>> /\ UNCHANGED threadVars
  BY DEF Unlist
<1>2. /\ lru' \in Seq(Blocks) /\ NoRepeats(lru')
      /\ \A c \in Blocks : Occurs(lru', c) <=> Occurs(lru, c) /\ c # b
  BY <1>1, WithoutIs DEF IInv, TypeOK, ListOK
<1>3. stage'[b] = "left" /\ \A c \in Blocks : c # b => stage'[c] = stage[c]
  BY <1>1 DEF IInv, TypeOK
<1>4. TypeOK'
  BY <1>1, <1>2 DEF IInv, TypeOK, Stages, blockVars, threadVars
<1>5. ExclusionOK' /\ VictimsOK'
  BY <1>1, <1>3 DEF IInv, TypeOK, ExclusionOK, VictimsOK, Active, threadVars
<1>6. \A t \in Threads : ~ Working(t, b)
  BY <1>1 DEF IInv, JobsOK, JobOK, Working
<1>7. BlocksOK' /\ OwnOK' /\ JobsOK'
  BY <1>1, <1>6, StageBlocks, StageJobs DEF Stages
<1>8. ListOK'
  BY <1>1, <1>2, <1>3, OwnerHeld DEF IInv, ListOK, blockVars
<1>9. QED
  BY <1>4, <1>5, <1>7, <1>8 DEF IInv

LEMMA DiscardFine == ASSUME IInv, NEW b \in Blocks, Discard(b) PROVE IInv'
<1>1. /\ stage[b] = "left" /\ stage' = [stage EXCEPT ![b] = "out"]
      /\ free' = IF ptr[b] = NoBuf THEN free ELSE [free EXCEPT ![ptr[b]] = @ + 1]
      /\ tier' = [tier EXCEPT ![b] = "NONE"] /\ ptr' = [ptr EXCEPT ![b] = NoBuf]
      /\ state' = [state EXCEPT ![b] = "FREE"] /\ stored' = stored \ {b}
      /\ UNCHANGED <<lru, data>> /\ UNCHANGED threadVars
  BY DEF Discard
<1>2. /\ stage'[b] = "out" /\ ptr'[b] = NoBuf /\ tier'[b] = "NONE"
      /\ \A c \in Blocks : c # b =>
           UNCHANGED <<stage[c], state[c], tier[c], ptr[c]>>
  BY <1>1 DEF IInv, TypeOK
<1>3. ptr[b] # NoBuf => ptr[b] \in Bufs /\ free[ptr[b]] = 0
  BY DEF IInv, TypeOK, OwnOK, Owned
<1>4. TypeOK'
  <2>1. free' \in [Bufs -> 0 .. 1]
    BY <1>1, <1>3 DEF IInv, TypeOK
  <2>2. QED
    BY <1>1, <2>1 DEF IInv, TypeOK, Stages, States, Tiers, threadVars
<1>5. ExclusionOK' /\ VictimsOK'
  BY <1>1, <1>2 DEF IInv, TypeOK, ExclusionOK, VictimsOK, Active, threadVars
<1>6. OwnOK'
  <2>1. Owned(free', ptr', Held)
    <3>1. CASE ptr[b] = NoBuf
      BY <1>1, <1>2, <3>1 DEF IInv, TypeOK, OwnOK, Owned
    <3>2. CASE ptr[b] # NoBuf
      <4>1. free'[ptr[b]] = 1 /\ \A p \in Bufs : p # ptr[b] => free'[p] = free[p]
        BY <1>1, <1>3, <3>2 DEF IInv, TypeOK
      <4>2. NoBuf \notin Held
        BY <1>1, Zenon DEF Held, Holds, LeftOver
      <4>3. QED
        BY <1>2, <1>3, <3>2, <4>1, <4>2 DEF IInv, OwnOK, Owned
    <3>3. QED
      BY <3>1, <3>2
  <2>2. QED
    BY <1>1, <2>1, OwnerHeld DEF OwnOK
<1>7. JobsOK'
  <2> SUFFICES ASSUME NEW u \in Threads, pc[u] \notin {"idle", "select", "alloc"}
               PROVE  Spared(u)
    BY <1>1, OwnerJobs
  <2>1. job[u].blk \in Blocks /\ job[u].blk # b
    BY <1>1 DEF IInv, JobsOK, JobOK
  <2>2. QED
    BY <1>1, <1>2, <2>1 DEF Spared
<1>8. BlocksOK'
  <2> SUFFICES ASSUME NEW c \in Blocks
               PROVE  /\ stage'[c] = "out" => ptr'[c] = NoBuf /\ tier'[c] = "NONE"
                      /\ stage'[c] # "out" => In(c, tier[c], ptr[c])'
                      /\ stage'[c] # "out" /\ (\A u \in Threads : ~ Working(u, c)')
                           => Settled(c)'
    BY DEF BlocksOK
  <2>1. CASE c = b
    BY <1>2, <2>1
  <2>2. CASE c # b
    <3>1. (In(c, tier[c], ptr[c]) => In(c, tier[c], ptr[c])') /\ (Settled(c) => Settled(c)')
      BY <1>1, <1>2, <2>2 DEF In, Settled
    <3>2. QED
      BY <1>1, <1>2, <2>2, <3>1, OwnerHeld DEF IInv, BlocksOK
  <2>3. QED
    BY <2>1, <2>2
<1>9. ListOK'
  <2>1. ~ Occurs(lru, b)
    BY <1>1 DEF IInv, ListOK
  <2>2. QED
    BY <1>1, <1>2, <2>1, OwnerHeld DEF IInv, ListOK
<1>10. QED
  BY <1>4, <1>5, <1>6, <1>7, <1>8, <1>9 DEF IInv

-----------------------------------------------------------------------------
(* tm_schedule_once around the migrations.                                 *)

LEMMA AloneOwn ==
  ASSUME IInv, NEW t \in Threads, Alone(t)
  PROVE  Owned(free, ptr, Holds(t)) /\ (Owned(free', ptr', Holds(t)') => OwnOK')
  BY AloneHeld DEF IInv, OwnOK

LEMMA AfterPhaseIs ==
  ASSUME IInv, NEW t \in Threads, AfterPhase(t)
  PROVE  /\ \E x \in {"select", "idle"} : pc' = [pc EXCEPT ![t] = x]
         /\ pc' \in [Threads -> {"idle", "select", "alloc", "check", "mark", "move", "hop2",
                                 "commit", "lru", "free"}]
         /\ phase' \in [Threads -> {"none", "GPU", "DRAM"}]
         /\ victims' \in [Threads -> Seq(Blocks)] /\ victims'[t] = <<>>
         /\ \A u \in Threads : u # t => victims'[u] = victims[u]
<1>1. victims' = [victims EXCEPT ![t] = <<>>] /\ <<>> \in Seq(Blocks)
  BY DEF AfterPhase
<1>2. victims' \in [Threads -> Seq(Blocks)] /\ victims'[t] = <<>>
      /\ \A u \in Threads : u # t => victims'[u] = victims[u]
  BY <1>1 DEF IInv, TypeOK
<1>3. phase' \in [Threads -> {"none", "GPU", "DRAM"}]
  BY DEF AfterPhase, IInv, TypeOK
<1>4. /\ \E x \in {"select", "idle"} : pc' = [pc EXCEPT ![t] = x]
      /\ pc' \in [Threads -> {"idle", "select", "alloc", "check", "mark", "move", "hop2",
                              "commit", "lru", "free"}]
  BY DEF AfterPhase, IInv, TypeOK
<1>5. QED
  BY <1>2, <1>3, <1>4

\* Steps between two migrations: nothing but the thread's own state changes.
LEMMA QuietFine ==
  ASSUME IInv, NEW t \in Threads, Alone(t), pc[t] \in {"idle", "select", "alloc"},
         pc'[t] \in {"idle", "select", "alloc"},
         UNCHANGED <<lru, blockVars, free, data, stored, job>>,
         TypeOK', VictimsOK'
  PROVE  IInv'
<1>1. ExclusionOK' /\ JobsOK' /\ BlocksOK'
  BY AloneExclusion, AloneJobs, QuietBlocks
<1>2. ListOK'
  BY QuietList DEF blockVars
<1>3. OwnOK'
  <2>1. Holds(t) = {} /\ Holds(t)' = {}
    BY DEF Holds
  <2>2. QED
    BY <2>1, AloneOwn DEF blockVars
<1>4. QED
  BY <1>1, <1>2, <1>3 DEF IInv

LEMMA BeginFine == ASSUME IInv, Exclusive, NEW t \in Threads, Begin(t) PROVE IInv'
<1>1. /\ MayBegin(t) /\ pc[t] = "idle" /\ pc' = [pc EXCEPT ![t] = "select"]
      /\ phase' = [phase EXCEPT ![t] = "GPU"]
      /\ UNCHANGED <<stage, lru, blockVars, free, data, stored, victims, job>>
  BY DEF Begin, MayBegin
<1>2. Alone(t) /\ pc'[t] = "select"
  BY <1>1, IsAlone
<1>3. TypeOK'
  BY <1>1 DEF IInv, TypeOK, blockVars
<1>4. VictimsOK'
  BY <1>1, <1>2, AloneVictims DEF IInv, VictimsOK
<1>5. QED
  BY <1>1, <1>2, <1>3, <1>4, QuietFine

LEMMA SkipFine ==
  ASSUME IInv, Exclusive, NEW t \in Threads, SkipPhase(t) \/ AllocFails(t)
  PROVE  IInv'
<1>1. /\ pc[t] \in {"select", "alloc"} /\ AfterPhase(t)
      /\ UNCHANGED <<stage, lru, blockVars, free, data, stored, job>>
  BY DEF SkipPhase, AllocFails
<1>2. PICK x \in {"select", "idle"} : pc' = [pc EXCEPT ![t] = x]
  BY <1>1, AfterPhaseIs
<1>3. Alone(t) /\ pc'[t] = x
  BY <1>1, <1>2, IsAlone DEF Active
<1>4. TypeOK'
  BY <1>1, AfterPhaseIs DEF IInv, TypeOK, blockVars
<1>5. VictimsOK'
  <2>1. victims'[t] = <<>> /\ \A u \in Threads : u # t => victims'[u] = victims[u]
    BY <1>1, AfterPhaseIs
  <2>2. \A i \in 1 .. Len(victims'[t]) : stage[victims'[t][i]] = "in"
    BY <2>1
  <2>3. QED
    BY <1>3, <2>1, <2>2, AloneVictims
<1>6. QED
  BY <1>1, <1>3, <1>4, <1>5, QuietFine

LEMMA SelectFine == ASSUME IInv, Exclusive, NEW t \in Threads, Select(t) PROVE IInv'
<1>1. /\ pc[t] = "select" /\ pc' = [pc EXCEPT ![t] = "alloc"]
      /\ UNCHANGED <<stage, lru, blockVars, free, data, stored, phase, job>>
      /\ Eligible(phase[t]) # {}
  BY DEF Select
<1>2. PICK s \in Selections(phase[t]) : victims' = [victims EXCEPT ![t] = s]
  BY DEF Select
<1>3. Alone(t) /\ pc'[t] = "alloc"
  BY <1>1, IsAlone DEF Active
<1>4. \A b \in Eligible(phase[t]) : b \in Blocks /\ stage[b] = "in"
  BY <1>3 DEF Eligible, IInv, ListOK, Occurs, Alone
<1>5. s \in Seq(Blocks) /\ s # <<>> /\ \A i \in 1 .. Len(s) : stage[s[i]] = "in"
  <2> DEFINE E == Eligible(phase[t])
             n == IF Cardinality(E) < Batch THEN Cardinality(E) ELSE Batch
  <2>1. IsFiniteSet(E)
    <3>1. E \subseteq Blocks
      BY <1>4
    <3>2. QED
      BY <3>1, FS_Subset
  <2>2. Cardinality(E) \in Nat \ {0}
    BY <1>1, <2>1, FS_CardinalityType, FS_EmptySet
  <2>3. n \in Nat \ {0}
    BY <2>2
  <2>4. s \in [1 .. n -> E]
    BY DEF Selections
  <2> HIDE DEF n, E
  <2>5. s \in [1 .. n -> Blocks] /\ \A i \in 1 .. n : stage[s[i]] = "in"
    BY <1>4, <2>4 DEF E
  <2>6. s \in Seq(Blocks) /\ Len(s) = n
    BY <2>3, <2>5
  <2>7. QED
    BY <2>3, <2>5, <2>6
<1>6. TypeOK'
  BY <1>1, <1>2, <1>5 DEF IInv, TypeOK, blockVars
<1>7. VictimsOK'
  <2>1. victims'[t] = s /\ \A u \in Threads : u # t => victims'[u] = victims[u]
    BY <1>2 DEF IInv, TypeOK
  <2>2. QED
    BY <1>3, <1>5, <2>1, AloneVictims
<1>8. QED
  BY <1>1, <1>3, <1>6, <1>7, QuietFine

\* A buffer for the block, and perhaps one for a stop on the way, leave the
\* free list.
Start(t, b, to, d, i) ==
  /\ stage[b] = "in" /\ to \in {"GPU", "DRAM", "NVM"}
  /\ \/ d \in BufsOf(to) /\ free[d] > 0
     \/ to = "NVM" /\ d = NoBuf
  /\ i \in DramBufs \union {NoBuf}
  /\ i # NoBuf => free[i] > 0 /\ {tier[b], to} = {"GPU", "NVM"}
  /\ free' = [p \in Bufs |-> IF p \in {d, i} THEN free[p] - 1 ELSE free[p]]
  /\ job' = [job EXCEPT ![t] = JobFor(b, to, d, i, ptr[b])]
  /\ pc' = [pc EXCEPT ![t] = "check"]
  /\ UNCHANGED <<lru, blockVars, data, stored, phase, victims>>

LEMMA StartFine ==
  ASSUME IInv, NEW t \in Threads, Alone(t), pc[t] \in {"idle", "alloc"},
         NEW b \in Blocks, NEW to, NEW d, NEW i, Start(t, b, to, d, i)
  PROVE  IInv'
<1> USE DEF Start
<1>1. pc'[t] = "check"
  BY DEF IInv, TypeOK
<1>2. \A u \in Threads, c \in Blocks : ~ Working(u, c)
  BY DEF Working, Alone
<1>3. In(b, tier[b], ptr[b]) /\ Settled(b)
  BY <1>2 DEF IInv, BlocksOK
<1>4. job'[t] = JobFor(b, to, d, i, ptr[b])
  BY DEF IInv, TypeOK
<1>5. (d \in BufsOf(to) \/ (to = "NVM" /\ d = NoBuf)) /\ d \in Bufs \union {NoBuf}
      /\ (d \in Bufs => free[d] > 0)
  BY DEF BufsOf, Bufs
<1>6. TypeOK'
  <2>1. free' \in [Bufs -> 0 .. 1]
    BY <1>5 DEF IInv, TypeOK
  <2>2. job'[t] \in Jobs
    BY <1>4, <1>5 DEF IInv, TypeOK, Jobs, JobFor, Tiers, States, Bufs
  <2>3. job' \in [Threads -> Jobs]
    BY <1>4, <2>2 DEF IInv, TypeOK
  <2>4. pc' \in [Threads -> {"idle", "select", "alloc", "check", "mark", "move", "hop2",
                             "commit", "lru", "free"}]
    BY DEF IInv, TypeOK
  <2>5. QED
    BY <2>1, <2>3, <2>4 DEF IInv, TypeOK, blockVars, Alone
<1>7. ExclusionOK' /\ BlocksOK' /\ ListOK'
  BY AloneExclusion, QuietBlocks, QuietList DEF blockVars
<1>8. VictimsOK'
  BY <1>1, AloneVictims DEF IInv, VictimsOK
<1>9. OwnOK'
  <2>1. Owned(free, ptr, {})
    <3>1. Holds(t) = {}
      BY DEF Holds
    <3>2. QED
      BY <3>1, AloneOwn
  <2>2. Holds(t)' = {d, i} \ {NoBuf}
    BY <1>1, <1>4 DEF Holds, JobFor
  <2>3. \A p \in Bufs : (p \in {d, i} => free[p] = 1 /\ free'[p] = 0)
                        /\ (p \notin {d, i} => free'[p] = free[p])
    BY <1>5 DEF IInv, TypeOK, Bufs
  <2>4. ptr' = ptr /\ {d, i} \ {NoBuf} \subseteq Bufs
    BY <1>5 DEF blockVars, Bufs
  <2>5. \A c \in Blocks : ptr[c] \notin {d, i} \ {NoBuf}
    BY <2>1, <2>3, <2>4 DEF Owned
  <2>6. Owned(free', ptr', {d, i} \ {NoBuf})
    <3>1. ASSUME NEW p \in Tracked
          PROVE  free'[p] = 1 \/ (\E c \in Blocks : ptr'[c] = p) \/ p \in {d, i} \ {NoBuf}
      <4>1. p \in Bufs /\ (free[p] = 1 \/ \E c \in Blocks : ptr[c] = p)
        BY <2>1 DEF Owned
      <4>2. QED
        BY <2>3, <2>4, <4>1
    <3>2. ASSUME NEW p \in Bufs, free'[p] = 1
          PROVE  (\A c \in Blocks : ptr'[c] # p) /\ p \notin {d, i} \ {NoBuf}
      <4>1. p \notin {d, i} /\ free[p] = 1
        BY <2>3, <3>2
      <4>2. \A c \in Blocks : ptr[c] # p
        BY <2>1, <4>1 DEF Owned
      <4>3. QED
        BY <2>4, <4>1, <4>2
    <3>3. \A c, e \in Blocks : ptr'[c] = ptr'[e] /\ ptr'[c] # NoBuf => c = e
      BY <2>1, <2>4 DEF Owned
    <3>4. QED
      BY <2>4, <2>5, <3>1, <3>2, <3>3 DEF Owned
  <2>7. QED
    BY <2>2, <2>6, AloneOwn
<1>10. JobsOK'
  <2>1. /\ job'[t].blk = b /\ job'[t].to = to /\ job'[t].dst = d /\ job'[t].inter = i
        /\ job'[t].old = ptr[b] /\ job'[t].ok = FALSE
    BY <1>4 DEF JobFor
  <2>2. JobOK(t)'
    BY <1>1, <1>3, <1>5, <2>1 DEF JobOK, Settled, blockVars, Alone, BufsOf
  <2>3. QED
    BY <2>2, AloneJobs
<1>11. QED
  BY <1>6, <1>7, <1>8, <1>9, <1>10 DEF IInv

LEMMA AllocFine == ASSUME IInv, Exclusive, NEW t \in Threads, Alloc(t) PROVE IInv'
<1> DEFINE b == Head(victims[t])
           to == IF phase[t] = "GPU" THEN "DRAM" ELSE "NVM"
<1>1. /\ pc[t] = "alloc" /\ pc' = [pc EXCEPT ![t] = "check"]
      /\ UNCHANGED <<stage, lru, blockVars, data, stored, phase, victims>>
  BY DEF Alloc
<1>2. PICK d \in {p \in BufsOf(to) : free[p] > 0} :
        /\ free' = [free EXCEPT ![d] = @ - 1]
        /\ job' = [job EXCEPT ![t] = JobFor(b, to, d, NoBuf, ptr[b])]
  BY DEF Alloc
<1>3. b \in Blocks /\ stage[b] = "in"
  <2>1. victims[t] \in Seq(Blocks) /\ victims[t] # <<>>
    BY <1>1 DEF IInv, TypeOK, VictimsOK
  <2>2. 1 \in 1 .. Len(victims[t]) /\ b = victims[t][1] /\ b \in Blocks
    BY <2>1
  <2>3. QED
    BY <2>2 DEF IInv, VictimsOK
<1>4. Alone(t)
  BY <1>1, IsAlone DEF Active
<1>5. free' = [p \in Bufs |-> IF p \in {d, NoBuf} THEN free[p] - 1 ELSE free[p]]
  <2>1. d \in Bufs \union {NoBuf}
    BY DEF BufsOf, Bufs
  <2>2. QED
    BY <1>2, <2>1 DEF IInv, TypeOK
<1>6. job' = [job EXCEPT ![t] = JobFor(b, to, d, NoBuf, ptr[b])]
  BY <1>2
<1>7. to \in {"GPU", "DRAM", "NVM"} /\ UNCHANGED blockVars /\ UNCHANGED stored
      /\ UNCHANGED <<lru, data, phase, victims>>
  BY <1>1
<1> HIDE DEF b, to
<1>8. Start(t, b, to, d, NoBuf)
  BY <1>1, <1>3, <1>5, <1>6, <1>7 DEF Start
<1>9. QED
  BY <1>1, <1>3, <1>4, <1>8, StartFine

LEMMA DirectFine ==
  ASSUME IInv, Exclusive, NEW t \in Threads, NEW b \in Blocks,
         NEW to \in {"GPU", "DRAM", "NVM"}, Direct(t, b, to)
  PROVE  IInv'
<1> DEFINE hops2 == {tier[b], to} = {"GPU", "NVM"}
<1>1. /\ MayBegin(t) /\ pc[t] = "idle" /\ stage[b] = "in" /\ pc' = [pc EXCEPT ![t] = "check"]
      /\ UNCHANGED <<stage, lru, blockVars, data, stored, phase, victims>>
  BY DEF Direct, MayBegin
<1>2. PICK d \in {p \in BufsOf(to) : free[p] > 0} \union {q \in {NoBuf} : to = "NVM"},
           i \in IF hops2 THEN {p \in DramBufs : free[p] > 0} ELSE {NoBuf} :
        /\ free' = [p \in Bufs |-> IF p \in {d, i} THEN free[p] - 1 ELSE free[p]]
        /\ job' = [job EXCEPT ![t] = JobFor(b, to, d, i, ptr[b])]
  BY DEF Direct
<1>3. Alone(t)
  BY <1>1, IsAlone
<1>4. i \in DramBufs \union {NoBuf} /\ (i # NoBuf => free[i] > 0 /\ hops2)
  BY DEF Bufs
<1> HIDE DEF hops2
<1>5. i # NoBuf => {tier[b], to} = {"GPU", "NVM"}
  BY <1>4 DEF hops2
<1>6. Start(t, b, to, d, i)
  BY <1>1, <1>2, <1>4, <1>5 DEF Start
<1>7. QED
  BY <1>1, <1>3, <1>6, StartFine

-----------------------------------------------------------------------------
(* mig_execute_one.                                                        *)

\* A job with some of its fields set.
LEMMA WithFrom ==
  ASSUME NEW j \in Jobs, NEW x0 \in Tiers,
         NEW r, r = [j EXCEPT !.from = x0]
  PROVE  /\ r \in Jobs
         /\ r.from = x0 /\ r.blk = j.blk /\ r.to = j.to /\ r.dst = j.dst
         /\ r.inter = j.inter /\ r.old = j.old /\ r.saved = j.saved /\ r.savedTier = j.savedTier
         /\ r.savedPtr = j.savedPtr /\ r.ok = j.ok
<1>1. r \in Jobs
  BY DEF Jobs
<1>2. QED
  BY <1>1 DEF Jobs

LEMMA WithSaved ==
  ASSUME NEW j \in Jobs, NEW x0 \in States,
         NEW r, r = [j EXCEPT !.saved = x0]
  PROVE  /\ r \in Jobs
         /\ r.saved = x0 /\ r.blk = j.blk /\ r.from = j.from /\ r.to = j.to
         /\ r.dst = j.dst /\ r.inter = j.inter /\ r.old = j.old /\ r.savedTier = j.savedTier
         /\ r.savedPtr = j.savedPtr /\ r.ok = j.ok
<1>1. r \in Jobs
  BY DEF Jobs
<1>2. QED
  BY <1>1 DEF Jobs

LEMMA WithOk ==
  ASSUME NEW j \in Jobs, NEW x0 \in BOOLEAN,
         NEW r, r = [j EXCEPT !.ok = x0]
  PROVE  /\ r \in Jobs
         /\ r.ok = x0 /\ r.blk = j.blk /\ r.from = j.from /\ r.to = j.to
         /\ r.dst = j.dst /\ r.inter = j.inter /\ r.old = j.old /\ r.saved = j.saved
         /\ r.savedTier = j.savedTier /\ r.savedPtr = j.savedPtr
<1>1. r \in Jobs
  BY DEF Jobs
<1>2. QED
  BY <1>1 DEF Jobs

\* A step of a migration of block b by thread t, before the last free.
Migrates(t, b) ==
  /\ Alone(t) /\ b \in Blocks /\ job[t].blk = b /\ stage[b] = "in"
  /\ pc'[t] \notin {"idle", "select", "alloc"} /\ job'[t].blk = b
  /\ UNCHANGED <<free, phase, victims>>

LEMMA IsMigration ==
  ASSUME IInv, Exclusive, NEW t \in Threads, pc[t] \notin {"idle", "select", "alloc"},
         NEW x, x \notin {"idle", "select", "alloc"}, pc' = [pc EXCEPT ![t] = x],
         job'[t].blk = job[t].blk, UNCHANGED <<stage, free, phase, victims>>
  PROVE  Migrates(t, job[t].blk) /\ pc'[t] = x /\ JobOK(t)
         /\ In(job[t].blk, tier[job[t].blk], ptr[job[t].blk])
<1>1. Alone(t) /\ pc'[t] = x
  BY IsAlone DEF Active
<1>2. JobOK(t)
  BY DEF IInv, JobsOK
<1>3. QED
  BY <1>1, <1>2 DEF Migrates, JobOK, IInv, BlocksOK

\* The parts of the invariant such a step leaves alone.
LEMMA MigrationFrame ==
  ASSUME IInv, NEW t \in Threads, NEW b, Migrates(t, b)
  PROVE  /\ ExclusionOK' /\ VictimsOK'
         /\ JobOK(t)' => JobsOK'
         /\ Others(b) => (In(b, tier[b], ptr[b])' => BlocksOK')
         /\ \A c \in Blocks : ptr[c] \notin Holds(t)
<1>1. ExclusionOK' /\ (JobOK(t)' => JobsOK')
  BY AloneExclusion, AloneJobs DEF Migrates
<1>2. VictimsOK'
  BY AloneVictims DEF IInv, VictimsOK, Migrates
<1>3. ASSUME Others(b), In(b, tier[b], ptr[b])' PROVE BlocksOK'
  <2>1. \A c \in Blocks : c # b => ~ Working(t, c)
    BY DEF Working, Migrates
  <2>2. Working(t, b)' /\ stage[b] # "out"
    BY DEF Working, Migrates
  <2>3. QED
    BY <1>3, <2>1, <2>2, AloneBlocks DEF Migrates
<1>4. \A c \in Blocks : ptr[c] \notin Holds(t)
  BY AloneOwn DEF Owned, Migrates
<1>5. QED
  BY <1>1, <1>2, <1>3, <1>4

LEMMA CheckFine == ASSUME IInv, Exclusive, NEW t \in Threads, Check(t) PROVE IInv'
<1>0. PICK j : j = job[t]
  OBVIOUS
<1>b. PICK b : b = j.blk
  OBVIOUS
<1> USE <1>0, <1>b
<1> DEFINE go == MayMove(b) /\ state[b] # "MIGRATING" /\ Routable(j, tier[b])
<1>1. /\ pc[t] = "check" /\ job' = [job EXCEPT ![t].from = tier[b]]
      /\ pc' = [pc EXCEPT ![t] = IF go THEN "mark" ELSE "free"]
      /\ UNCHANGED <<stage, lru, blockVars, free, data, stored, phase, victims>>
  BY DEF Check
<1>2. /\ job'[t].from = tier[b] /\ job'[t].blk = b /\ job'[t].to = j.to
      /\ job'[t].dst = j.dst /\ job'[t].inter = j.inter /\ job'[t].old = j.old
      /\ job'[t].ok = j.ok /\ job' \in [Threads -> Jobs]
  <2>1. job'[t] = [j EXCEPT !.from = tier[b]] /\ j \in Jobs /\ tier[b] \in Tiers
    BY <1>1 DEF IInv, TypeOK, JobsOK, JobOK
  <2>2. job'[t] \in Jobs
    BY <2>1, WithFrom
  <2>3. job' \in [Threads -> Jobs]
    BY <1>1, <2>2 DEF IInv, TypeOK
  <2>4. QED
    BY <2>1, <2>3, WithFrom
<1>3. /\ Migrates(t, b) /\ pc'[t] = (IF go THEN "mark" ELSE "free")
      /\ JobOK(t) /\ In(b, tier[b], ptr[b])
  <2>1. PICK x \in {"mark", "free"} : x = IF go THEN "mark" ELSE "free"
    OBVIOUS
  <2>2. pc' = [pc EXCEPT ![t] = x]
    BY <1>1, <2>1
  <2> HIDE DEF go
  <2>3. /\ pc[t] \notin {"idle", "select", "alloc"} /\ x \notin {"idle", "select", "alloc"}
        /\ job'[t].blk = job[t].blk /\ UNCHANGED <<stage, free, phase, victims>>
    BY <1>1, <1>2, <2>1
  <2>4. Migrates(t, b) /\ pc'[t] = x /\ JobOK(t) /\ In(b, tier[b], ptr[b])
    BY <2>2, <2>3, IsMigration
  <2>5. QED
    BY <2>1, <2>4
<1>4. TypeOK'
  BY <1>1, <1>2 DEF IInv, TypeOK, blockVars
<1>5. JobOK(t)'
  <2>1. /\ b \in Blocks /\ stage[b] = "in" /\ j.to \in {"GPU", "DRAM", "NVM"}
        /\ j.dst \in BufsOf(j.to) \/ (j.to = "NVM" /\ j.dst = NoBuf)
        /\ j.inter \in DramBufs \union {NoBuf} /\ ~ j.ok /\ j.old = ptr[b] /\ Settled(b)
        /\ j.inter # NoBuf => {tier[b], j.to} = {"GPU", "NVM"}
    BY <1>1, <1>3 DEF JobOK
  <2>2. Settled(b)'
    BY <1>1, <1>2, <2>1 DEF Settled, blockVars
  <2>3. CASE go
    <3>1. Routed(t)' /\ Before(t)'
      BY <1>1, <1>2, <1>3, <2>1, <2>3
         DEF Routed, Before, Routable, TwoHop, MayMove, In, blockVars
    <3>2. QED
      BY <1>1, <1>2, <1>3, <2>1, <2>2, <2>3, <3>1 DEF JobOK, BufsOf
  <2>4. CASE ~ go
    BY <1>1, <1>2, <1>3, <2>1, <2>2, <2>4 DEF JobOK, BufsOf
  <2>5. QED
    BY <2>3, <2>4
<1>6. OwnOK'
  <2>1. Holds(t) = {j.dst, j.inter} \ {NoBuf} /\ ~ j.ok
    BY <1>1, <1>3 DEF Holds, JobOK
  <2>2. Holds(t)' = {j.dst, j.inter} \ {NoBuf}
    BY <1>2, <1>3, <2>1 DEF Holds, LeftOver
  <2>3. QED
    BY <1>1, <1>3, <2>1, <2>2, AloneOwn DEF Migrates, blockVars
<1>7. BlocksOK'
  BY <1>1, <1>2, <1>3, MigrationFrame DEF Others, In, blockVars
<1>8. ListOK'
  BY <1>1, <1>3, QuietList DEF Migrates, blockVars
<1>9. QED
  BY <1>3, <1>4, <1>5, <1>6, <1>7, <1>8, MigrationFrame DEF IInv

LEMMA MarkFine == ASSUME IInv, Exclusive, NEW t \in Threads, Mark(t) PROVE IInv'
<1>0. PICK j : j = job[t]
  OBVIOUS
<1>b. PICK b : b = j.blk
  OBVIOUS
<1> USE <1>0, <1>b
<1>1. /\ pc[t] = "mark" /\ job' = [job EXCEPT ![t].saved = state[b]]
      /\ state' = [state EXCEPT ![b] = "MIGRATING"] /\ pc' = [pc EXCEPT ![t] = "move"]
      /\ UNCHANGED <<stage, lru, tier, ptr, free, data, stored, phase, victims>>
  BY DEF Mark, Saved
<1>2. JobOK(t) /\ b \in Blocks
  BY <1>1 DEF IInv, JobsOK, JobOK
<1>3. /\ job'[t].from = j.from /\ job'[t].blk = b /\ job'[t].to = j.to
      /\ job'[t].dst = j.dst /\ job'[t].inter = j.inter /\ job'[t].old = j.old
      /\ job'[t].ok = j.ok /\ job'[t].saved = state[b] /\ job' \in [Threads -> Jobs]
  <2>1. job'[t] = [j EXCEPT !.saved = state[b]] /\ j \in Jobs /\ state[b] \in States
    BY <1>1, <1>2 DEF IInv, TypeOK
  <2>2. job'[t] \in Jobs
    BY <2>1, WithSaved
  <2>3. job' \in [Threads -> Jobs]
    BY <1>1, <2>2 DEF IInv, TypeOK
  <2>4. QED
    BY <2>1, <2>3, WithSaved
<1>4. Migrates(t, b) /\ pc'[t] = "move" /\ In(b, tier[b], ptr[b])
  BY <1>1, <1>3, IsMigration
<1>5. TypeOK'
  BY <1>1, <1>3 DEF IInv, TypeOK, States
<1>6. JobOK(t)'
  <2>1. Routed(t)' /\ Before(t)'
    BY <1>1, <1>2, <1>3 DEF JobOK, Routed, Before, TwoHop
  <2>2. state'[b] = "MIGRATING" /\ job'[t].saved = SettledIn(j.from)
    BY <1>1, <1>2, <1>3 DEF JobOK, Before, Settled, IInv, TypeOK
  <2>3. QED
    BY <1>1, <1>2, <1>3, <1>4, <2>1, <2>2 DEF JobOK, BufsOf, Migrates
<1>7. OwnOK'
  <2>1. Holds(t) = {j.dst, j.inter} \ {NoBuf} /\ Holds(t)' = {j.dst, j.inter} \ {NoBuf}
    BY <1>1, <1>3, <1>4 DEF Holds
  <2>2. QED
    BY <1>1, <1>4, <2>1, AloneOwn DEF Migrates
<1>8. BlocksOK'
  <2>1. Others(b) /\ In(b, tier[b], ptr[b])'
    BY <1>1, <1>2, <1>3, <1>4 DEF Others, In, IInv, TypeOK
  <2>2. QED
    BY <1>4, <2>1, MigrationFrame
<1>9. ListOK'
  BY <1>1, <1>4, QuietList DEF Migrates
<1>10. QED
  BY <1>4, <1>5, <1>6, <1>7, <1>8, <1>9, MigrationFrame DEF IInv

\* A transfer finds the block's data where its tier and data_ptr say, and a
\* buffer in the thread's hands is no block's data_ptr.
LEMMA SourceIs ==
  ASSUME IInv, NEW t \in Threads, NEW b, Migrates(t, b)
  PROVE  /\ b \in Blocks
         /\ IF tier[b] = "NVM" THEN b \in stored ELSE ptr[b] # NoBuf /\ data[ptr[b]] = b
         /\ \A c \in Blocks : ptr[c] \notin Holds(t)
<1>1. b \in Blocks /\ In(b, tier[b], ptr[b]) /\ NoBuf \notin Bufs
  BY DEF Migrates, IInv, BlocksOK
<1>2. \A c \in Blocks : ptr[c] \notin Holds(t)
  BY MigrationFrame
<1>3. QED
  BY <1>1, <1>2 DEF In

LEMMA MoveFine == ASSUME IInv, Exclusive, NEW t \in Threads, Move(t) PROVE IInv'
<1>0. PICK j : j = job[t]
  OBVIOUS
<1>b. PICK b : b = j.blk
  OBVIOUS
<1> USE <1>0, <1>b
<1>1. /\ pc[t] = "move" /\ ~ TwoHop(j) /\ Transfer(b, j.from, j.to, j.dst)
      /\ pc' = [pc EXCEPT ![t] = "commit"]
      /\ UNCHANGED <<stage, lru, blockVars, free, phase, victims, job>>
  BY DEF Move
<1>2. Migrates(t, b) /\ pc'[t] = "commit" /\ JobOK(t) /\ In(b, tier[b], ptr[b])
  BY <1>1, IsMigration
<1>3. /\ Routed(t) /\ Before(t) /\ j.inter = NoBuf /\ b \in Blocks
      /\ j.dst \in BufsOf(j.to) \/ (j.to = "NVM" /\ j.dst = NoBuf)
      /\ j.to \in {"GPU", "DRAM", "NVM"}
  BY <1>1, <1>2 DEF JobOK, Routed
<1>4. Holds(t) = {j.dst} \ {NoBuf} /\ Holds(t)' = {j.dst} \ {NoBuf}
  BY <1>1, <1>2, <1>3 DEF Holds, TwoHop
<1>5. j.dst = NoBuf \/ (j.dst \in Bufs /\ j.dst \in Holds(t))
  BY <1>3, <1>4 DEF BufsOf, Bufs
<1>6. /\ data' \in [Bufs -> Blocks \union {NoBlock}] /\ stored' \subseteq Blocks
      /\ j.to = "NVM" => b \in stored'
      /\ j.dst # NoBuf => data'[j.dst] = b
      /\ stored \subseteq stored'
      /\ \A p \in Bufs : p # j.dst => data'[p] = data[p]
      /\ \A c \in Blocks : ptr[c] # j.dst \/ j.dst = NoBuf
  <2>1. Transfer(b, tier[b], j.to, j.dst)
    BY <1>1, <1>3 DEF Before
  <2>2. /\ data' = [p \in Bufs |-> IF p = j.dst THEN b ELSE data[p]]
        /\ stored' = IF j.to = "NVM" THEN stored \union {b} ELSE stored
    <3>1. IF tier[b] = "NVM" THEN b \in stored ELSE ptr[b] # NoBuf /\ data[ptr[b]] = b
      BY <1>2, SourceIs
    <3>2. QED
      BY <1>2, <2>1, <3>1 DEF Transfer
  <2>3. \A c \in Blocks : ptr[c] \notin Holds(t)
    BY <1>2, SourceIs
  <2>4. QED
    BY <1>3, <1>5, <2>2, <2>3 DEF IInv, TypeOK
<1>7. TypeOK'
  BY <1>1, <1>6 DEF IInv, TypeOK, blockVars
<1>8. OwnOK'
  BY <1>1, <1>2, <1>4, AloneOwn DEF Migrates, blockVars
<1>9. Others(b) /\ In(b, tier[b], ptr[b])'
  BY <1>1, <1>2, <1>3, <1>6 DEF Others, In, blockVars
<1>10. JobOK(t)'
  <2>1. In(b, j.to, PtrAfter(j))'
    BY <1>1, <1>3, <1>5, <1>6 DEF In, PtrAfter, BufsOf
  <2>2. Routed(t)' /\ Before(t)' /\ ~ TwoHop(j)'
    BY <1>1, <1>3 DEF Routed, Before, TwoHop, blockVars
  <2>3. QED
    BY <1>1, <1>2, <2>1, <2>2 DEF JobOK, BufsOf, blockVars
<1>11. ListOK'
  BY <1>1, <1>2, QuietList DEF Migrates, blockVars
<1>12. QED
  BY <1>2, <1>7, <1>8, <1>9, <1>10, <1>11, MigrationFrame DEF IInv

LEMMA FirstHopFine == ASSUME IInv, Exclusive, NEW t \in Threads, FirstHop(t) PROVE IInv'
<1>0. PICK j : j = job[t]
  OBVIOUS
<1>b. PICK b : b = j.blk
  OBVIOUS
<1> USE <1>0, <1>b
<1>1. /\ pc[t] = "move" /\ TwoHop(j) /\ Transfer(b, j.from, "DRAM", j.inter)
      /\ tier' = [tier EXCEPT ![b] = "DRAM"] /\ ptr' = [ptr EXCEPT ![b] = j.inter]
      /\ job' = [job EXCEPT ![t].savedTier = tier[b], ![t].savedPtr = ptr[b]]
      /\ pc' = [pc EXCEPT ![t] = "hop2"]
      /\ UNCHANGED <<stage, lru, state, free, phase, victims>>
  BY DEF FirstHop
<1>2. JobOK(t) /\ b \in Blocks /\ Routed(t) /\ Before(t) /\ j.inter # NoBuf
      /\ j.inter \in DramBufs /\ j.to \in {"GPU", "NVM"} /\ j.from \in {"GPU", "NVM"}
      /\ j.dst \in IF j.to = "NVM" THEN NvmBufs \union {NoBuf} ELSE GpuBufs
  <2>1. JobOK(t)
    BY <1>1 DEF IInv, JobsOK
  <2>2. b \in Blocks /\ Routed(t) /\ Before(t) /\ j.inter # NoBuf /\ j.inter \in DramBufs
    BY <1>1, <2>1 DEF JobOK, Routed
  <2>3. j.to \in {"GPU", "NVM"} /\ j.from \in {"GPU", "NVM"}
    BY <1>1 DEF TwoHop
  <2>4. QED
    BY <2>1, <2>2, <2>3 DEF JobOK, BufsOf
<1>3. /\ job'[t].from = j.from /\ job'[t].blk = b /\ job'[t].to = j.to
      /\ job'[t].dst = j.dst /\ job'[t].inter = j.inter /\ job'[t].old = j.old
      /\ job'[t].ok = j.ok /\ job'[t].saved = j.saved
      /\ job'[t].savedTier = tier[b] /\ job'[t].savedPtr = ptr[b]
      /\ job' \in [Threads -> Jobs]
  <2>1. /\ job'[t] = [j EXCEPT !.savedTier = tier[b], !.savedPtr = ptr[b]]
        /\ j \in Jobs /\ tier[b] \in Tiers /\ ptr[b] \in Bufs \union {NoBuf}
    BY <1>1, <1>2 DEF IInv, TypeOK
  <2>2. job'[t] \in Jobs
    BY <2>1 DEF Jobs
  <2>3. job' \in [Threads -> Jobs]
    BY <1>1, <2>2 DEF IInv, TypeOK
  <2>4. QED
    BY <2>1, <2>3 DEF Jobs
<1>4. Migrates(t, b) /\ pc'[t] = "hop2" /\ In(b, tier[b], ptr[b])
  BY <1>1, <1>3, IsMigration
<1>5. /\ tier'[b] = "DRAM" /\ ptr'[b] = j.inter
      /\ \A c \in Blocks : c # b => tier'[c] = tier[c] /\ ptr'[c] = ptr[c]
  BY <1>1, <1>2 DEF IInv, TypeOK
<1>6. Holds(t) = {j.dst, j.inter} \ {NoBuf} /\ Holds(t)' = {j.dst, ptr[b]} \ {NoBuf}
  <2>1. TwoHop(job'[t])
    BY <1>1, <1>3 DEF TwoHop
  <2>2. QED
    BY <1>1, <1>3, <1>4, <2>1 DEF Holds
<1>7. /\ data' \in [Bufs -> Blocks \union {NoBlock}] /\ stored' \subseteq Blocks
      /\ data'[j.inter] = b /\ stored \subseteq stored'
      /\ \A p \in Bufs : p # j.inter => data'[p] = data[p]
      /\ \A c \in Blocks : ptr[c] # j.inter
  <2>1. j.inter \in Bufs /\ j.inter \in Holds(t) /\ tier[b] = j.from
    BY <1>2, <1>6 DEF Before, Bufs
  <2>2. IInv /\ Transfer(b, tier[b], "DRAM", j.inter)
    BY <1>1, <2>1
  <2>3. /\ data' = [p \in Bufs |-> IF p = j.inter THEN b ELSE data[p]]
        /\ stored' = stored
    <3>1. IF tier[b] = "NVM" THEN b \in stored ELSE ptr[b] # NoBuf /\ data[ptr[b]] = b
      BY <1>4, SourceIs
    <3>2. QED
      BY <1>4, <2>2, <3>1 DEF Transfer
  <2>4. \A c \in Blocks : ptr[c] \notin Holds(t)
    BY <1>4, SourceIs
  <2>5. QED
    BY <1>2, <2>1, <2>3, <2>4 DEF IInv, TypeOK
<1>8. TypeOK'
  BY <1>1, <1>2, <1>3, <1>7 DEF IInv, TypeOK, Tiers, Bufs
<1>9. OwnOK'
  <2>1. Owned(free, ptr, {j.dst, j.inter} \ {NoBuf})
    BY <1>4, <1>6, AloneOwn DEF Migrates
  <2>2. j.dst # j.inter /\ j.inter \in Bufs
    BY <1>2 DEF Bufs
  <2>3. Owned(free, ptr', {j.dst, ptr[b]} \ {NoBuf})
    <3>1. ptr[b] # j.inter /\ (ptr[b] # j.dst \/ ptr[b] = NoBuf)
      BY <1>2, <1>7, <2>1 DEF Owned
    <3>2. \A p \in Tracked : free[p] = 1 \/ (\E c \in Blocks : ptr'[c] = p)
                          \/ p \in {j.dst, ptr[b]} \ {NoBuf}
      BY <1>2, <1>5, <2>1 DEF Owned
    <3>3. \A p \in Bufs : free[p] = 1 => (\A c \in Blocks : ptr'[c] # p)
                                         /\ p \notin {j.dst, ptr[b]} \ {NoBuf}
      BY <1>2, <1>5, <2>1, <2>2 DEF Owned
    <3>4. \A c, d \in Blocks : ptr'[c] = ptr'[d] /\ ptr'[c] # NoBuf => c = d
      BY <1>5, <1>7, <2>1 DEF Owned
    <3>5. \A c \in Blocks : ptr'[c] \notin {j.dst, ptr[b]} \ {NoBuf}
      BY <1>2, <1>5, <2>1, <2>2, <3>1 DEF Owned
    <3>6. QED
      BY <3>2, <3>3, <3>4, <3>5 DEF Owned
  <2>4. QED
    BY <1>1, <1>4, <1>6, <2>3, AloneOwn DEF Migrates
<1>10. Others(b) /\ In(b, tier[b], ptr[b])'
  BY <1>1, <1>2, <1>5, <1>7 DEF Others, In, Bufs
<1>11. JobOK(t)'
  <2>1. In(b, j.from, j.old)'
    BY <1>2, <1>4, <1>7 DEF In, Before
  <2>2. Routed(t)' /\ TwoHop(job'[t])
    BY <1>1, <1>2, <1>3 DEF Routed, TwoHop
  <2>3. Halfway(t)'
    BY <1>2, <1>3, <1>5, <2>1 DEF Halfway, Before, In
  <2>4. QED
    BY <1>1, <1>2, <1>3, <1>4, <2>2, <2>3 DEF JobOK, BufsOf, Migrates
<1>12. ListOK'
  <2>1. Occurs(lru, b) \/ Unlisted(t, b)'
    <3>1. Occurs(lru, b) \/ tier[b] = "NVM"
      BY <1>1, <1>4 DEF IInv, ListOK, Unlisted, Migrates, Alone
    <3>2. QED
      BY <1>2, <1>3, <1>4, <3>1 DEF Before, Unlisted
  <2>2. QED
    BY <1>1, <1>2, <1>4, <1>5, <2>1, BusyList DEF Migrates
<1>13. QED
  BY <1>4, <1>8, <1>9, <1>10, <1>11, <1>12, MigrationFrame DEF IInv

\* What the first hop left.
LEMMA AtHalfway ==
  ASSUME IInv, NEW t \in Threads, JobOK(t), TwoHop(job[t]), pc[t] \in {"hop2", "commit"},
         NEW j, j = job[t], NEW b, b = j.blk
  PROVE  /\ Routed(t) /\ Halfway(t) /\ j.inter # NoBuf /\ j.inter \in DramBufs
         /\ j.to \in {"GPU", "NVM"} /\ j.from \in {"GPU", "NVM"} /\ j.from # j.to
         /\ j.dst \in IF j.to = "NVM" THEN NvmBufs \union {NoBuf} ELSE GpuBufs
         /\ tier[b] = "DRAM" /\ ptr[b] = j.inter /\ In(b, j.from, j.old)
         /\ Holds(t) = {j.dst, j.old} \ {NoBuf}
         /\ j.old = j.dst => j.old = NoBuf
<1>1. Routed(t) /\ Halfway(t)
  BY DEF JobOK
<1>2. /\ j.inter # NoBuf /\ j.inter \in DramBufs /\ j.from # j.to
      /\ tier[b] = "DRAM" /\ ptr[b] = j.inter /\ In(b, j.from, j.old) /\ j.savedPtr = j.old
  BY <1>1 DEF JobOK, Routed, Halfway
<1>3. j.to \in {"GPU", "NVM"} /\ j.from \in {"GPU", "NVM"}
  BY DEF TwoHop
<1>4. j.dst \in IF j.to = "NVM" THEN NvmBufs \union {NoBuf} ELSE GpuBufs
  BY <1>3 DEF JobOK, BufsOf
<1>5. Holds(t) = {j.dst, j.old} \ {NoBuf}
  BY <1>2 DEF Holds
<1>6. j.old = j.dst => j.old = NoBuf
  BY <1>2, <1>3, <1>4 DEF In
<1>7. QED
  BY <1>1, <1>2, <1>3, <1>4, <1>5, <1>6

LEMMA SecondHopFine == ASSUME IInv, Exclusive, NEW t \in Threads, SecondHop(t) PROVE IInv'
<1>0. PICK j : j = job[t]
  OBVIOUS
<1>b. PICK b : b = j.blk
  OBVIOUS
<1> USE <1>0, <1>b
<1>1. /\ pc[t] = "hop2" /\ Transfer(b, "DRAM", j.to, j.dst) /\ pc' = [pc EXCEPT ![t] = "commit"]
      /\ UNCHANGED <<stage, lru, blockVars, free, phase, victims, job>>
  BY DEF SecondHop
<1>2. Migrates(t, b) /\ pc'[t] = "commit" /\ JobOK(t) /\ In(b, tier[b], ptr[b])
  BY <1>1, IsMigration
<1>3. TwoHop(j)
  BY <1>1, <1>2 DEF JobOK
<1>4. /\ Routed(t) /\ Halfway(t) /\ j.from # j.to /\ tier[b] = "DRAM" /\ In(b, j.from, j.old)
      /\ j.to \in {"GPU", "NVM"} /\ j.from \in {"GPU", "NVM"} /\ ptr[b] = j.inter
      /\ j.dst \in IF j.to = "NVM" THEN NvmBufs \union {NoBuf} ELSE GpuBufs
      /\ Holds(t) = {j.dst, j.old} \ {NoBuf}
      /\ j.old = j.dst => j.old = NoBuf
  BY <1>1, <1>2, <1>3, AtHalfway
<1>5. j.dst = NoBuf \/ (j.dst \in Bufs /\ j.dst \in Holds(t))
  BY <1>4 DEF Bufs
<1>6. /\ data' \in [Bufs -> Blocks \union {NoBlock}] /\ stored' \subseteq Blocks
      /\ j.to = "NVM" => b \in stored'
      /\ j.dst # NoBuf => data'[j.dst] = b
      /\ stored \subseteq stored'
      /\ \A p \in Bufs : p # j.dst => data'[p] = data[p]
      /\ \A c \in Blocks : ptr[c] # j.dst \/ j.dst = NoBuf
  <2>1. /\ data' = [p \in Bufs |-> IF p = j.dst THEN b ELSE data[p]]
        /\ stored' = IF j.to = "NVM" THEN stored \union {b} ELSE stored
    <3>1. IF tier[b] = "NVM" THEN b \in stored ELSE ptr[b] # NoBuf /\ data[ptr[b]] = b
      BY <1>2, SourceIs
    <3>2. QED
      BY <1>1, <1>2, <1>4, <3>1 DEF Transfer
  <2>2. b \in Blocks /\ \A c \in Blocks : ptr[c] \notin Holds(t)
    BY <1>2, SourceIs
  <2>3. QED
    BY <1>5, <2>1, <2>2 DEF IInv, TypeOK
<1>7. TypeOK'
  BY <1>1, <1>6 DEF IInv, TypeOK, blockVars
<1>8. OwnOK'
  <2>1. Holds(t)' = Holds(t)
    BY <1>1, <1>2 DEF Holds
  <2>2. QED
    BY <1>1, <1>2, <2>1, AloneOwn DEF Migrates, blockVars
<1>9. Others(b) /\ In(b, tier[b], ptr[b])'
  <2>1. Others(b)
    BY <1>1, <1>6 DEF Others, In, blockVars
  <2>2. In(b, tier[b], ptr[b])'
    BY <1>1, <1>2, <1>4, <1>6 DEF In, blockVars, Migrates
  <2>3. QED
    BY <2>1, <2>2
<1>10. JobOK(t)'
  <2>1. In(b, j.to, PtrAfter(j))'
    BY <1>4, <1>6 DEF In, PtrAfter
  <2>2. In(b, j.from, j.old)'
    BY <1>4, <1>6 DEF In
  <2>3. Routed(t)' /\ TwoHop(j)' /\ Halfway(t)'
    <3>1. Routed(t)' /\ TwoHop(j)'
      BY <1>1, <1>3, <1>4 DEF Routed, TwoHop
    <3>2. Halfway(t)'
      BY <1>1, <1>4, <2>2 DEF Halfway, blockVars
    <3>3. QED
      BY <3>1, <3>2
  <2>4. QED
    BY <1>1, <1>2, <2>1, <2>3 DEF JobOK, BufsOf, blockVars
<1>11. ListOK'
  <2>1. Occurs(lru, b) \/ Unlisted(t, b)'
    <3>1. Occurs(lru, b) \/ Unlisted(t, b)
      BY <1>1, <1>2, <1>4 DEF IInv, ListOK, Unlisted, Migrates, Alone
    <3>2. QED
      BY <1>1, <1>2, <3>1 DEF Unlisted
  <2>2. QED
    BY <1>1, <1>2, <2>1, BusyList DEF Migrates, blockVars
<1>12. QED
  BY <1>2, <1>7, <1>8, <1>9, <1>10, <1>11, MigrationFrame DEF IInv

\* A block takes one of the buffers in the thread's hands in place of its own,
\* which the thread takes; the thread may have lost one for storage.
LEMMA Swap ==
  ASSUME NEW H, Owned(free, ptr, H), NEW b \in Blocks, NEW new, NEW gone,
         ptr' = [ptr EXCEPT ![b] = new], ptr \in [Blocks -> Bufs \union {NoBuf}],
         NoBuf \notin Bufs, NoBuf \notin H,
         new # NoBuf => new \in H /\ gone = new,
         gone \in NvmBufs \union {new}
  PROVE  Owned(free, ptr', (H \ {gone}) \cup ({ptr[b]} \ {NoBuf}))
<1> DEFINE G == (H \ {gone}) \cup ({ptr[b]} \ {NoBuf})
<1>1. ptr'[b] = new /\ \A c \in Blocks : c # b => ptr'[c] = ptr[c]
  OBVIOUS
<1>2. /\ \A p \in Tracked : free[p] = 1 \/ (\E c \in Blocks : ptr[c] = p) \/ p \in H
      /\ \A p \in Bufs : free[p] = 1 => (\A c \in Blocks : ptr[c] # p) /\ p \notin H
      /\ \A c, d \in Blocks : ptr[c] = ptr[d] /\ ptr[c] # NoBuf => c = d
      /\ \A c \in Blocks : ptr[c] \notin H
  BY DEF Owned
<1>3. ASSUME NEW p \in Tracked PROVE free[p] = 1 \/ (\E c \in Blocks : ptr'[c] = p) \/ p \in G
  <2>1. CASE \E c \in Blocks : ptr[c] = p
    BY <1>1, <2>1
  <2>2. CASE p \in H
    BY <1>1, <2>2
  <2>3. QED
    BY <1>2, <2>1, <2>2
<1>4. ASSUME NEW p \in Bufs, free[p] = 1
      PROVE  (\A c \in Blocks : ptr'[c] # p) /\ p \notin G
  BY <1>1, <1>2, <1>4
<1>5. ASSUME NEW c \in Blocks, NEW d \in Blocks, ptr'[c] = ptr'[d], ptr'[c] # NoBuf
      PROVE  c = d
  BY <1>1, <1>2, <1>5
<1>6. ASSUME NEW c \in Blocks PROVE ptr'[c] \notin G
  <2>1. CASE c = b
    BY <1>1, <1>2, <2>1
  <2>2. CASE c # b
    BY <1>1, <1>2, <2>2
  <2>3. QED
    BY <2>1, <2>2
<1>7. QED
  BY <1>3, <1>4, <1>5, <1>6 DEF Owned

LEMMA MoveFailsFine == ASSUME IInv, Exclusive, NEW t \in Threads, MoveFails(t) PROVE IInv'
<1>0. PICK j : j = job[t]
  OBVIOUS
<1>b. PICK b : b = j.blk
  OBVIOUS
<1> USE <1>0, <1>b
<1>1. /\ pc[t] \in {"move", "hop2"} /\ state' = [state EXCEPT ![b] = j.saved]
      /\ pc' = [pc EXCEPT ![t] = "free"]
      /\ UNCHANGED <<stage, lru, free, data, stored, phase, victims, job>>
  BY DEF MoveFails
<1>2. Migrates(t, b) /\ pc'[t] = "free" /\ JobOK(t) /\ In(b, tier[b], ptr[b])
  BY <1>1, IsMigration
<1>3. b \in Blocks /\ j.saved = SettledIn(j.from) /\ ~ j.ok /\ j \in Jobs
  BY <1>1, <1>2 DEF JobOK, IInv, TypeOK
<1>4. Holds(t)' = {j.inter, j.dst} \ {NoBuf}
  BY <1>1, <1>2, <1>3 DEF Holds, LeftOver
<1>5. /\ tier' \in [Blocks -> Tiers] /\ ptr' \in [Blocks -> Bufs \union {NoBuf}]
      /\ tier'[b] = j.from /\ In(b, j.from, ptr'[b]) /\ OwnOK'
      /\ \A c \in Blocks : c # b => tier'[c] = tier[c] /\ ptr'[c] = ptr[c]
      /\ Occurs(lru, b) \/ tier'[b] = "NVM"
  <2>1. CASE pc[t] = "move"
    <3>1. tier' = tier /\ ptr' = ptr /\ tier[b] = j.from
      BY <1>2, <2>1 DEF MoveFails, JobOK, Before
    <3>2. Holds(t) = {j.inter, j.dst} \ {NoBuf}
      BY <2>1 DEF Holds
    <3>3. OwnOK'
      BY <1>1, <1>2, <1>4, <3>1, <3>2, AloneOwn DEF Migrates
    <3>4. Occurs(lru, b) \/ tier'[b] = "NVM"
      BY <1>2, <2>1, <3>1 DEF IInv, ListOK, Unlisted, Migrates, Alone
    <3>5. QED
      BY <1>2, <3>1, <3>3, <3>4 DEF IInv, TypeOK
  <2>2. CASE pc[t] = "hop2"
    <3>1. TwoHop(j)
      BY <1>2, <2>2 DEF JobOK
    <3>2. /\ Halfway(t) /\ j.from \in {"GPU", "NVM"} /\ tier[b] = "DRAM" /\ ptr[b] = j.inter
          /\ In(b, j.from, j.old) /\ Holds(t) = {j.dst, j.old} \ {NoBuf}
          /\ j.inter # NoBuf /\ (j.old = j.dst => j.old = NoBuf)
      BY <1>2, <2>2, <3>1, AtHalfway
    <3>3. tier' = [tier EXCEPT ![b] = j.from] /\ ptr' = [ptr EXCEPT ![b] = j.old]
      BY <2>2, <3>2 DEF MoveFails, PtrRestored, Halfway
    <3>4. /\ tier' \in [Blocks -> Tiers] /\ ptr' \in [Blocks -> Bufs \union {NoBuf}]
          /\ tier'[b] = j.from /\ ptr'[b] = j.old
          /\ \A c \in Blocks : c # b => tier'[c] = tier[c] /\ ptr'[c] = ptr[c]
      BY <1>3, <3>2, <3>3, JobTypes DEF IInv, TypeOK, Tiers
    <3>5. OwnOK'
      <4>1. Owned(free, ptr, {j.dst, j.old} \ {NoBuf})
        BY <1>2, <3>2, AloneOwn DEF Migrates
      <4>2. {j.inter, j.dst} \ {NoBuf}
              = (({j.dst, j.old} \ {NoBuf}) \ {j.old}) \cup ({ptr[b]} \ {NoBuf})
        BY <3>2
      <4>3. NoBuf \notin Bufs /\ ptr \in [Blocks -> Bufs \union {NoBuf}]
        BY DEF IInv, TypeOK
      <4>4. ptr' = [ptr EXCEPT ![b] = j.old] /\ b \in Blocks
            /\ (j.old # NoBuf => j.old \in {j.dst, j.old} \ {NoBuf})
        BY <1>3, <3>3
      <4>5. Owned(free, ptr', {j.inter, j.dst} \ {NoBuf})
        <5>1. j.old \in NvmBufs \union {j.old} /\ NoBuf \notin {j.dst, j.old} \ {NoBuf}
          OBVIOUS
        <5>2. Owned(free, ptr',
                    (({j.dst, j.old} \ {NoBuf}) \ {j.old}) \cup ({ptr[b]} \ {NoBuf}))
          BY ONLY <4>1, <4>3, <4>4, <5>1, Swap
        <5>3. QED
          BY <4>2, <5>2
      <4>6. QED
        BY <1>1, <1>2, <1>4, <4>5, AloneOwn DEF Migrates
    <3>6. Occurs(lru, b) \/ tier'[b] = "NVM"
      <4>1. Occurs(lru, b) \/ j.from = "NVM"
        BY <1>2, <2>2, <3>2 DEF IInv, ListOK, Unlisted, Migrates, Alone
      <4>2. QED
        BY <3>4, <4>1
    <3>7. QED
      BY <3>2, <3>4, <3>5, <3>6
  <2>3. QED
    BY <1>1, <2>1, <2>2
<1>6. TypeOK'
  BY <1>1, <1>3, <1>5, JobTypes DEF IInv, TypeOK
<1>7. Others(b) /\ In(b, tier[b], ptr[b])'
  BY <1>1, <1>5 DEF Others, In, IInv, TypeOK
<1>8. JobOK(t)'
  <2>1. Settled(b)'
    BY <1>1, <1>3, <1>5 DEF Settled, IInv, TypeOK
  <2>2. QED
    BY <1>1, <1>2, <2>1 DEF JobOK, BufsOf, Migrates
<1>9. ListOK'
  BY <1>1, <1>2, <1>5, BusyList DEF Migrates
<1>10. QED
  BY <1>2, <1>5, <1>6, <1>7, <1>8, <1>9, MigrationFrame DEF IInv

LEMMA CommitFine == ASSUME IInv, Exclusive, NEW t \in Threads, Commit(t) PROVE IInv'
<1>0. PICK j : j = job[t]
  OBVIOUS
<1>b. PICK b : b = j.blk
  OBVIOUS
<1> USE <1>0, <1>b
<1>1. /\ pc[t] = "commit" /\ tier' = [tier EXCEPT ![b] = j.to]
      /\ ptr' = [ptr EXCEPT ![b] = PtrAfter(j)]
      /\ state' = [state EXCEPT ![b] = SettledIn(j.to)] /\ pc' = [pc EXCEPT ![t] = "lru"]
      /\ UNCHANGED <<stage, lru, free, data, stored, phase, victims, job>>
  BY DEF Commit
<1>2. Migrates(t, b) /\ pc'[t] = "lru" /\ JobOK(t) /\ In(b, tier[b], ptr[b])
  BY <1>1, IsMigration
<1>3. /\ b \in Blocks /\ j.to \in {"GPU", "DRAM", "NVM"} /\ j \in Jobs /\ ~ j.ok
      /\ In(b, j.to, PtrAfter(j)) /\ Routed(t)
      /\ PtrAfter(j) \in Bufs \union {NoBuf}
      /\ PtrAfter(j) # NoBuf => PtrAfter(j) = j.dst
      /\ j.dst \in NvmBufs \union {PtrAfter(j)}
  BY <1>1, <1>2, JobTypes DEF JobOK, IInv, TypeOK, PtrAfter, BufsOf
<1>4. /\ tier'[b] = j.to /\ ptr'[b] = PtrAfter(j) /\ state'[b] = SettledIn(j.to)
      /\ \A c \in Blocks : c # b =>
           tier'[c] = tier[c] /\ ptr'[c] = ptr[c] /\ state'[c] = state[c]
  BY <1>1, <1>3 DEF IInv, TypeOK
<1>5. TypeOK'
  <2>1. SettledIn(j.to) \in States /\ j.to \in Tiers
    BY <1>3 DEF SettledIn, States, Tiers
  <2>2. QED
    BY <1>1, <1>3, <2>1 DEF IInv, TypeOK
<1>6. OwnOK'
  <2>1. Holds(t)' = {j.inter, j.old} \ {NoBuf}
    BY <1>1, <1>2 DEF Holds
  <2>2. NoBuf \notin Bufs /\ ptr \in [Blocks -> Bufs \union {NoBuf}]
    BY DEF IInv, TypeOK
  <2>3. CASE TwoHop(j)
    <3>1. /\ ptr[b] = j.inter /\ Holds(t) = {j.dst, j.old} \ {NoBuf}
          /\ j.old = j.dst => j.old = NoBuf
      BY <1>1, <1>2, <2>3, AtHalfway
    <3>2. Owned(free, ptr, {j.dst, j.old} \ {NoBuf})
      BY <1>2, <3>1, AloneOwn DEF Migrates
    <3>3. {j.inter, j.old} \ {NoBuf}
            = (({j.dst, j.old} \ {NoBuf}) \ {j.dst}) \cup ({ptr[b]} \ {NoBuf})
      BY <3>1
    <3>4. PtrAfter(j) # NoBuf => PtrAfter(j) \in {j.dst, j.old} \ {NoBuf} /\ j.dst = PtrAfter(j)
      BY <1>3
    <3>5. Owned(free, ptr', {j.inter, j.old} \ {NoBuf})
      <4>1. Owned(free, ptr',
                  (({j.dst, j.old} \ {NoBuf}) \ {j.dst}) \cup ({ptr[b]} \ {NoBuf}))
        <5>1. NoBuf \notin {j.dst, j.old} \ {NoBuf}
          OBVIOUS
        <5>2. QED
          BY ONLY <1>1, <1>3, <2>2, <3>2, <3>4, <5>1, Swap
      <4>2. QED
        BY <3>3, <4>1
    <3>6. QED
      BY <1>1, <1>2, <2>1, <3>5, AloneOwn DEF Migrates
  <2>4. CASE ~ TwoHop(j)
    <3>1. Before(t) /\ j.inter = NoBuf /\ ptr[b] = j.old
      BY <1>1, <1>2, <1>3, <2>4 DEF JobOK, Routed, Before
    <3>2. Holds(t) = {j.dst} \ {NoBuf}
      BY <1>1, <2>4 DEF Holds
    <3>3. Owned(free, ptr, {j.dst} \ {NoBuf})
      BY <1>2, <3>2, AloneOwn DEF Migrates
    <3>4. {j.inter, j.old} \ {NoBuf}
            = (({j.dst} \ {NoBuf}) \ {j.dst}) \cup ({ptr[b]} \ {NoBuf})
      BY <3>1
    <3>5. PtrAfter(j) # NoBuf => PtrAfter(j) \in {j.dst} \ {NoBuf} /\ j.dst = PtrAfter(j)
      BY <1>3
    <3>6. Owned(free, ptr', {j.inter, j.old} \ {NoBuf})
      <4>1. Owned(free, ptr', (({j.dst} \ {NoBuf}) \ {j.dst}) \cup ({ptr[b]} \ {NoBuf}))
        <5>1. NoBuf \notin {j.dst} \ {NoBuf}
          OBVIOUS
        <5>2. QED
          BY ONLY <1>1, <1>3, <2>2, <3>3, <3>5, <5>1, Swap
      <4>2. QED
        BY <3>4, <4>1
    <3>7. QED
      BY <1>1, <1>2, <2>1, <3>6, AloneOwn DEF Migrates
  <2>5. QED
    BY <2>3, <2>4
<1>7. Others(b) /\ In(b, tier[b], ptr[b])'
  BY <1>1, <1>3, <1>4 DEF Others, In
<1>8. JobOK(t)'
  <2>1. Settled(b)'
    BY <1>1, <1>4 DEF Settled
  <2>2. QED
    BY <1>1, <1>2, <1>4, <2>1 DEF JobOK, BufsOf, Migrates
<1>9. ListOK'
  <2>1. Unlisted(t, b)'
    BY <1>1, <1>2 DEF Unlisted
  <2>2. QED
    BY <1>1, <1>2, <1>4, <2>1, BusyList DEF Migrates
<1>10. QED
  BY <1>2, <1>5, <1>6, <1>7, <1>8, <1>9, MigrationFrame DEF IInv

LEMMA RelistFine == ASSUME IInv, Exclusive, NEW t \in Threads, Relist(t) PROVE IInv'
<1>0. PICK j : j = job[t]
  OBVIOUS
<1>b. PICK b : b = j.blk
  OBVIOUS
<1> USE <1>0, <1>b
<1>1. /\ pc[t] = "lru" /\ lru' = Relisted(lru, b, j.to)
      /\ job' = [job EXCEPT ![t].ok = TRUE] /\ pc' = [pc EXCEPT ![t] = "free"]
      /\ UNCHANGED <<stage, blockVars, free, data, stored, phase, victims>>
  BY DEF Relist
<1>2. /\ job'[t].blk = b /\ job'[t].to = j.to /\ job'[t].dst = j.dst
      /\ job'[t].inter = j.inter /\ job'[t].old = j.old /\ job'[t].ok = TRUE
      /\ job' \in [Threads -> Jobs]
  <2>1. job'[t] = [j EXCEPT !.ok = TRUE] /\ j \in Jobs
    BY <1>1 DEF IInv, TypeOK
  <2>2. job'[t] \in Jobs
    BY <2>1, WithOk
  <2>3. job' \in [Threads -> Jobs]
    BY <1>1, <2>2 DEF IInv, TypeOK
  <2>4. QED
    BY <2>1, <2>3, WithOk
<1>3. Migrates(t, b) /\ pc'[t] = "free" /\ JobOK(t) /\ In(b, tier[b], ptr[b])
  BY <1>1, <1>2, IsMigration
<1>4. b \in Blocks /\ tier[b] = j.to /\ Settled(b) /\ stage[b] = "in"
  BY <1>1, <1>3 DEF JobOK
<1>5. /\ lru' \in Seq(Blocks) /\ NoRepeats(lru')
      /\ \A c \in Blocks : c # b => (Occurs(lru', c) <=> Occurs(lru, c))
      /\ Occurs(lru', b) \/ j.to = "NVM"
  <2>1. lru \in Seq(Blocks) /\ NoRepeats(lru)
    BY DEF IInv, TypeOK, ListOK
  <2>2. CASE j.to = "NVM"
    BY <1>1, <2>1, <2>2, WithoutIs DEF Relisted
  <2>3. CASE j.to # "NVM"
    BY <1>1, <1>4, <2>1, <2>3, TouchIs DEF Relisted
  <2>4. QED
    BY <2>2, <2>3
<1>6. TypeOK'
  BY <1>1, <1>2, <1>5 DEF IInv, TypeOK, blockVars
<1>7. OwnOK'
  <2>1. Holds(t) = {j.inter, j.old} \ {NoBuf} /\ Holds(t)' = {j.inter, j.old} \ {NoBuf}
    BY <1>1, <1>2, <1>3 DEF Holds, LeftOver
  <2>2. QED
    BY <1>1, <1>3, <2>1, AloneOwn DEF Migrates, blockVars
<1>8. Others(b) /\ In(b, tier[b], ptr[b])'
  BY <1>1, <1>3 DEF Others, In, blockVars
<1>9. JobOK(t)'
  BY <1>1, <1>2, <1>3, <1>4 DEF JobOK, BufsOf, Settled, blockVars
<1>10. ListOK'
  <2>1. \A u \in Threads, c \in Blocks : c # b => ~ Unlisted(u, c)
    BY <1>3 DEF Unlisted, Alone, Migrates
  <2>2. UNCHANGED <<stage, tier>>
    BY <1>1 DEF blockVars
  <2>3. \A c \in Blocks : stage[c] = "in" => Occurs(lru', c) \/ tier[c] = "NVM"
    BY <1>4, <1>5, <2>1 DEF IInv, ListOK
  <2>4. \A c \in Blocks : Occurs(lru', c) => stage[c] \in {"in", "leaving"}
    BY <1>4, <1>5 DEF IInv, ListOK
  <2>5. QED
    BY <1>5, <2>2, <2>3, <2>4 DEF ListOK
<1>11. QED
  BY <1>3, <1>6, <1>7, <1>8, <1>9, <1>10, MigrationFrame DEF IInv

\* A sequence of more than one member has a tail that is not empty.
LEMMA NonEmpty ==
  ASSUME NEW S, NEW s \in Seq(S), Len(s) # 0
  PROVE  s # <<>>
BY EmptySeq
LEMMA TailNonEmpty ==
  ASSUME NEW S, NEW s \in Seq(S), Len(s) > 1
  PROVE  Tail(s) # <<>>
<1>1. s # <<>>
  OBVIOUS
<1>2. Tail(s) \in Seq(S) /\ Len(Tail(s)) = Len(s) - 1
  BY <1>1, HeadTailProperties
<1>3. Len(s) \in Nat
  BY LenProperties
<1>4. Len(s) - 1 # 0
  <2>1. \A n \in Nat : n > 1 => n - 1 # 0
    OBVIOUS
  <2>2. QED
    BY <1>3, <2>1, Zenon
<1>5. Len(Tail(s)) # 0
  BY <1>2, <1>4, Zenon
<1>6. QED
  BY <1>2, <1>5, NonEmpty

LEMMA FreeFine == ASSUME IInv, Exclusive, NEW t \in Threads, Free(t) PROVE IInv'
<1>0. PICK b : b = job[t].blk
  OBVIOUS
<1>1. /\ pc[t] = "free" /\ job' = [job EXCEPT ![t] = NoJob]
      /\ free' = [p \in Bufs |-> IF p \in LeftOver(job[t]) THEN free[p] + 1 ELSE free[p]]
      /\ UNCHANGED <<stage, lru, blockVars, data, stored>>
      /\ IF Len(victims[t]) > 1
         THEN /\ victims' = [victims EXCEPT ![t] = Tail(victims[t])]
              /\ pc' = [pc EXCEPT ![t] = "alloc"] /\ UNCHANGED phase
         ELSE AfterPhase(t)
  BY DEF Free
<1>2. JobOK(t) /\ b \in Blocks /\ stage[b] = "in" /\ Settled(b)
  BY <1>0, <1>1 DEF IInv, JobsOK, JobOK
<1>3. PICK x \in {"alloc", "select", "idle"} : pc' = [pc EXCEPT ![t] = x]
  BY <1>1, AfterPhaseIs
<1>4. Alone(t) /\ pc'[t] = x
  BY <1>1, <1>3, IsAlone DEF Active
<1>5. /\ victims' \in [Threads -> Seq(Blocks)] /\ phase' \in [Threads -> {"none", "GPU", "DRAM"}]
      /\ VictimsOK'
  <2>1. CASE Len(victims[t]) > 1
    <3>1. victims[t] \in Seq(Blocks)
      BY DEF IInv, TypeOK
    <3>2. /\ Tail(victims[t]) \in Seq(Blocks) /\ Tail(victims[t]) # <<>>
          /\ Len(Tail(victims[t])) = Len(victims[t]) - 1
          /\ \A i \in 1 .. Len(Tail(victims[t])) :
               i + 1 \in 1 .. Len(victims[t]) /\ Tail(victims[t])[i] = victims[t][i + 1]
      <4>1. victims[t] # <<>> /\ Len(victims[t]) \in Nat
        BY <2>1, <3>1
      <4>2. /\ Tail(victims[t]) \in Seq(Blocks)
            /\ Len(Tail(victims[t])) = Len(victims[t]) - 1
            /\ \A i \in 1 .. Len(Tail(victims[t])) : Tail(victims[t])[i] = victims[t][i + 1]
        BY <3>1, <4>1, HeadTailProperties
      <4>3. Tail(victims[t]) # <<>>
        BY <2>1, <3>1, TailNonEmpty
      <4>4. \A i \in 1 .. Len(Tail(victims[t])) : i + 1 \in 1 .. Len(victims[t])
        BY <4>1, <4>2
      <4>5. QED
        BY <4>2, <4>3, <4>4
    <3>3. /\ victims' = [victims EXCEPT ![t] = Tail(victims[t])]
          /\ pc' = [pc EXCEPT ![t] = "alloc"] /\ phase' = phase
      BY <1>1, <2>1
    <3>4. victims' \in [Threads -> Seq(Blocks)]
      BY <3>2, <3>3 DEF IInv, TypeOK
    <3>5. victims'[t] = Tail(victims[t]) /\ \A u \in Threads : u # t => victims'[u] = victims[u]
      BY <3>3 DEF IInv, TypeOK
    <3>6. \A i \in 1 .. Len(victims'[t]) : stage[victims'[t][i]] = "in"
      BY <3>2, <3>5 DEF IInv, VictimsOK
    <3>7. pc'[t] = "alloc"
      BY <3>3 DEF IInv, TypeOK
    <3>8. VictimsOK'
      BY <1>4, <3>2, <3>5, <3>6, <3>7, AloneVictims
    <3>9. QED
      BY <3>3, <3>4, <3>8 DEF IInv, TypeOK
  <2>2. CASE ~ (Len(victims[t]) > 1)
    <3>1. AfterPhase(t)
      BY <1>1, <2>2
    <3>2. /\ \E y \in {"select", "idle"} : pc' = [pc EXCEPT ![t] = y]
          /\ phase' \in [Threads -> {"none", "GPU", "DRAM"}]
          /\ victims' \in [Threads -> Seq(Blocks)] /\ victims'[t] = <<>>
          /\ \A u \in Threads : u # t => victims'[u] = victims[u]
      BY <3>1, AfterPhaseIs
    <3>3. pc'[t] # "alloc"
      BY <3>2 DEF IInv, TypeOK
    <3>4. \A i \in 1 .. Len(victims'[t]) : stage[victims'[t][i]] = "in"
      BY <3>2
    <3>5. VictimsOK'
      BY <1>4, <3>2, <3>3, <3>4, AloneVictims
    <3>6. QED
      BY <3>2, <3>5
  <2>3. QED
    BY <2>1, <2>2
<1>6. Holds(t) = LeftOver(job[t]) /\ Holds(t)' = {}
  BY <1>1, <1>4 DEF Holds, LeftOver
<1>7. Owned(free, ptr, LeftOver(job[t]))
  BY <1>4, <1>6, AloneOwn
<1>8. free' \in [Bufs -> 0 .. 1]
  <2>1. free \in [Bufs -> 0 .. 1]
    BY DEF IInv, TypeOK
  <2>2. LeftOver(job[t]) \subseteq LeftOver(job[t])
    OBVIOUS
  <2>3. [p \in Bufs |-> IF p \in LeftOver(job[t]) THEN free[p] + 1 ELSE free[p]]
          \in [Bufs -> 0 .. 1]
    BY ONLY <1>7, <2>1, <2>2, Frees
  <2>4. QED
    BY <1>1, <2>3
<1>9. TypeOK'
  <2>1. job' \in [Threads -> Jobs] /\ pc' \in [Threads -> {"idle", "select", "alloc", "check",
          "mark", "move", "hop2", "commit", "lru", "free"}]
    BY <1>1, <1>3, JobTypes DEF IInv, TypeOK
  <2>2. QED
    BY <1>1, <1>5, <1>8, <2>1 DEF IInv, TypeOK, blockVars
<1>10. OwnOK'
  <2>1. Owned(free', ptr, {})
    <3>1. \A p \in Bufs : free[p] \in 0 .. 1
                          /\ free'[p] = IF p \in LeftOver(job[t]) THEN free[p] + 1 ELSE free[p]
      BY <1>1 DEF IInv, TypeOK
    <3>2. QED
      BY <1>7, <3>1 DEF Owned
  <2>2. QED
    BY <1>1, <1>4, <1>6, <2>1, AloneOwn DEF blockVars
<1>11. ExclusionOK' /\ JobsOK'
  BY <1>4, AloneExclusion, AloneJobs
<1>12. BlocksOK'
  <2>1. Others(b) /\ In(b, tier[b], ptr[b])' /\ Settled(b)'
    <3>1. In(b, tier[b], ptr[b])
      BY <1>2 DEF IInv, BlocksOK
    <3>2. QED
      BY <1>1, <1>2, <3>1 DEF Others, In, Settled, blockVars
  <2>2. \A c \in Blocks : c # b => ~ Working(t, c)
    BY <1>0 DEF Working
  <2>3. QED
    BY <1>2, <1>4, <2>1, <2>2, AloneBlocks
<1>13. ListOK'
  BY <1>1, <1>4, QuietList DEF blockVars
<1>14. QED
  BY <1>5, <1>9, <1>10, <1>11, <1>12, <1>13 DEF IInv

-----------------------------------------------------------------------------
(* The invariant and the theorems.                                         *)

LEMMA InitFine == ASSUME Init PROVE IInv
<1>1. TypeOK
  BY JobTypes DEF Init, TypeOK, Stages, States, Tiers
<1>2. ExclusionOK /\ VictimsOK /\ JobsOK /\ BlocksOK
  BY DEF Init, ExclusionOK, VictimsOK, JobsOK, BlocksOK, Active
<1>3. OwnOK
  <2>1. Held = {}
    BY DEF Init, Held, Holds
  <2>2. NoBuf \notin Bufs
    OBVIOUS
  <2>3. QED
    BY <2>1, <2>2 DEF Init, OwnOK, Owned
<1>4. ListOK
  BY DEF Init, ListOK, NoRepeats, Occurs
<1>5. QED
  BY <1>1, <1>2, <1>3, <1>4 DEF IInv

LEMMA NextFine == ASSUME IInv, Exclusive, [Next]_vars PROVE IInv'
<1>1. ASSUME NEW b \in Blocks, \/ Register(b) \/ List(b) \/ Access(b)
                               \/ Unregister(b) \/ Unlist(b) \/ Discard(b)
      PROVE  IInv'
  BY <1>1, RegisterFine, ListFine, AccessFine, UnregisterFine, UnlistFine, DiscardFine
<1>2. ASSUME NEW t \in Threads, \/ Begin(t) \/ Select(t) \/ SkipPhase(t) \/ Alloc(t)
                                \/ AllocFails(t)
      PROVE  IInv'
  BY <1>2, BeginFine, SelectFine, SkipFine, AllocFine
<1>3. ASSUME NEW t \in Threads, Execute(t) PROVE IInv'
  BY <1>3, CheckFine, MarkFine, MoveFine, FirstHopFine, SecondHopFine, MoveFailsFine,
     CommitFine, RelistFine, FreeFine DEF Execute
<1>4. ASSUME NEW t \in Threads, NEW b \in Blocks, NEW to \in {"GPU", "DRAM", "NVM"},
             Direct(t, b, to)
      PROVE  IInv'
  BY <1>4, DirectFine
<1>5. CASE UNCHANGED vars
  <2>1. /\ Held' = Held /\ UNCHANGED <<free, ptr>>
        /\ \A t \in Threads, b \in Blocks : (Working(t, b)' <=> Working(t, b))
        /\ \A t \in Threads, b \in Blocks : (Unlisted(t, b)' <=> Unlisted(t, b))
    BY <1>5, OwnerHeld DEF vars, threadVars
  <2>2. \A t \in Threads : JobOK(t)' <=> JobOK(t)
    BY <1>5 DEF vars, JobOK, Routed, Before, Halfway, Settled, In, TwoHop
  <2>3. TypeOK' /\ ExclusionOK' /\ VictimsOK' /\ OwnOK' /\ JobsOK'
    BY <1>5, <2>1, <2>2
       DEF vars, IInv, TypeOK, ExclusionOK, VictimsOK, OwnOK, JobsOK, Active
  <2>4. BlocksOK' /\ ListOK'
    BY <1>5, <2>1 DEF vars, IInv, BlocksOK, ListOK, In, Settled
  <2>5. QED
    BY <2>3, <2>4 DEF IInv
<1>6. QED
  BY <1>1, <1>2, <1>3, <1>4, <1>5 DEF Next

LEMMA SpecFine == ASSUME Exclusive PROVE Spec => []IInv
<1>1. Init => IInv
  BY InitFine
<1>2. IInv /\ [Next]_vars => IInv'
  BY NextFine
<1>3. QED
  BY <1>1, <1>2, PTL DEF Spec

\* Type correctness (TypeOK): no buffer comes to be on the free list twice.
THEOREM ManagerTypeCorrect == ASSUME Exclusive PROVE Spec => []TypeOK
<1>1. IInv => TypeOK
  BY DEF IInv
<1>2. QED
  BY <1>1, SpecFine, PTL

\* A set with one element at most.
LEMMA AtMostOne ==
  ASSUME NEW S, \A x, y \in S : x = y
  PROVE  /\ S = {} => Cardinality(S) = 0
         /\ S # {} => Cardinality(S) = 1
<1>1. S = {} => Cardinality(S) = 0
  BY FS_EmptySet
<1>2. ASSUME S # {} PROVE Cardinality(S) = 1
  <2>1. PICK x : x \in S
    BY <1>2
  <2>2. S = {x}
    BY <2>1
  <2>3. QED
    BY <2>2, FS_Singleton
<1>3. QED
  BY <1>1, <1>2

\* No buffer has two owners, and every buffer of the GPU or of the host has one,
\* the free list, a block or a thread: migrations free none that is in use and
\* lose none of these (BufferOwnership).
THEOREM BuffersKept == ASSUME Exclusive PROVE Spec => []BufferOwnership
<1>1. IInv => BufferOwnership
  <2> SUFFICES ASSUME IInv, NEW p \in Bufs
               PROVE  Owners(p) <= 1 /\ (p \notin NvmBufs => Owners(p) = 1)
    BY DEF BufferOwnership
  <2> DEFINE B == {b \in Blocks : ptr[b] = p}
             T == {t \in Threads : p \in Holds(t)}
  <2>1. /\ p \notin NvmBufs => free[p] = 1 \/ B # {} \/ T # {}
        /\ free[p] = 1 => B = {} /\ T = {}
        /\ B # {} => T = {}
        /\ \A b, c \in B : b = c
        /\ free[p] \in 0 .. 1
    <3>1. p \in Held <=> T # {}
      BY DEF Held
    <3>2. p # NoBuf
      OBVIOUS
    <3>3. QED
      BY <3>1, <3>2 DEF IInv, TypeOK, OwnOK, Owned
  <2>2. \A t, u \in T : t = u
    <3>1. \A t \in T : Active(t)
      BY HoldsIs DEF Active
    <3>2. QED
      BY <3>1 DEF IInv, ExclusionOK
  <2> HIDE DEF B, T
  <2>3. /\ B = {} => Cardinality(B) = 0
        /\ B # {} => Cardinality(B) = 1
    BY <2>1, AtMostOne
  <2>4. /\ T = {} => Cardinality(T) = 0
        /\ T # {} => Cardinality(T) = 1
    BY <2>2, AtMostOne
  <2>5. LET n == free[p] + Cardinality(B) + Cardinality(T)
        IN  n <= 1 /\ (p \notin NvmBufs => n = 1)
    BY <2>1, <2>3, <2>4
  <2>6. QED
    BY <2>5 DEF B, T, Owners
<1>2. QED
  BY <1>1, SpecFine, PTL

\* The LRU list holds each block once, none that is not registered, and every
\* block that could be a victim (LruListed).
THEOREM VictimsListed == ASSUME Exclusive PROVE Spec => []LruListed
<1>1. IInv => LruListed
  <2> SUFFICES ASSUME IInv PROVE LruListed
    OBVIOUS
  <2>1. \A i \in 1 .. Len(lru) : lru[i] \in Blocks
    BY DEF IInv, TypeOK
  <2>2. \A i \in 1 .. Len(lru) : stage[lru[i]] \in {"in", "leaving"}
    BY <2>1 DEF IInv, ListOK, Occurs
  <2>3. \A t \in Threads, b \in Blocks : Unlisted(t, b) => Working(t, b)
    BY DEF Unlisted, Working
  <2>4. QED
    BY <2>2, <2>3 DEF IInv, ListOK, NoRepeats, Occurs, LruListed
<1>2. QED
  BY <1>1, SpecFine, PTL

\* A block's data is where its tier and data_ptr say in every state of a
\* migration, also of one that fails between two hops (Readable).
THEOREM BlocksReadable == ASSUME Exclusive PROVE Spec => []Readable
<1>1. IInv => Readable
  <2> SUFFICES ASSUME IInv, NEW b \in Blocks, stage[b] # "out"
               PROVE  /\ IF tier[b] = "NVM" THEN b \in stored
                         ELSE ptr[b] # NoBuf /\ data[ptr[b]] = b
                      /\ (\A t \in Threads : ~Working(t, b)) => state[b] = SettledIn(tier[b])
    BY DEF Readable
  <2>1. In(b, tier[b], ptr[b])
    BY DEF IInv, BlocksOK
  <2>2. (\A t \in Threads : ~Working(t, b)) => state[b] = SettledIn(tier[b])
    BY DEF IInv, BlocksOK, Settled
  <2>3. NoBuf \notin Bufs
    OBVIOUS
  <2>4. QED
    BY <2>1, <2>2, <2>3 DEF In
<1>2. QED
  BY <1>1, SpecFine, PTL

-----------------------------------------------------------------------------
(* Migrations are steps from home to home.                                 *)

Home == [b \in Blocks |-> HomeOf(b)]

\* Block b is between two hops: its home is the one it came from.
Away(t, b) == pc[t] \in {"hop2", "commit"} /\ job[t].blk = b /\ TwoHop(job[t])
HomesOK ==
  \A b \in Blocks : /\ \A t \in Threads : Away(t, b) => HomeOf(b) = job[t].from
                    /\ (\A t \in Threads : ~ Away(t, b)) => HomeOf(b) = tier[b]

LEMMA HomesFine == ASSUME IInv PROVE HomesOK
<1> SUFFICES ASSUME NEW b \in Blocks
             PROVE  /\ \A t \in Threads : Away(t, b) => HomeOf(b) = job[t].from
                    /\ (\A t \in Threads : ~ Away(t, b)) => HomeOf(b) = tier[b]
  BY DEF HomesOK
<1>1. ASSUME NEW t \in Threads, Away(t, b) PROVE HomeOf(b) = job[t].from
  <2> DEFINE Movers == {u \in Threads : pc[u] \in {"hop2", "commit"} /\ job[u].blk = b}
             u == CHOOSE u \in Threads : pc[u] \in {"hop2", "commit"} /\ job[u].blk = b
  <2>1. t \in Movers
    BY <1>1 DEF Away
  <2>2. u \in Movers
    BY <2>1
  <2>3. u = t
    BY <2>1, <2>2 DEF IInv, ExclusionOK, Active
  <2>4. HomeOf(b) = job[u].savedTier
    BY <1>1 DEF HomeOf, Away
  <2>5. job[t].savedTier = job[t].from
    BY <1>1 DEF Away, IInv, JobsOK, JobOK, Halfway
  <2>6. QED
    BY <2>3, <2>4, <2>5
<1>2. ASSUME \A t \in Threads : ~ Away(t, b) PROVE HomeOf(b) = tier[b]
  BY <1>2 DEF HomeOf, Away
<1>3. QED
  BY <1>1, <1>2

\* A step that leaves the homes of all blocks, and one that changes b's.
LEMMA SameHomes ==
  ASSUME HomesOK, HomesOK',
         \A t \in Threads, b \in Blocks :
           (Away(t, b)' <=> Away(t, b)) /\ (Away(t, b) => job'[t].from = job[t].from),
         \A b \in Blocks : (\A t \in Threads : ~ Away(t, b)) => tier'[b] = tier[b]
  PROVE  \A b \in Blocks : HomeOf(b)' = HomeOf(b)
  BY DEF HomesOK

LEMMA OtherHomes ==
  ASSUME HomesOK, HomesOK', NEW b,
         \A t \in Threads, c \in Blocks : c # b => ~ Away(t, c) /\ ~ Away(t, c)',
         \A c \in Blocks : c # b => tier'[c] = tier[c]
  PROVE  \A c \in Blocks : c # b => HomeOf(c)' = HomeOf(c)
  BY DEF HomesOK

LEMMA OwnerHomes ==
  ASSUME IInv, HomesOK, HomesOK', NEW b \in Blocks,
         \/ Register(b) \/ List(b) \/ Access(b) \/ Unregister(b) \/ Unlist(b) \/ Discard(b)
  PROVE  [Moves!Next]_Home
<1>1. UNCHANGED threadVars /\ \A t \in Threads, c \in Blocks : (Away(t, c)' <=> Away(t, c))
  <2>1. UNCHANGED threadVars
    BY DEF Register, List, Access, Unregister, Unlist, Discard
  <2>2. QED
    BY <2>1 DEF threadVars, Away, TwoHop
<1>2. CASE List(b) \/ Access(b) \/ Unregister(b) \/ Unlist(b)
  <2>1. tier' = tier
    BY <1>2 DEF List, Access, Unregister, Unlist, blockVars
  <2>2. \A c \in Blocks : HomeOf(c)' = HomeOf(c)
    BY <1>1, <2>1, SameHomes DEF threadVars
  <2>3. QED
    BY <2>2 DEF Home
<1>3. ASSUME NEW t \in Tiers, stage[b] \in {"out", "left"}, tier' = [tier EXCEPT ![b] = t]
      PROVE  HomeOf(b) = tier[b] /\ Home' = [Home EXCEPT ![b] = t]
  <2>1. \A u \in Threads : ~ Away(u, b)
    BY <1>3 DEF Away, IInv, JobsOK, JobOK
  <2>2. HomeOf(b) = tier[b] /\ HomeOf(b)' = t
    BY <1>1, <1>3, <2>1 DEF HomesOK, IInv, TypeOK
  <2>3. ASSUME NEW c \in Blocks, c # b PROVE HomeOf(c)' = HomeOf(c)
    <3>1. tier'[c] = tier[c]
      BY <1>3, <2>3 DEF IInv, TypeOK
    <3>2. QED
      BY <1>1, <3>1 DEF HomesOK, threadVars
  <2>4. QED
    BY <2>2, <2>3 DEF Home
<1>4. CASE Register(b)
  <2>1. PICK t \in {"GPU", "DRAM"} : tier' = [tier EXCEPT ![b] = t]
    BY <1>4 DEF Register
  <2>2. stage[b] = "out" /\ tier[b] = "NONE"
    BY <1>4 DEF Register, IInv, BlocksOK
  <2>3. Home[b] = "NONE" /\ Home' = [Home EXCEPT ![b] = t]
    BY <1>3, <2>1, <2>2 DEF Home, Tiers
  <2>4. Moves!Arrive(b)
    BY <2>3 DEF Moves!Arrive, Home
  <2>5. QED
    BY <2>4 DEF Moves!Next
<1>5. CASE Discard(b)
  <2>1. stage[b] = "left" /\ tier' = [tier EXCEPT ![b] = "NONE"]
    BY <1>5 DEF Discard
  <2>2. tier[b] # "NONE"
    BY <2>1 DEF IInv, BlocksOK, In
  <2>3. Home[b] # "NONE" /\ Home' = [Home EXCEPT ![b] = "NONE"]
    BY <1>3, <2>1, <2>2 DEF Home, Tiers
  <2>4. Moves!Leave(b)
    BY <2>3 DEF Moves!Leave, Home
  <2>5. QED
    BY <2>4 DEF Moves!Next
<1>6. QED
  BY <1>2, <1>4, <1>5

\* Steps on the way to a migration and after its commit.
LEMMA QuietHomes ==
  ASSUME HomesOK, HomesOK', NEW t \in Threads, Alone(t), UNCHANGED tier,
         pc[t] \notin {"hop2", "commit"}, pc'[t] \notin {"hop2", "commit"} \/ ~ TwoHop(job'[t])
  PROVE  \A b \in Blocks : HomeOf(b)' = HomeOf(b)
<1>1. \A u \in Threads, b \in Blocks : ~ Away(u, b) /\ ~ Away(u, b)'
  BY DEF Away, Alone
<1>2. QED
  BY <1>1 DEF HomesOK

LEMMA ThreadHomes ==
  ASSUME IInv, Exclusive, HomesOK, HomesOK', NEW t \in Threads,
         \/ Begin(t) \/ Select(t) \/ SkipPhase(t) \/ Alloc(t) \/ AllocFails(t)
         \/ Check(t) \/ Mark(t) \/ Move(t) \/ Relist(t) \/ Free(t)
         \/ \E b \in Blocks, to \in {"GPU", "DRAM", "NVM"} : Direct(t, b, to)
  PROVE  \A b \in Blocks : HomeOf(b)' = HomeOf(b)
<1>1. UNCHANGED <<stage, tier>> /\ pc[t] \notin {"hop2", "commit"}
      /\ (Active(t) \/ MayBegin(t))
  <2>1. CASE Begin(t) \/ \E b \in Blocks, to \in {"GPU", "DRAM", "NVM"} : Direct(t, b, to)
    <3>1. UNCHANGED <<stage, tier>> /\ MayBegin(t)
      BY <2>1 DEF Begin, Direct, blockVars
    <3>2. QED
      BY <3>1 DEF MayBegin
  <2>2. CASE Select(t) \/ SkipPhase(t)
    BY <2>2 DEF Select, SkipPhase, blockVars, Active
  <2>3. CASE Alloc(t) \/ AllocFails(t)
    <3>1. UNCHANGED <<stage, tier>> /\ pc[t] = "alloc"
      BY <2>3 DEF Alloc, AllocFails, blockVars
    <3>2. QED
      BY <3>1 DEF Active
  <2>4. CASE Check(t) \/ Mark(t)
    <3>1. UNCHANGED <<stage, tier>> /\ pc[t] \in {"check", "mark"}
      BY <2>4 DEF Check, Mark, blockVars
    <3>2. QED
      BY <3>1 DEF Active
  <2>5. CASE Move(t)
    <3>1. UNCHANGED <<stage, tier>> /\ pc[t] = "move"
      BY <2>5 DEF Move, blockVars
    <3>2. QED
      BY <3>1 DEF Active
  <2>6. CASE Relist(t) \/ Free(t)
    <3>1. UNCHANGED <<stage, tier>> /\ pc[t] \in {"lru", "free"}
      BY <2>6 DEF Relist, Free, blockVars
    <3>2. QED
      BY <3>1 DEF Active
  <2>7. QED
    BY <2>1, <2>2, <2>3, <2>4, <2>5, <2>6
<1>2. /\ \E x : pc' = [pc EXCEPT ![t] = x]
      /\ pc'[t] \notin {"hop2", "commit"} \/ ~ TwoHop(job'[t])
  <2>1. CASE SkipPhase(t) \/ AllocFails(t) \/ Free(t)
    <3>1. PICK x \in {"select", "idle", "alloc"} : pc' = [pc EXCEPT ![t] = x]
      BY <2>1, AfterPhaseIs DEF SkipPhase, AllocFails, Free
    <3>2. pc'[t] = x
      BY <3>1 DEF IInv, TypeOK
    <3>3. QED
      BY <3>1, <3>2
  <2>2. CASE Move(t)
    BY <2>2 DEF Move
  <2>3. CASE \/ Begin(t) \/ Select(t) \/ Alloc(t) \/ Mark(t) \/ Relist(t)
             \/ \E b \in Blocks, to \in {"GPU", "DRAM", "NVM"} : Direct(t, b, to)
    <3>1. PICK x \in {"select", "alloc", "check", "move", "free"} : pc' = [pc EXCEPT ![t] = x]
      BY <2>3 DEF Begin, Select, Alloc, Mark, Relist, Direct
    <3>2. pc'[t] = x
      BY <3>1 DEF IInv, TypeOK
    <3>3. QED
      BY <3>1, <3>2
  <2>4. CASE Check(t)
    <3>1. PICK x \in {"mark", "free"} : pc' = [pc EXCEPT ![t] = x]
      BY <2>4 DEF Check
    <3>2. pc'[t] = x
      BY <3>1 DEF IInv, TypeOK
    <3>3. QED
      BY <3>1, <3>2
  <2>5. QED
    BY <2>1, <2>2, <2>3, <2>4
<1>3. Alone(t)
  BY <1>1, <1>2, IsAlone
<1>4. QED
  BY <1>1, <1>2, <1>3, QuietHomes

LEMMA HopHomes ==
  ASSUME IInv, Exclusive, HomesOK, HomesOK', NEW t \in Threads,
         FirstHop(t) \/ SecondHop(t) \/ MoveFails(t) \/ Commit(t)
  PROVE  [Moves!Next]_Home
<1>0. PICK j : j = job[t]
  OBVIOUS
<1>b. PICK b : b = j.blk
  OBVIOUS
<1> USE <1>0, <1>b
<1>1. /\ pc[t] \in {"move", "hop2", "commit"} /\ stage' = stage
      /\ \E x \in {"hop2", "commit", "free", "lru"} : pc' = [pc EXCEPT ![t] = x]
      /\ free' = free /\ phase' = phase /\ victims' = victims
  BY DEF FirstHop, SecondHop, MoveFails, Commit
<1>2. job'[t].blk = b /\ job'[t].from = j.from /\ job'[t].to = j.to
  <2>1. CASE FirstHop(t)
    BY <2>1 DEF FirstHop, IInv, TypeOK, Jobs
  <2>2. CASE SecondHop(t) \/ MoveFails(t) \/ Commit(t)
    BY <2>2 DEF SecondHop, MoveFails, Commit
  <2>3. QED
    BY <2>1, <2>2
<1>3. JobOK(t) /\ b \in Blocks /\ Alone(t)
  <2>1. JobOK(t) /\ b \in Blocks
    BY <1>1 DEF IInv, JobsOK, JobOK
  <2>2. Alone(t)
    BY <1>1, IsAlone DEF Active
  <2>3. QED
    BY <2>1, <2>2
<1>4. \A u \in Threads, c \in Blocks : c # b => ~ Away(u, c) /\ ~ Away(u, c)'
  BY <1>2, <1>3 DEF Away, Alone
<1>5. \A u \in Threads : u # t => ~ Away(u, b) /\ ~ Away(u, b)'
  BY <1>3 DEF Away, Alone
<1>6. /\ Away(t, b) => HomeOf(b) = j.from
      /\ ~ Away(t, b) => HomeOf(b) = tier[b]
      /\ Away(t, b)' => HomeOf(b)' = j.from
      /\ ~ Away(t, b)' => HomeOf(b)' = tier'[b]
  BY <1>2, <1>3, <1>5 DEF HomesOK
<1>7. TwoHop(job'[t]) = TwoHop(j)
  BY <1>2 DEF TwoHop
<1>8. \A c \in Blocks : c # b => tier'[c] = tier[c]
  <2>1. CASE FirstHop(t) \/ Commit(t)
    BY <2>1 DEF FirstHop, Commit, IInv, TypeOK
  <2>2. CASE SecondHop(t) \/ MoveFails(t)
    BY <2>2 DEF SecondHop, MoveFails, IInv, TypeOK, blockVars
  <2>3. QED
    BY <2>1, <2>2
<1>9. \A c \in Blocks : c # b => HomeOf(c)' = HomeOf(c)
  BY <1>4, <1>8, OtherHomes
<1>10. ASSUME HomeOf(b)' = HomeOf(b) PROVE Home' = Home
  BY <1>9, <1>10 DEF Home
<1>11. CASE FirstHop(t)
  <2>1. ~ Away(t, b) /\ Away(t, b)' /\ tier[b] = j.from
    <3>1. pc[t] = "move" /\ TwoHop(j) /\ pc'[t] = "hop2"
      BY <1>11 DEF FirstHop, IInv, TypeOK
    <3>2. QED
      BY <1>2, <1>3, <1>7, <3>1 DEF Away, JobOK, Before
  <2>2. QED
    BY <1>6, <1>10, <2>1
<1>12. CASE SecondHop(t)
  <2>1. Away(t, b) /\ Away(t, b)'
    <3>1. pc[t] = "hop2" /\ TwoHop(j) /\ pc'[t] = "commit"
      BY <1>3, <1>12 DEF SecondHop, IInv, TypeOK, JobOK
    <3>2. QED
      BY <1>2, <1>7, <3>1 DEF Away
  <2>2. QED
    BY <1>6, <1>10, <2>1
<1>13. CASE MoveFails(t)
  <2>1. ~ Away(t, b)'
    <3>1. pc'[t] = "free"
      BY <1>13 DEF MoveFails, IInv, TypeOK
    <3>2. QED
      BY <3>1 DEF Away
  <2>2. CASE pc[t] = "move"
    <3>1. ~ Away(t, b) /\ tier' = tier
      BY <1>13, <2>2 DEF Away, MoveFails
    <3>2. QED
      BY <1>6, <1>10, <2>1, <3>1
  <2>3. CASE pc[t] = "hop2"
    <3>1. Away(t, b) /\ tier'[b] = j.from
      BY <1>3, <1>13, <2>3 DEF Away, MoveFails, JobOK, Halfway, IInv, TypeOK
    <3>2. QED
      BY <1>6, <1>10, <2>1, <3>1
  <2>4. QED
    BY <1>13, <2>2, <2>3 DEF MoveFails
<1>14. CASE Commit(t)
  <2>1. pc[t] = "commit" /\ pc'[t] = "lru" /\ tier'[b] = j.to
    BY <1>3, <1>14 DEF Commit, IInv, TypeOK
  <2>2. ~ Away(t, b)'
    BY <2>1 DEF Away
  <2>3. HomeOf(b) = j.from
    <3>1. CASE TwoHop(j)
      BY <1>6, <2>1, <3>1 DEF Away
    <3>2. CASE ~ TwoHop(j)
      BY <1>3, <1>6, <2>1, <3>2 DEF Away, JobOK, Before
    <3>3. QED
      BY <3>1, <3>2
  <2>4. b \notin Pinned /\ j.from # "NONE" /\ j.to \in Moves!Homes
    BY <1>3, <2>1 DEF JobOK, Routed, Moves!Homes
  <2>5. Home[b] = j.from /\ Home' = [Home EXCEPT ![b] = j.to]
    BY <1>3, <1>6, <1>9, <2>1, <2>2, <2>3 DEF Home
  <2>6. Moves!Move(b)
    BY <2>4, <2>5 DEF Moves!Move, Home
  <2>7. QED
    BY <1>3, <2>6 DEF Moves!Next
<1>15. QED
  BY <1>11, <1>12, <1>13, <1>14

LEMMA NextHomes ==
  ASSUME IInv, Exclusive, HomesOK, HomesOK', [Next]_vars
  PROVE  [Moves!Next]_Home
<1>1. CASE \E b \in Blocks : \/ Register(b) \/ List(b) \/ Access(b)
                             \/ Unregister(b) \/ Unlist(b) \/ Discard(b)
  BY <1>1, OwnerHomes
<1>2. CASE \E t \in Threads : FirstHop(t) \/ SecondHop(t) \/ MoveFails(t) \/ Commit(t)
  BY <1>2, HopHomes
<1>3. ASSUME NEW t \in Threads,
             \/ Begin(t) \/ Select(t) \/ SkipPhase(t) \/ Alloc(t) \/ AllocFails(t)
             \/ Check(t) \/ Mark(t) \/ Move(t) \/ Relist(t) \/ Free(t)
             \/ \E b \in Blocks, to \in {"GPU", "DRAM", "NVM"} : Direct(t, b, to)
      PROVE  Home' = Home
  BY <1>3, ThreadHomes DEF Home
<1>4. CASE UNCHANGED vars
  <2>1. \A b \in Blocks : HomeOf(b)' = HomeOf(b)
    BY <1>4, SameHomes DEF vars, Away, TwoHop
  <2>2. QED
    BY <2>1 DEF Home
<1>5. QED
  BY <1>1, <1>2, <1>3, <1>4 DEF Next, Execute

\* However many hops it takes and wherever it fails, a migration is one step of
\* its block from home to home or none, and pinned blocks stay (MovesSpec).
THEOREM MovesAreWhole == ASSUME Exclusive PROVE Spec => MovesSpec
<1>1. IInv => HomesOK
  BY HomesFine
<1>2. IInv /\ HomesOK /\ HomesOK' /\ [Next]_vars => [Moves!Next]_Home
  BY NextHomes
<1>3. Init => Moves!Init
  <2> SUFFICES ASSUME Init PROVE Moves!Init
    OBVIOUS
  <2>1. \A b \in Blocks : HomeOf(b) = "NONE"
    BY DEF Init, HomeOf
  <2>2. QED
    BY <2>1 DEF Moves!Init
<1>4. QED
  BY <1>1, <1>2, <1>3, SpecFine, PTL DEF Spec, MovesSpec, Moves!Spec, Home
=============================================================================
