---------------------------- MODULE OrchKVProof ----------------------------
(***************************************************************************)
(* Proofs about OrchKV, for any number of requests, layers, heads, slabs   *)
(* and tokens and any set of faults: the type invariant, the ownership of  *)
(* slabs, the agreement of metadata, the counters, and the pin.  First come *)
(* the facts about the operators OrchKV is built from: vector lengths and  *)
(* file slots, the lexicographic walk over a request's blocks, the free    *)
(* stacks, and the counts of blocks per tier.                              *)
(***************************************************************************)
EXTENDS OrchKV, FiniteSetTheorems, SequenceTheorems, FunctionTheorems, TLAPS

-----------------------------------------------------------------------------
(* Vector lengths.                                                         *)

\* The vector length orchkv_api.cu computes is a natural number, positive as
\* soon as there is a token.
LEMMA BlocksForType ==
  ASSUME NEW n \in Nat
  PROVE  BlocksFor(n) \in Nat /\ (n >= 1 => BlocksFor(n) >= 1)
<1>1. TokensPerBlock \in Nat \ {0}
  BY ConstantsOK
<1> QED  BY <1>1, SMT DEF BlocksFor

\* More tokens never need a shorter vector.
LEMMA BlocksForMonotone ==
  ASSUME NEW m \in Nat, NEW n \in Nat, m <= n
  PROVE  BlocksFor(m) <= BlocksFor(n)
<1>1. TokensPerBlock \in Nat \ {0}
  BY ConstantsOK
<1> QED  BY <1>1, SMT DEF BlocksFor

\* The file slot of a block of the instance exists in the model's file.
LEMMA FileSlotInFile ==
  ASSUME NEW b \in Blocks
  PROVE  FileSlot(b) \in FileSlots
<1> DEFINE R == LayerOf(b) * NHeads + HeadOf(b)
           M == NLayers * NHeads - 1
           F == BlocksFor(MaxTokens) - 1
<1>1. /\ NLayers \in Nat \ {0} /\ NHeads \in Nat \ {0} /\ MaxTokens \in Nat
      /\ MaxBlocksPerHead \in Nat \ {0}
  BY ConstantsOK
<1>2. /\ LayerOf(b) \in 0 .. NLayers - 1 /\ HeadOf(b) \in 0 .. NHeads - 1
      /\ IndexOf(b) \in 0 .. F
  BY DEF Blocks, Layers, Heads, Indices, LayerOf, HeadOf, IndexOf
<1>3. BlocksFor(MaxTokens) \in Nat
  BY <1>1, BlocksForType
<1>4. LayerOf(b) * NHeads <= (NLayers - 1) * NHeads
  BY <1>1, <1>2, SMT
<1>5. R \in Nat /\ M \in Nat /\ R <= M
  BY <1>1, <1>2, <1>4, SMT
<1> HIDE DEF R, M, F
<1>6. R * MaxBlocksPerHead <= M * MaxBlocksPerHead /\ R * MaxBlocksPerHead \in Nat
  BY <1>1, <1>5, SMT
<1> QED  BY <1>1, <1>2, <1>3, <1>6, SMT DEF FileSlot, FileSlots, R, M, F

-----------------------------------------------------------------------------
(* The walk over the blocks of a request.                                  *)

\* A context has finitely many blocks: the loops over them terminate.
LEMMA BlocksFinite == IsFiniteSet(Blocks)
<1> DEFINE P == (Requests \X Layers) \X (Heads \X Indices)
           f == [p \in P |-> <<p[1][1], p[1][2], p[2][1], p[2][2]>>]
<1>1. IsFiniteSet(Layers) /\ IsFiniteSet(Heads) /\ IsFiniteSet(Indices)
  <2>1. NLayers - 1 \in Int /\ NHeads - 1 \in Int
    BY ConstantsOK
  <2>2. BlocksFor(MaxTokens) - 1 \in Int
    BY ConstantsOK, BlocksForType
  <2> QED  BY <2>1, <2>2, FS_Interval DEF Layers, Heads, Indices
<1>2. IsFiniteSet(P)
  <2>1. IsFiniteSet(Requests \X Layers)
    BY <1>1, ConstantsOK, FS_Product
  <2>2. IsFiniteSet(Heads \X Indices)
    BY <1>1, FS_Product
  <2> QED  BY <2>1, <2>2, FS_Product
<1>3. f \in Surjection(P, Blocks)
  <2>1. f \in [P -> Blocks]
    BY DEF Blocks
  <2>2. ASSUME NEW b \in Blocks
        PROVE  \E p \in P : f[p] = b
    <3>1. /\ b = <<b[1], b[2], b[3], b[4]>>
          /\ <<<<b[1], b[2]>>, <<b[3], b[4]>>>> \in P
      BY DEF Blocks
    <3>2. f[<<<<b[1], b[2]>>, <<b[3], b[4]>>>>] = b
      BY <3>1
    <3> QED  BY <3>1, <3>2
  <2> QED  BY <2>1, <2>2, Fun_IsSurj
<1> QED  BY <1>2, <1>3, FS_Surjection

\* A block is known by its request, layer, head and index.
LEMMA BlockParts ==
  ASSUME NEW b \in Blocks
  PROVE  /\ b = <<ReqOf(b), LayerOf(b), HeadOf(b), IndexOf(b)>>
         /\ ReqOf(b) \in Requests /\ LayerOf(b) \in Layers
         /\ HeadOf(b) \in Heads /\ IndexOf(b) \in Indices
         /\ LayerOf(b) \in Int /\ HeadOf(b) \in Int /\ IndexOf(b) \in Nat
         /\ StreamOf(b) \in Streams /\ StreamOf(b) = <<ReqOf(b), LayerOf(b)>>
  BY DEF Blocks, Streams, ReqOf, LayerOf, HeadOf, IndexOf, StreamOf, Layers, Heads, Indices

\* The walk meets the blocks of a request one after the other.
LEMMA WalkIsOrder ==
  ASSUME NEW S \in SUBSET Blocks, \A b, c \in S : ReqOf(b) = ReqOf(c)
  PROVE  /\ \A b \in S : UpTo(b, b)
         /\ \A b, c \in S : UpTo(b, c) \/ UpTo(c, b)
         /\ \A b, c \in S : UpTo(b, c) /\ UpTo(c, b) => b = c
         /\ \A b, c, d \in S : UpTo(b, c) /\ UpTo(c, d) => UpTo(b, d)
<1>1. \A b \in S : /\ b = <<ReqOf(b), LayerOf(b), HeadOf(b), IndexOf(b)>>
                   /\ LayerOf(b) \in Int /\ HeadOf(b) \in Int /\ IndexOf(b) \in Int
  BY BlockParts
<1> QED  BY <1>1 DEF UpTo

\* Rank is a bijection: the k-th block of the walk over S is one block, for
\* every k up to the size of S.
LEMMA RankIsBijection ==
  ASSUME NEW S \in SUBSET Blocks, \A b, c \in S : ReqOf(b) = ReqOf(c)
  PROVE  /\ IsFiniteSet(S) /\ Cardinality(S) \in Nat
         /\ \A b \in S : Rank(b, S) \in 1 .. Cardinality(S)
         /\ \A b, c \in S : Rank(b, S) = Rank(c, S) => b = c
         /\ \A k \in 1 .. Cardinality(S) : \E b \in S : Rank(b, S) = k
<1> DEFINE before(b) == {c \in S : UpTo(c, b)}
           rank == [b \in S |-> Rank(b, S)]
<1>1. IsFiniteSet(S) /\ Cardinality(S) \in Nat
  BY BlocksFinite, FS_Subset, FS_CardinalityType
<1>2. ASSUME NEW b \in S
      PROVE  /\ IsFiniteSet(before(b)) /\ Cardinality(before(b)) \in 1 .. Cardinality(S)
             /\ Rank(b, S) = Cardinality(before(b))
  <2>1. before(b) \in SUBSET S /\ b \in before(b)
    BY WalkIsOrder
  <2>2. IsFiniteSet(before(b)) /\ Cardinality(before(b)) <= Cardinality(S)
    BY <1>1, <2>1, FS_Subset
  <2>3. Cardinality(before(b)) \in Nat /\ Cardinality(before(b)) # 0
    BY <2>1, <2>2, FS_CardinalityType, FS_EmptySet
  <2> QED  BY <1>1, <2>2, <2>3 DEF Rank
<1>3. ASSUME NEW b \in S, NEW c \in S, Rank(b, S) = Rank(c, S), UpTo(b, c)
      PROVE  b = c
  <2>1. before(b) \in SUBSET before(c)
    BY <1>3, WalkIsOrder
  <2>2. before(b) = before(c)
    BY <1>2, <1>3, <2>1, FS_Subset
  <2>3. c \in before(b)
    BY <2>2, WalkIsOrder
  <2> QED  BY <1>3, <2>3, WalkIsOrder
<1>4. rank \in Injection(S, 1 .. Cardinality(S))
  <2>1. rank \in [S -> 1 .. Cardinality(S)]
    BY <1>2
  <2>2. \A b, c \in S : rank[b] = rank[c] => b = c
    BY <1>3, WalkIsOrder
  <2> QED  BY <2>1, <2>2, Fun_IsInj
<1>5. /\ IsFiniteSet(1 .. Cardinality(S))
      /\ Cardinality(1 .. Cardinality(S)) = Cardinality(S)
  BY <1>1, FS_Interval
<1>6. rank \in Surjection(S, 1 .. Cardinality(S))
  BY <1>4, <1>5, FS_Injection
<1>7. \A k \in 1 .. Cardinality(S) : \E b \in S : Rank(b, S) = k
  <2> HIDE DEF rank
  <2>1. \A k \in 1 .. Cardinality(S) : \E b \in S : rank[b] = k
    BY <1>6, Fun_SurjectionProperties
  <2> QED  BY <2>1 DEF rank
<1>8. \A b, c \in S : Rank(b, S) = Rank(c, S) => b = c
  BY <1>3, WalkIsOrder
<1>9. \A b \in S : Rank(b, S) \in 1 .. Cardinality(S)
  BY <1>2
<1> QED  BY <1>1, <1>7, <1>8, <1>9

\* The blocks the walk still serves fit in the free stack.
LEMMA ServedFits ==
  ASSUME NEW S \in SUBSET Blocks, \A b, c \in S : ReqOf(b) = ReqOf(c),
         NEW T \in SUBSET Served(S), NEW n \in Nat, n = Len(gpuFree)
  PROVE  Cardinality(T) <= Len(gpuFree)
<1> DEFINE rank == [b \in T |-> Rank(b, S)]
<1>1. T \subseteq S /\ \A b \in T : Rank(b, S) <= Len(gpuFree)
  BY DEF Served
<1>2. Cardinality(S) \in Nat /\ \A b \in S : Rank(b, S) \in 1 .. Cardinality(S)
  BY RankIsBijection
<1>3. \A b, c \in S : Rank(b, S) = Rank(c, S) => b = c
  BY RankIsBijection
<1> HIDE DEF rank
<1>4. rank \in [T -> 1 .. n] /\ \A b, c \in T : rank[b] = rank[c] => b = c
  BY <1>1, <1>2, <1>3 DEF rank
<1>5. rank \in Injection(T, 1 .. n)
  BY <1>4, Fun_IsInj
<1>6. /\ IsFiniteSet(1 .. n)
      /\ Cardinality(1 .. n) = n
  <2>1. 1 \in Int /\ n \in Int /\ (IF 1 > n THEN 0 ELSE n - 1 + 1) = n
    OBVIOUS
  <2>2. IsFiniteSet(1 .. n) /\ Cardinality(1 .. n) = IF 1 > n THEN 0 ELSE n - 1 + 1
    BY <2>1, FS_Interval
  <2> QED  BY <2>1, <2>2
<1> QED  BY <1>5, <1>6, FS_Injection

\* Nth undoes Rank: a walk lists every block of S once.
LEMMA NthIsBijection ==
  ASSUME NEW S \in SUBSET Blocks, \A b, c \in S : ReqOf(b) = ReqOf(c)
  PROVE  /\ \A k \in 1 .. Cardinality(S) : Nth(k, S) \in S
         /\ \A k, l \in 1 .. Cardinality(S) : Nth(k, S) = Nth(l, S) => k = l
         /\ \A b \in S : \E k \in 1 .. Cardinality(S) : Nth(k, S) = b
<1>2. /\ \A b \in S : Rank(b, S) \in 1 .. Cardinality(S)
      /\ \A b, c \in S : Rank(b, S) = Rank(c, S) => b = c
      /\ \A k \in 1 .. Cardinality(S) : \E b \in S : Rank(b, S) = k
  BY RankIsBijection
<1>3. \A k \in 1 .. Cardinality(S) : Nth(k, S) \in S /\ Rank(Nth(k, S), S) = k
  BY <1>2 DEF Nth
<1>4. \A b \in S : Nth(Rank(b, S), S) = b
  BY <1>2, <1>3
<1> QED  BY <1>2, <1>3, <1>4

-----------------------------------------------------------------------------
(* Free stacks.                                                            *)

\* A pool that was just built owns every slab, once.
LEMMA FullStackOwnsPool ==
  ASSUME NEW n \in Nat
  PROVE  /\ FullStack(n) \in Seq(1 .. n) /\ Len(FullStack(n)) = n
         /\ \A i, j \in 1 .. n : FullStack(n)[i] = FullStack(n)[j] => i = j
         /\ \A s \in 1 .. n : \E i \in 1 .. n : FullStack(n)[i] = s
<1>1. FullStack(n) \in [1 .. n -> 1 .. n]
  BY DEF FullStack
<1>2. FullStack(n) \in Seq(1 .. n) /\ Len(FullStack(n)) = n
  BY <1>1
<1>3. \A i \in 1 .. n : FullStack(n)[i] = n + 1 - i
  BY DEF FullStack
<1>4. ASSUME NEW s \in 1 .. n
      PROVE  n + 1 - s \in 1 .. n /\ FullStack(n)[n + 1 - s] = s
  BY <1>3
<1> QED  BY <1>2, <1>3, <1>4

\* What popping m slabs leaves.
LEMMA PopMany ==
  ASSUME NEW pool, NEW stack \in Seq(pool), NEW m \in 0 .. Len(stack)
  PROVE  /\ SubSeq(stack, 1, Len(stack) - m) \in Seq(pool)
         /\ Len(SubSeq(stack, 1, Len(stack) - m)) = Len(stack) - m
         /\ \A i \in 1 .. Len(stack) - m : SubSeq(stack, 1, Len(stack) - m)[i] = stack[i]
<1>1. Len(stack) \in Nat /\ \A i \in 1 .. Len(stack) : stack[i] \in pool
  BY ElementOfSeq, LenProperties
<1>2. /\ 1 \in Int /\ Len(stack) - m \in Int
      /\ \A i \in 1 .. Len(stack) - m : stack[i] \in pool
  BY <1>1
<1> QED  BY <1>1, <1>2, SubSeqProperties

\* The top of a stack that is not empty is a slab of the pool, and pushing it
\* back restores the stack.
LEMMA PopPush ==
  ASSUME NEW pool, NEW stack \in Seq(pool), stack # <<>>
  PROVE  /\ Len(stack) \in Nat \ {0} /\ Top(stack) \in pool
         /\ Pop(stack) \in Seq(pool) /\ Push(Pop(stack), Top(stack)) = stack
<1>1. Len(stack) \in Nat \ {0} /\ Top(stack) \in pool
  BY EmptySeq, ElementOfSeq DEF Top
<1>2. /\ Pop(stack) \in Seq(pool) /\ Len(Pop(stack)) = Len(stack) - 1
      /\ \A i \in 1 .. Len(stack) - 1 : Pop(stack)[i] = stack[i]
  <2>1. 1 \in 0 .. Len(stack)
    BY <1>1
  <2> QED  BY <2>1, PopMany DEF Pop
<1>3. /\ Push(Pop(stack), Top(stack)) \in Seq(pool)
      /\ Len(Push(Pop(stack), Top(stack))) = Len(stack)
      /\ \A i \in 1 .. Len(stack) : Push(Pop(stack), Top(stack))[i] = stack[i]
  BY <1>1, <1>2, AppendProperties DEF Push, Top
<1> QED  BY <1>1, <1>2, <1>3, SeqEqual

\* The blocks of S join tier t: the one of rank k gets the k-th slab from the
\* top of the stack, and m slabs are handed out.
Joins(S, rank, m, stack, t, tr, pt, tr2, pt2) ==
  /\ \A b \in S : rank[b] \in 1 .. m
  /\ \A b, c \in S : rank[b] = rank[c] => b = c
  /\ \A k \in 1 .. m : \E b \in S : rank[b] = k
  /\ \A b \in S : tr[b] # t /\ tr2[b] = t /\ pt2[b] = stack[Len(stack) + 1 - rank[b]]
  /\ \A b \in Blocks \ S : (tr2[b] = t <=> tr[b] = t) /\ (tr[b] = t => pt2[b] = pt[b])

\* The m blocks of S leave tier t in the order `freed`, and `tail` is the
\* sequence of their slabs.
Leaves(S, freed, tail, m, t, tr, pt, tr2, pt2) ==
  /\ \A k \in 1 .. m : freed[k] \in S
  /\ \A k, l \in 1 .. m : freed[k] = freed[l] => k = l
  /\ \A b \in S : \E k \in 1 .. m : freed[k] = b
  /\ Len(tail) = m /\ \A k \in 1 .. m : tail[k] = pt[freed[k]]
  /\ \A b \in S : tr[b] = t /\ tr2[b] # t
  /\ \A b \in Blocks \ S : (tr2[b] = t <=> tr[b] = t) /\ (tr[b] = t => pt2[b] = pt[b])

\* Handing the top m slabs of a pool, one each, to m blocks that were not in
\* the pool's tier keeps the pool sound.
LEMMA AcquireKeepsPool ==
  ASSUME NEW pool, NEW stack \in Seq(pool), NEW t, NEW tr, NEW pt, NEW tr2, NEW pt2,
         PoolOK(stack, pool, t, tr, pt),
         NEW S \in SUBSET Blocks, NEW m \in 0 .. Len(stack), NEW rank,
         Joins(S, rank, m, stack, t, tr, pt, tr2, pt2),
         \A b \in Blocks : tr[b] = t => pt[b] \in pool
  PROVE  PoolOK(SubSeq(stack, 1, Len(stack) - m), pool, t, tr2, pt2)
<1> USE DEF Joins
<1> DEFINE rest == SubSeq(stack, 1, Len(stack) - m)
<1>1. /\ Len(stack) \in Nat /\ Len(rest) = Len(stack) - m
      /\ \A i \in 1 .. Len(rest) : rest[i] = stack[i]
      /\ \A i \in 1 .. Len(stack) : stack[i] \in pool
  BY PopMany, LenProperties, ElementOfSeq
<1> HIDE DEF rest
<1>2. /\ \A i, j \in 1 .. Len(stack) : stack[i] = stack[j] => i = j
      /\ \A b, c \in Blocks : tr[b] = t /\ tr[c] = t /\ pt[b] = pt[c] => b = c
      /\ \A s \in pool : (\E i \in 1 .. Len(stack) : stack[i] = s)
                           <=> ~ \E b \in Blocks : tr[b] = t /\ pt[b] = s
  BY DEF PoolOK
<1>3. \A b \in S : /\ Len(stack) + 1 - rank[b] \in Len(stack) - m + 1 .. Len(stack)
                   /\ Len(stack) + 1 - rank[b] \in 1 .. Len(stack)
                   /\ pt2[b] = stack[Len(stack) + 1 - rank[b]]
  BY <1>1
<1>4. ASSUME NEW b \in S, NEW c \in S, pt2[b] = pt2[c]
      PROVE  b = c
  <2> DEFINE i == Len(stack) + 1 - rank[b]
             j == Len(stack) + 1 - rank[c]
  <2>1. i \in 1 .. Len(stack) /\ j \in 1 .. Len(stack) /\ stack[i] = stack[j]
    BY <1>3, <1>4
  <2>2. i = j
    BY <1>2, <2>1
  <2> QED  BY <1>1, <2>2
<1>5. ASSUME NEW b \in S, NEW c \in Blocks \ S, tr2[c] = t
      PROVE  pt2[b] # pt2[c]
  <2> DEFINE i == Len(stack) + 1 - rank[b]
  <2>1. i \in 1 .. Len(stack) /\ stack[i] = pt2[b] /\ stack[i] \in pool
    BY <1>1, <1>3
  <2>2. ~ \E d \in Blocks : tr[d] = t /\ pt[d] = pt2[b]
    BY <1>2, <2>1
  <2> QED  BY <1>5, <2>2
<1>6. \A i, j \in 1 .. Len(rest) : rest[i] = rest[j] => i = j
  BY <1>1, <1>2
<1>7. ASSUME NEW b \in Blocks, NEW c \in Blocks, tr2[b] = t, tr2[c] = t, pt2[b] = pt2[c]
      PROVE  b = c
  <2>1. CASE b \in S /\ c \in S
    BY <1>7, <1>4, <2>1
  <2>2. CASE b \notin S /\ c \notin S
    BY <1>2, <1>7, <2>2
  <2>3. CASE b \in S /\ c \notin S
    BY <1>7, <1>5, <2>3
  <2>4. CASE b \notin S /\ c \in S
    BY <1>7, <1>5, <2>4
  <2> QED  BY <2>1, <2>2, <2>3, <2>4
<1>8. ASSUME NEW s \in pool, NEW i \in 1 .. Len(rest), rest[i] = s,
             NEW b \in Blocks, tr2[b] = t, pt2[b] = s
      PROVE  FALSE
  <2>1. CASE b \in S
    BY <1>1, <1>2, <1>3, <1>8, <2>1
  <2>2. CASE b \notin S
    BY <1>1, <1>2, <1>8, <2>2
  <2> QED  BY <2>1, <2>2
<1>9. ASSUME NEW s \in pool, ~ \E i \in 1 .. Len(rest) : rest[i] = s
      PROVE  \E b \in Blocks : tr2[b] = t /\ pt2[b] = s
  <2>1. CASE \E i \in 1 .. Len(stack) : stack[i] = s
    <3>1. PICK i \in 1 .. Len(stack) : stack[i] = s
      BY <2>1
    <3>2. i > Len(stack) - m /\ Len(stack) + 1 - i \in 1 .. m
      BY <1>1, <1>9, <3>1
    <3>3. PICK b \in S : rank[b] = Len(stack) + 1 - i
      BY <3>2
    <3>4. Len(stack) + 1 - rank[b] = i
      BY <1>1, <3>3
    <3> QED  BY <1>3, <3>1, <3>3, <3>4
  <2>2. CASE ~ \E i \in 1 .. Len(stack) : stack[i] = s
    <3>1. PICK b \in Blocks : tr[b] = t /\ pt[b] = s
      BY <1>2, <2>2
    <3> QED  BY <3>1
  <2> QED  BY <2>1, <2>2
<1> QED  BY <1>6, <1>7, <1>8, <1>9 DEF PoolOK, rest

\* Freeing, one by one, the slabs of m blocks of the pool's tier, which leave
\* it, keeps the pool sound: `freed` lists those blocks.
LEMMA ReleaseKeepsPool ==
  ASSUME NEW pool, NEW stack \in Seq(pool), NEW t, NEW tr, NEW pt, NEW tr2, NEW pt2,
         PoolOK(stack, pool, t, tr, pt),
         NEW S \in SUBSET Blocks, NEW m \in Nat, NEW freed, NEW tail \in Seq(pool),
         Leaves(S, freed, tail, m, t, tr, pt, tr2, pt2),
         \A b \in Blocks : tr[b] = t => pt[b] \in pool
  PROVE  PoolOK(stack \o tail, pool, t, tr2, pt2)
<1>0. /\ Len(stack \o tail) = Len(stack) + Len(tail)
      /\ \A i \in 1 .. Len(stack) + Len(tail) :
            (stack \o tail)[i] = IF i <= Len(stack) THEN stack[i] ELSE tail[i - Len(stack)]
  BY ConcatProperties, Zenon
<1> USE DEF Leaves
<1> DEFINE all == stack \o tail
<1>1. /\ Len(stack) \in Nat /\ Len(all) = Len(stack) + m
      /\ \A i \in 1 .. Len(all) :
            all[i] = IF i <= Len(stack) THEN stack[i] ELSE tail[i - Len(stack)]
  BY <1>0, LenProperties
<1> HIDE DEF all
<1>2. /\ \A i, j \in 1 .. Len(stack) : stack[i] = stack[j] => i = j
      /\ \A b, c \in Blocks : tr[b] = t /\ tr[c] = t /\ pt[b] = pt[c] => b = c
      /\ \A s \in pool : (\E i \in 1 .. Len(stack) : stack[i] = s)
                           <=> ~ \E b \in Blocks : tr[b] = t /\ pt[b] = s
  BY DEF PoolOK
<1>3. ASSUME NEW i \in 1 .. Len(stack), NEW k \in 1 .. m
      PROVE  stack[i] # tail[k]
  <2>1. /\ freed[k] \in Blocks /\ tr[freed[k]] = t /\ pt[freed[k]] \in pool
        /\ tail[k] = pt[freed[k]]
    OBVIOUS
  <2> QED  BY <1>2, <2>1
<1>4. ASSUME NEW k \in 1 .. m, NEW l \in 1 .. m, tail[k] = tail[l]
      PROVE  k = l
  <2>1. freed[k] \in S /\ freed[l] \in S /\ pt[freed[k]] = pt[freed[l]]
    BY <1>4
  <2>2. freed[k] = freed[l]
    BY <1>2, <2>1
  <2> QED  BY <2>2
<1>5. ASSUME NEW i \in 1 .. Len(all), NEW j \in 1 .. Len(all), all[i] = all[j]
      PROVE  i = j
  <2>1. CASE i <= Len(stack) /\ j <= Len(stack)
    BY <1>1, <1>2, <1>5, <2>1
  <2>2. CASE i > Len(stack) /\ j > Len(stack)
    <3>1. i - Len(stack) \in 1 .. m /\ j - Len(stack) \in 1 .. m
      BY <1>1, <2>2
    <3>2. i - Len(stack) = j - Len(stack)
      BY <1>1, <1>4, <1>5, <2>2, <3>1
    <3> QED  BY <1>1, <3>2
  <2>3. CASE i <= Len(stack) /\ j > Len(stack)
    BY <1>1, <1>3, <1>5, <2>3
  <2>4. CASE i > Len(stack) /\ j <= Len(stack)
    BY <1>1, <1>3, <1>5, <2>4
  <2> QED  BY <1>1, <2>1, <2>2, <2>3, <2>4
<1>6. \A b, c \in Blocks : tr2[b] = t /\ tr2[c] = t /\ pt2[b] = pt2[c] => b = c
  BY <1>2
<1>7. ASSUME NEW s \in pool, NEW i \in 1 .. Len(all), all[i] = s,
             NEW b \in Blocks, tr2[b] = t, pt2[b] = s
      PROVE  FALSE
  <2>1. b \notin S /\ tr[b] = t /\ pt[b] = s
    BY <1>7
  <2>2. CASE i <= Len(stack)
    BY <1>1, <1>2, <1>7, <2>1, <2>2
  <2>3. CASE i > Len(stack)
    <3>1. i - Len(stack) \in 1 .. m /\ tail[i - Len(stack)] = s
      BY <1>1, <1>7, <2>3
    <3>2. freed[i - Len(stack)] \in S /\ pt[freed[i - Len(stack)]] = s
      BY <3>1
    <3> QED  BY <1>2, <2>1, <3>2
  <2> QED  BY <1>1, <2>2, <2>3
<1>8. ASSUME NEW s \in pool, ~ \E b \in Blocks : tr2[b] = t /\ pt2[b] = s
      PROVE  \E i \in 1 .. Len(all) : all[i] = s
  <2>1. CASE \E i \in 1 .. Len(stack) : stack[i] = s
    <3>1. PICK i \in 1 .. Len(stack) : stack[i] = s
      BY <2>1
    <3>2. i \in 1 .. Len(all) /\ all[i] = s
      BY <1>1, <3>1
    <3> QED  BY <3>2
  <2>2. CASE ~ \E i \in 1 .. Len(stack) : stack[i] = s
    <3>1. PICK b \in Blocks : tr[b] = t /\ pt[b] = s
      BY <1>2, <2>2
    <3>2. b \in S
      BY <1>8, <3>1
    <3>3. PICK k \in 1 .. m : freed[k] = b
      BY <3>2
    <3>4. Len(stack) + k \in 1 .. Len(all) /\ all[Len(stack) + k] = s
      BY <1>1, <3>1, <3>3
    <3> QED  BY <3>4
  <2> QED  BY <2>1, <2>2
<1> QED  BY <1>5, <1>6, <1>7, <1>8 DEF PoolOK, all

\* A step that moves no block into or out of a pool's tier, and leaves its
\* blocks their slabs, keeps the pool sound.
LEMMA OtherTierKeepsPool ==
  ASSUME NEW pool, NEW stack, NEW t, NEW tr, NEW pt, NEW tr2, NEW pt2,
         PoolOK(stack, pool, t, tr, pt),
         \A b \in Blocks : (tr2[b] = t <=> tr[b] = t) /\ (tr[b] = t => pt2[b] = pt[b])
  PROVE  PoolOK(stack, pool, t, tr2, pt2)
  BY DEF PoolOK

\* One block takes the top slab.
LEMMA PopKeepsPool ==
  ASSUME NEW pool, NEW stack \in Seq(pool), stack # <<>>, NEW t, NEW tr, NEW pt,
         NEW tr2, NEW pt2, PoolOK(stack, pool, t, tr, pt),
         NEW b \in Blocks, tr[b] # t, tr2[b] = t, pt2[b] = Top(stack),
         \A c \in Blocks \ {b} : (tr2[c] = t <=> tr[c] = t) /\ (tr[c] = t => pt2[c] = pt[c]),
         \A c \in Blocks : tr[c] = t => pt[c] \in pool
  PROVE  PoolOK(Pop(stack), pool, t, tr2, pt2)
<1> DEFINE rank == [c \in {b} |-> 1]
<1>1. Len(stack) \in Nat \ {0} /\ 1 \in 0 .. Len(stack) /\ {b} \in SUBSET Blocks
  BY PopPush
<1>2. /\ \A c \in {b} : rank[c] = 1 /\ rank[c] \in 1 .. 1
      /\ \A k \in 1 .. 1 : \E c \in {b} : rank[c] = k
      /\ Len(stack) + 1 - 1 = Len(stack)
  BY <1>1
<1>3. \A c \in {b} : tr[c] # t /\ tr2[c] = t /\ pt2[c] = stack[Len(stack) + 1 - rank[c]]
  BY <1>1, <1>2 DEF Top
<1> HIDE DEF rank
<1>4. Joins({b}, rank, 1, stack, t, tr, pt, tr2, pt2)
  BY <1>1, <1>2, <1>3 DEF Joins
<1>5. PoolOK(SubSeq(stack, 1, Len(stack) - 1), pool, t, tr2, pt2)
  BY <1>1, <1>4, AcquireKeepsPool
<1> QED  BY <1>5 DEF Pop

\* One block gives its slab back.
LEMMA PushKeepsPool ==
  ASSUME NEW pool, NEW stack \in Seq(pool), NEW t, NEW tr, NEW pt, NEW tr2, NEW pt2,
         PoolOK(stack, pool, t, tr, pt), NEW b \in Blocks, tr[b] = t, tr2[b] # t,
         \A c \in Blocks \ {b} : (tr2[c] = t <=> tr[c] = t) /\ (tr[c] = t => pt2[c] = pt[c]),
         \A c \in Blocks : tr[c] = t => pt[c] \in pool
  PROVE  PoolOK(Push(stack, pt[b]), pool, t, tr2, pt2)
<1> DEFINE freed == <<b>>
           tail == <<pt[b]>>
<1>1. /\ pt[b] \in pool /\ {b} \in SUBSET Blocks /\ 1 \in Nat
      /\ tail \in Seq(pool) /\ Len(tail) = 1
  OBVIOUS
<1>2. /\ \A k \in 1 .. 1 : k = 1 /\ freed[k] = b /\ freed[k] \in {b} /\ tail[k] = pt[freed[k]]
      /\ \A c \in {b} : \E k \in 1 .. 1 : freed[k] = c
  OBVIOUS
<1>3. \A c \in {b} : tr[c] = t /\ tr2[c] # t
  OBVIOUS
<1>4. Push(stack, pt[b]) = stack \o tail /\ Push(stack, pt[b]) \in Seq(pool)
  BY <1>1, AppendIsConcat, AppendProperties DEF Push
<1> HIDE DEF freed, tail
<1>5. Leaves({b}, freed, tail, 1, t, tr, pt, tr2, pt2)
  BY <1>1, <1>2, <1>3 DEF Leaves
<1>6. PoolOK(stack \o tail, pool, t, tr2, pt2)
  BY <1>1, <1>5, ReleaseKeepsPool
<1> QED  BY <1>4, <1>6

-----------------------------------------------------------------------------
(* Blocks per tier.                                                        *)

\* What a blocks_on_* counter counts is a natural number.
LEMMA OnIsFinite ==
  ASSUME NEW r, NEW t, NEW tr
  PROVE  IsFiniteSet(On(r, t, tr)) /\ Cardinality(On(r, t, tr)) \in Nat
<1>1. On(r, t, tr) \in SUBSET Blocks
  BY DEF On
<1> QED  BY <1>1, BlocksFinite, FS_Subset, FS_CardinalityType

\* A block that leaves one tier for another changes the counts of its request
\* as Delta says, and no other.
LEMMA MoveChangesCounts ==
  ASSUME NEW b \in Blocks, NEW tr, NEW tr2, tr[b] # tr2[b],
         \A c \in Blocks \ {b} : tr2[c] = tr[c], NEW r, NEW t
  PROVE  Cardinality(On(r, t, tr2)) =
           Cardinality(On(r, t, tr)) + (IF r = ReqOf(b) THEN Delta(t, tr[b], tr2[b]) ELSE 0)
<1> DEFINE before == On(r, t, tr)
           after  == On(r, t, tr2)
<1>1. IsFiniteSet(before) /\ Cardinality(before) \in Nat
  BY OnIsFinite
<1>2. CASE r # ReqOf(b) \/ (t # tr2[b] /\ t # tr[b])
  <2>1. after = before
    BY <1>2 DEF On
  <2> QED  BY <1>1, <1>2, <2>1 DEF Delta
<1>3. CASE r = ReqOf(b) /\ t = tr2[b]
  <2>1. after = before \union {b} /\ b \notin before
    BY <1>3 DEF On
  <2>2. Cardinality(after) = Cardinality(before) + 1
    BY <1>1, <2>1, FS_AddElement
  <2> QED  BY <1>3, <2>2 DEF Delta
<1>4. CASE r = ReqOf(b) /\ t = tr[b]
  <2>1. after = before \ {b} /\ b \in before
    BY <1>4 DEF On
  <2>2. Cardinality(after) = Cardinality(before) - 1
    BY <1>1, <2>1, FS_RemoveElement
  <2> QED  BY <1>1, <1>4, <2>2 DEF Delta
<1> QED  BY <1>2, <1>3, <1>4

\* Homing m more blocks of a request in a tier raises its count by m.
LEMMA JoinChangesCounts ==
  ASSUME NEW r, NEW S \in SUBSET Blocks, \A b \in S : ReqOf(b) = r,
         NEW t, NEW tr, NEW tr2, \A b \in S : tr[b] # t /\ tr2[b] = t,
         \A b \in Blocks \ S : tr2[b] = t <=> tr[b] = t
  PROVE  Cardinality(On(r, t, tr2)) = Cardinality(On(r, t, tr)) + Cardinality(S)
<1>1. On(r, t, tr2) = On(r, t, tr) \union S /\ On(r, t, tr) \cap S = {}
  BY DEF On
<1>2. /\ IsFiniteSet(On(r, t, tr)) /\ Cardinality(On(r, t, tr)) \in Nat
      /\ IsFiniteSet(S) /\ Cardinality(S) \in Nat
  BY OnIsFinite, BlocksFinite, FS_Subset, FS_CardinalityType
<1>3. Cardinality(On(r, t, tr2)) =
        Cardinality(On(r, t, tr)) + Cardinality(S) - Cardinality(On(r, t, tr) \cap S)
  BY <1>1, <1>2, FS_Union
<1>4. Cardinality(On(r, t, tr) \cap S) = 0
  BY <1>1, FS_EmptySet
<1> QED  BY <1>2, <1>3, <1>4

-----------------------------------------------------------------------------
(* The inductive invariant.  SlabOwnership alone is not inductive: that a   *)
(* block without a slab gets one from the stack rests on state, tier and    *)
(* data_ptr agreeing, that SystemInit may build fresh pools on no block     *)
(* being left, and that a counter stays a natural number on its being a     *)
(* cardinality.                                                             *)

\* No token is acknowledged that the metadata does not account for.
AckedFits == \A x \in Streams : acked[x] <= ntok[x]

\* Outside orchkv_init .. orchkv_shutdown there is no context.
IdleIsEmpty == ~inited => live = {}

IInv ==
  /\ TypeOK
  /\ SlabOwnership
  /\ HomeAgrees
  /\ CountersAgree
  /\ AckedFits
  /\ IdleIsEmpty

\* The state kv_block_set_state gives a block of each tier, and the slabs.
HomeState(t) == CASE t = "NONE" -> "FREE" [] t = "GPU" -> "HOT"
                  [] t = "DRAM" -> "WARM" [] t = "NVM" -> "COLD"
HomeSlabs(t) == CASE t = "GPU" -> GpuPool [] t = "DRAM" -> DramPool
                  [] OTHER -> {NoSlab}

\* The transitions the API asks for are the ones the table allows.
LEMMA Transitions ==
  /\ SetState(SetState("FREE", "ALLOCATED"), "HOT") = "HOT"
  /\ Migrated("HOT", "HOT") = "HOT" /\ Migrated("HOT", "WARM") = "WARM"
  /\ Migrated("WARM", "WARM") = "WARM" /\ Migrated("WARM", "HOT") = "HOT"
  /\ Migrated("WARM", "COLD") = "COLD"
  /\ Migrated("COLD", "COLD") = "COLD" /\ Migrated("COLD", "WARM") = "WARM"
  BY DEF SetState, Migrated, Allowed

\* HomeAgrees, block by block.
LEMMA Homes ==
  ASSUME TypeOK, HomeAgrees, NEW b \in Blocks
  PROVE  /\ state[b] = HomeState(tier[b]) /\ ptr[b] \in HomeSlabs(tier[b])
         /\ b \in addrmap <=> tier[b] # "NONE"
         /\ tier[b] # "NONE" => InVector(b)
         /\ tier[b] = "NVM" => ReqOf(b) \in fctx
  BY DEF HomeAgrees, HomeState, HomeSlabs

\* In particular, the blocks of a pool's tier hold slabs of the pool.
LEMMA SlabsOfTier ==
  ASSUME TypeOK, HomeAgrees
  PROVE  /\ \A b \in Blocks : tier[b] = "GPU" => ptr[b] \in GpuPool
         /\ \A b \in Blocks : tier[b] = "DRAM" => ptr[b] \in DramPool
         /\ \A b \in Blocks : state[b] = "FREE" <=> tier[b] = "NONE"
         /\ \A b \in Blocks : tier[b] \in Tiers
  BY DEF HomeAgrees, TypeOK, Tiers

-----------------------------------------------------------------------------
(* Moves between tiers.                                                    *)

\* A call that fails and rolls back keeps the invariant.
LEMMA RollBackKeepsInv ==
  ASSUME IInv, NEW b \in Blocks, NEW t, In(b, t), RollBack(b, HomeState(t)),
         t \in {"GPU", "DRAM", "NVM"},
         file' \in [Requests -> [FileSlots -> Content]]
  PROVE  IInv'
<1> USE DEF IInv, In, RollBack, reqVars, metaVars, countVars
<1>1. state[b] = HomeState(t) /\ Migrated(state[b], HomeState(t)) = HomeState(t)
  BY Homes, Transitions DEF HomeState
<1>2. state' = state
  BY <1>1 DEF TypeOK
<1>3. TypeOK'
  BY <1>2 DEF TypeOK
<1>4. HomeAgrees'
  BY <1>2 DEF HomeAgrees, InVector
<1>5. SlabOwnership'
  BY DEF SlabOwnership, PoolOK
<1>6. CountersAgree'
  BY DEF CountersAgree, On
<1>7. AckedFits' /\ IdleIsEmpty'
  BY DEF AckedFits, IdleIsEmpty
<1> QED  BY <1>3, <1>4, <1>5, <1>6, <1>7

\* The step takes block b from tier `from` to tier `to`, where its data_ptr is
\* p, and leaves both pools sound and every slab and slot with a content.
Moved(b, from, to, p) ==
  /\ to # from /\ from \in {"GPU", "DRAM", "NVM"} /\ to \in {"GPU", "DRAM", "NVM"}
  /\ tier' = [tier EXCEPT ![b] = to] /\ ptr' = [ptr EXCEPT ![b] = p]
  /\ state' = [state EXCEPT ![b] = HomeState(to)] /\ p \in HomeSlabs(to)
  /\ to = "NVM" => ReqOf(b) \in fctx
  /\ CountHop(ReqOf(b), from, to) /\ UNCHANGED <<reqVars, metaVars, addrmap>>
  /\ gpuFree' \in Seq(GpuPool) /\ dramFree' \in Seq(DramPool)
  /\ gpuMem' \in [GpuPool -> Content] /\ dramMem' \in [DramPool -> Content]
  /\ file' \in [Requests -> [FileSlots -> Content]]
  /\ PoolOK(gpuFree', GpuPool, "GPU", tier', ptr')
  /\ PoolOK(dramFree', DramPool, "DRAM", tier', ptr')

\* Every successful hop, and every pair of hops, is such a step: it keeps the
\* invariant.
LEMMA MoveKeepsInv ==
  ASSUME IInv, NEW b \in Blocks, NEW from, In(b, from), NEW to, NEW p,
         Moved(b, from, to, p)
  PROVE  IInv'
<1>1. SlabOwnership' /\ AckedFits' /\ IdleIsEmpty'
  BY DEF IInv, In, Moved, reqVars, metaVars, SlabOwnership, AckedFits, IdleIsEmpty
<1>2. HomeAgrees'
  BY DEF IInv, In, Moved, reqVars, metaVars, HomeAgrees, HomeState, HomeSlabs, TypeOK, InVector
<1>3. tier[b] = from /\ tier'[b] = to /\ \A c \in Blocks \ {b} : tier'[c] = tier[c]
  BY DEF IInv, In, Moved, TypeOK
<1>4. ASSUME NEW r, NEW t
      PROVE  Cardinality(On(r, t, tier')) = Cardinality(On(r, t, tier))
               + (IF r = ReqOf(b) THEN Delta(t, tier[b], tier'[b]) ELSE 0)
  <2>1. tier[b] # tier'[b]
    BY <1>3 DEF Moved
  <2> QED  BY <1>3, <2>1, MoveChangesCounts
<1>5. ASSUME NEW r \in Requests
      PROVE  /\ onGpu'[r] = Cardinality(On(r, "GPU", tier'))
             /\ onDram'[r] = Cardinality(On(r, "DRAM", tier'))
             /\ onStorage'[r] = Cardinality(On(r, "NVM", tier'))
  <2>1. /\ onGpu[r] = Cardinality(On(r, "GPU", tier))
        /\ onDram[r] = Cardinality(On(r, "DRAM", tier))
        /\ onStorage[r] = Cardinality(On(r, "NVM", tier))
    BY DEF IInv, CountersAgree
  <2>2. /\ onGpu'[r] = onGpu[r] + (IF r = ReqOf(b) THEN Delta("GPU", from, to) ELSE 0)
        /\ onDram'[r] = onDram[r] + (IF r = ReqOf(b) THEN Delta("DRAM", from, to) ELSE 0)
        /\ onStorage'[r] =
              onStorage[r] + (IF r = ReqOf(b) THEN Delta("NVM", from, to) ELSE 0)
    BY DEF IInv, Moved, CountHop, TypeOK
  <2> QED  BY <1>3, <1>4, <2>1, <2>2
<1>6. CountersAgree'
  BY <1>5 DEF IInv, Moved, metaVars, CountersAgree
<1>7. TypeOK'
  <2>1. /\ onGpu' \in [Requests -> Nat] /\ onDram' \in [Requests -> Nat]
        /\ onStorage' \in [Requests -> Nat]
    <3>1. /\ onGpu' = [r \in Requests |-> onGpu'[r]]
          /\ onDram' = [r \in Requests |-> onDram'[r]]
          /\ onStorage' = [r \in Requests |-> onStorage'[r]]
      BY DEF IInv, Moved, CountHop, TypeOK
    <3>2. \A r \in Requests :
             onGpu'[r] \in Nat /\ onDram'[r] \in Nat /\ onStorage'[r] \in Nat
      BY <1>5, OnIsFinite
    <3> QED  BY <3>1, <3>2
  <2>2. /\ tier' \in [Blocks -> Tiers] /\ state' \in [Blocks -> BlockStates]
        /\ ptr' \in [Blocks -> GpuPool \union DramPool \union {NoSlab}]
    BY DEF IInv, Moved, TypeOK, Tiers, BlockStates, HomeState, HomeSlabs
  <2> QED  BY <2>1, <2>2 DEF IInv, Moved, TypeOK, reqVars, metaVars
<1> QED  BY <1>1, <1>2, <1>6, <1>7 DEF IInv

\* What a move does to the pools: one gets the slab of the block back, one
\* hands its top slab out, and a pool of neither tier stays as it was.
LEMMA PoolsAfterMove ==
  ASSUME IInv, inited, NEW b \in Blocks, tier'[b] # tier[b],
         \A c \in Blocks \ {b} : tier'[c] = tier[c] /\ ptr'[c] = ptr[c]
  PROVE  /\ tier[b] = "GPU" =>
              /\ PoolOK(Push(gpuFree, ptr[b]), GpuPool, "GPU", tier', ptr')
              /\ Push(gpuFree, ptr[b]) \in Seq(GpuPool)
         /\ tier[b] = "DRAM" =>
              /\ PoolOK(Push(dramFree, ptr[b]), DramPool, "DRAM", tier', ptr')
              /\ Push(dramFree, ptr[b]) \in Seq(DramPool)
         /\ gpuFree # <<>> /\ tier'[b] = "GPU" /\ ptr'[b] = Top(gpuFree) =>
              PoolOK(Pop(gpuFree), GpuPool, "GPU", tier', ptr')
         /\ dramFree # <<>> /\ tier'[b] = "DRAM" /\ ptr'[b] = Top(dramFree) =>
              PoolOK(Pop(dramFree), DramPool, "DRAM", tier', ptr')
         /\ tier[b] # "GPU" /\ tier'[b] # "GPU" =>
              PoolOK(gpuFree, GpuPool, "GPU", tier', ptr')
         /\ tier[b] # "DRAM" /\ tier'[b] # "DRAM" =>
              PoolOK(dramFree, DramPool, "DRAM", tier', ptr')
<1>1. /\ gpuFree \in Seq(GpuPool) /\ dramFree \in Seq(DramPool)
      /\ PoolOK(gpuFree, GpuPool, "GPU", tier, ptr)
      /\ PoolOK(dramFree, DramPool, "DRAM", tier, ptr)
  BY DEF IInv, TypeOK, SlabOwnership
<1>2. /\ \A c \in Blocks : tier[c] = "GPU" => ptr[c] \in GpuPool
      /\ \A c \in Blocks : tier[c] = "DRAM" => ptr[c] \in DramPool
  BY SlabsOfTier DEF IInv
<1>3. \A t : \A c \in Blocks \ {b} :
        (tier'[c] = t <=> tier[c] = t) /\ (tier[c] = t => ptr'[c] = ptr[c])
  OBVIOUS
<1>4. ASSUME tier[b] = "GPU"
      PROVE  /\ PoolOK(Push(gpuFree, ptr[b]), GpuPool, "GPU", tier', ptr')
             /\ Push(gpuFree, ptr[b]) \in Seq(GpuPool)
  <2>1. PoolOK(Push(gpuFree, ptr[b]), GpuPool, "GPU", tier', ptr')
    BY <1>1, <1>2, <1>3, <1>4, PushKeepsPool
  <2>2. Push(gpuFree, ptr[b]) \in Seq(GpuPool)
    BY <1>1, <1>2, <1>4 DEF Push
  <2> QED  BY <2>1, <2>2
<1>5. ASSUME tier[b] = "DRAM"
      PROVE  /\ PoolOK(Push(dramFree, ptr[b]), DramPool, "DRAM", tier', ptr')
             /\ Push(dramFree, ptr[b]) \in Seq(DramPool)
  <2>1. PoolOK(Push(dramFree, ptr[b]), DramPool, "DRAM", tier', ptr')
    BY <1>1, <1>2, <1>3, <1>5, PushKeepsPool
  <2>2. Push(dramFree, ptr[b]) \in Seq(DramPool)
    BY <1>1, <1>2, <1>5 DEF Push
  <2> QED  BY <2>1, <2>2
<1>6. ASSUME gpuFree # <<>>, tier'[b] = "GPU", ptr'[b] = Top(gpuFree)
      PROVE  PoolOK(Pop(gpuFree), GpuPool, "GPU", tier', ptr')
  BY <1>1, <1>2, <1>3, <1>6, PopKeepsPool
<1>7. ASSUME dramFree # <<>>, tier'[b] = "DRAM", ptr'[b] = Top(dramFree)
      PROVE  PoolOK(Pop(dramFree), DramPool, "DRAM", tier', ptr')
  BY <1>1, <1>2, <1>3, <1>7, PopKeepsPool
<1>8. ASSUME tier[b] # "GPU", tier'[b] # "GPU"
      PROVE  PoolOK(gpuFree, GpuPool, "GPU", tier', ptr')
  BY <1>1, <1>3, <1>8, OtherTierKeepsPool
<1>9. ASSUME tier[b] # "DRAM", tier'[b] # "DRAM"
      PROVE  PoolOK(dramFree, DramPool, "DRAM", tier', ptr')
  BY <1>1, <1>3, <1>9, OtherTierKeepsPool
<1> QED  BY <1>4, <1>5, <1>6, <1>7, <1>8, <1>9

\* A copy leaves a content in its target, whether it went through or not.
LEMMA CopiedIsContent ==
  ASSUME NEW content \in Content
  PROVE  Copied(content) \subseteq Content /\ Blank \in Content
  BY DEF Copied, Blank, Content

\* What the pools, the slabs and the file of a block hold, typed.
LEMMA Typed ==
  ASSUME IInv, NEW b \in Blocks
  PROVE  /\ dramFree # <<>> => /\ Top(dramFree) \in DramPool
                               /\ Pop(dramFree) \in Seq(DramPool)
                               /\ Push(Pop(dramFree), Top(dramFree)) = dramFree
         /\ gpuFree # <<>> => /\ Top(gpuFree) \in GpuPool
                              /\ Pop(gpuFree) \in Seq(GpuPool)
         /\ tier[b] = "GPU" => Copied(gpuMem[ptr[b]]) \subseteq Content
         /\ tier[b] = "DRAM" => /\ dramMem[ptr[b]] \in Content
                                /\ Copied(dramMem[ptr[b]]) \subseteq Content
         /\ file[ReqOf(b)][FileSlot(b)] \in Content
         /\ Copied(file[ReqOf(b)][FileSlot(b)]) \subseteq Content
         /\ Blank \in Content /\ ReqOf(b) \in Requests
         /\ Torn(b) \subseteq [FileSlots -> Content]
         /\ file[ReqOf(b)] \in [FileSlots -> Content]
<1>1. ASSUME dramFree # <<>>
      PROVE  /\ Top(dramFree) \in DramPool /\ Pop(dramFree) \in Seq(DramPool)
             /\ Push(Pop(dramFree), Top(dramFree)) = dramFree
  BY <1>1, PopPush DEF IInv, TypeOK
<1>2. ASSUME gpuFree # <<>>
      PROVE  Top(gpuFree) \in GpuPool /\ Pop(gpuFree) \in Seq(GpuPool)
  BY <1>2, PopPush DEF IInv, TypeOK
<1>3. ASSUME tier[b] = "GPU"
      PROVE  Copied(gpuMem[ptr[b]]) \subseteq Content
  BY <1>3, SlabsOfTier, CopiedIsContent DEF IInv, TypeOK
<1>4. ASSUME tier[b] = "DRAM"
      PROVE  dramMem[ptr[b]] \in Content /\ Copied(dramMem[ptr[b]]) \subseteq Content
  BY <1>4, SlabsOfTier, CopiedIsContent DEF IInv, TypeOK
<1>5. /\ ReqOf(b) \in Requests /\ FileSlot(b) \in FileSlots
      /\ file[ReqOf(b)] \in [FileSlots -> Content]
  BY BlockParts, FileSlotInFile DEF IInv, TypeOK
<1>6. file[ReqOf(b)][FileSlot(b)] \in Content
  BY <1>5
<1>7. Copied(file[ReqOf(b)][FileSlot(b)]) \subseteq Content /\ Blank \in Content
  BY <1>6, CopiedIsContent
<1>8. Torn(b) \subseteq [FileSlots -> Content]
  BY <1>5, <1>7 DEF Torn
<1> QED  BY <1>1, <1>2, <1>3, <1>4, <1>5, <1>6, <1>7, <1>8

\* orchkv_evict_to_dram keeps the invariant.
LEMMA EvictToDramKeepsInv ==
  ASSUME IInv, NEW b \in Blocks, EvictToDram(b)
  PROVE  IInv'
<1>1. In(b, "GPU") /\ dramFree # <<>> /\ inited /\ tier[b] = "GPU"
  BY DEF EvictToDram, In
<1>2. CASE RollBack(b, "HOT") /\ UNCHANGED file
  BY <1>1, <1>2, RollBackKeepsInv DEF HomeState, IInv, TypeOK
<1>3. CASE ~ (RollBack(b, "HOT") /\ UNCHANGED file)
  <2>1. /\ Relocate(b, "DRAM", Top(dramFree), "WARM")
        /\ dramFree' = Pop(dramFree) /\ gpuFree' = Push(gpuFree, ptr[b])
        /\ \E data \in Copied(gpuMem[ptr[b]]) :
             dramMem' = [dramMem EXCEPT ![Top(dramFree)] = data]
        /\ gpuMem' = [gpuMem EXCEPT ![ptr[b]] = Blank] /\ UNCHANGED file
        /\ CountHop(ReqOf(b), "GPU", "DRAM") /\ UNCHANGED <<reqVars, metaVars, addrmap>>
    BY <1>3 DEF EvictToDram
  <2>2. /\ tier' = [tier EXCEPT ![b] = "DRAM"] /\ ptr' = [ptr EXCEPT ![b] = Top(dramFree)]
        /\ state' = [state EXCEPT ![b] = HomeState("DRAM")]
    BY <1>1, <2>1, Homes, Transitions DEF Relocate, IInv, HomeState
  <2>3. /\ tier'[b] = "DRAM" /\ ptr'[b] = Top(dramFree)
        /\ \A c \in Blocks \ {b} : tier'[c] = tier[c] /\ ptr'[c] = ptr[c]
    BY <2>2 DEF IInv, TypeOK
  <2>4. /\ PoolOK(gpuFree', GpuPool, "GPU", tier', ptr') /\ gpuFree' \in Seq(GpuPool)
        /\ PoolOK(dramFree', DramPool, "DRAM", tier', ptr')
    BY <1>1, <2>1, <2>3, PoolsAfterMove
  <2>5. /\ gpuMem' \in [GpuPool -> Content] /\ dramMem' \in [DramPool -> Content]
        /\ file' \in [Requests -> [FileSlots -> Content]]
    BY <1>1, <2>1, Typed DEF IInv, TypeOK
  <2>6. Top(dramFree) \in HomeSlabs("DRAM") /\ dramFree' \in Seq(DramPool)
    BY <1>1, <2>1, Typed DEF HomeSlabs
  <2>7. Moved(b, "GPU", "DRAM", Top(dramFree))
    BY <2>1, <2>2, <2>4, <2>5, <2>6 DEF Moved
  <2> QED  BY <1>1, <2>7, MoveKeepsInv
<1> QED  BY <1>2, <1>3

\* orchkv_promote_to_gpu keeps the invariant.
LEMMA PromoteToGpuKeepsInv ==
  ASSUME IInv, NEW b \in Blocks, PromoteToGpu(b)
  PROVE  IInv'
<1>1. In(b, "DRAM") /\ gpuFree # <<>> /\ inited /\ tier[b] = "DRAM"
  BY DEF PromoteToGpu, In
<1>2. CASE RollBack(b, "WARM") /\ UNCHANGED file
  BY <1>1, <1>2, RollBackKeepsInv DEF HomeState, IInv, TypeOK
<1>3. CASE ~ (RollBack(b, "WARM") /\ UNCHANGED file)
  <2>1. /\ Relocate(b, "GPU", Top(gpuFree), "HOT")
        /\ gpuFree' = Pop(gpuFree) /\ dramFree' = Push(dramFree, ptr[b])
        /\ \E data \in Copied(dramMem[ptr[b]]) :
             gpuMem' = [gpuMem EXCEPT ![Top(gpuFree)] = data]
        /\ dramMem' = [dramMem EXCEPT ![ptr[b]] = Blank] /\ UNCHANGED file
        /\ CountHop(ReqOf(b), "DRAM", "GPU") /\ UNCHANGED <<reqVars, metaVars, addrmap>>
    BY <1>3 DEF PromoteToGpu
  <2>2. /\ tier' = [tier EXCEPT ![b] = "GPU"] /\ ptr' = [ptr EXCEPT ![b] = Top(gpuFree)]
        /\ state' = [state EXCEPT ![b] = HomeState("GPU")]
    BY <1>1, <2>1, Homes, Transitions DEF Relocate, IInv, HomeState
  <2>3. /\ tier'[b] = "GPU" /\ ptr'[b] = Top(gpuFree)
        /\ \A c \in Blocks \ {b} : tier'[c] = tier[c] /\ ptr'[c] = ptr[c]
    BY <2>2 DEF IInv, TypeOK
  <2>4. /\ PoolOK(dramFree', DramPool, "DRAM", tier', ptr') /\ dramFree' \in Seq(DramPool)
        /\ PoolOK(gpuFree', GpuPool, "GPU", tier', ptr')
    BY <1>1, <2>1, <2>3, PoolsAfterMove
  <2>5. /\ gpuMem' \in [GpuPool -> Content] /\ dramMem' \in [DramPool -> Content]
        /\ file' \in [Requests -> [FileSlots -> Content]]
    BY <1>1, <2>1, Typed DEF IInv, TypeOK
  <2>6. Top(gpuFree) \in HomeSlabs("GPU") /\ gpuFree' \in Seq(GpuPool)
    BY <1>1, <2>1, Typed DEF HomeSlabs
  <2>7. Moved(b, "DRAM", "GPU", Top(gpuFree))
    BY <2>1, <2>2, <2>4, <2>5, <2>6 DEF Moved
  <2> QED  BY <1>1, <2>7, MoveKeepsInv
<1> QED  BY <1>2, <1>3

\* orchkv_evict_to_storage keeps the invariant.
LEMMA EvictToStorageKeepsInv ==
  ASSUME IInv, NEW b \in Blocks, EvictToStorage(b)
  PROVE  IInv'
<1>1. In(b, "DRAM") /\ ReqOf(b) \in fctx /\ inited /\ tier[b] = "DRAM"
  BY DEF EvictToStorage, In
<1>2. CASE RollBack(b, "WARM") /\ \E f \in Torn(b) : file' = [file EXCEPT ![ReqOf(b)] = f]
  <2>1. file' \in [Requests -> [FileSlots -> Content]]
    BY <1>2, Typed DEF IInv, TypeOK
  <2> QED  BY <1>1, <1>2, <2>1, RollBackKeepsInv DEF HomeState
<1>3. CASE ~ (RollBack(b, "WARM") /\ \E f \in Torn(b) : file' = [file EXCEPT ![ReqOf(b)] = f])
  <2>1. /\ Relocate(b, "NVM", NoSlab, "COLD") /\ dramFree' = Push(dramFree, ptr[b])
        /\ file' = [file EXCEPT ![ReqOf(b)][FileSlot(b)] = dramMem[ptr[b]]]
        /\ dramMem' = [dramMem EXCEPT ![ptr[b]] = Blank]
        /\ CountHop(ReqOf(b), "DRAM", "NVM")
        /\ UNCHANGED <<reqVars, metaVars, addrmap, gpuFree, gpuMem>>
    BY <1>3 DEF EvictToStorage
  <2>2. /\ tier' = [tier EXCEPT ![b] = "NVM"] /\ ptr' = [ptr EXCEPT ![b] = NoSlab]
        /\ state' = [state EXCEPT ![b] = HomeState("NVM")]
    BY <1>1, <2>1, Homes, Transitions DEF Relocate, IInv, HomeState
  <2>3. /\ tier'[b] = "NVM"
        /\ \A c \in Blocks \ {b} : tier'[c] = tier[c] /\ ptr'[c] = ptr[c]
    BY <2>2 DEF IInv, TypeOK
  <2>4. /\ PoolOK(dramFree', DramPool, "DRAM", tier', ptr') /\ dramFree' \in Seq(DramPool)
        /\ PoolOK(gpuFree', GpuPool, "GPU", tier', ptr')
    BY <1>1, <2>1, <2>3, PoolsAfterMove
  <2>5. /\ gpuMem' \in [GpuPool -> Content] /\ dramMem' \in [DramPool -> Content]
        /\ file' \in [Requests -> [FileSlots -> Content]]
    BY <1>1, <2>1, Typed DEF IInv, TypeOK
  <2>6. NoSlab \in HomeSlabs("NVM") /\ gpuFree' \in Seq(GpuPool)
    BY <2>1 DEF HomeSlabs, IInv, TypeOK
  <2>7. Moved(b, "DRAM", "NVM", NoSlab)
    BY <1>1, <2>1, <2>2, <2>4, <2>5, <2>6 DEF Moved
  <2> QED  BY <1>1, <2>7, MoveKeepsInv
<1> QED  BY <1>2, <1>3

\* The first hop from storage, on its own (orchkv_promote_from_storage) or
\* when the second hop of orchkv_get_kv_block fails, keeps the invariant.
LEMMA ReadBackKeepsInv ==
  ASSUME IInv, NEW b \in Blocks, In(b, "NVM"), ReqOf(b) \in fctx, dramFree # <<>>,
         dramMem' = [dramMem EXCEPT ![Top(dramFree)] = file[ReqOf(b)][FileSlot(b)]],
         Relocate(b, "DRAM", Top(dramFree), "WARM"), dramFree' = Pop(dramFree),
         CountHop(ReqOf(b), "NVM", "DRAM"),
         UNCHANGED <<reqVars, metaVars, addrmap, gpuFree, gpuMem, file>>
  PROVE  IInv'
<1>1. inited /\ tier[b] = "NVM"
  BY DEF In
<1>2. /\ tier' = [tier EXCEPT ![b] = "DRAM"] /\ ptr' = [ptr EXCEPT ![b] = Top(dramFree)]
      /\ state' = [state EXCEPT ![b] = HomeState("DRAM")]
  BY <1>1, Homes, Transitions DEF Relocate, IInv, HomeState
<1>3. /\ tier'[b] = "DRAM" /\ ptr'[b] = Top(dramFree)
      /\ \A c \in Blocks \ {b} : tier'[c] = tier[c] /\ ptr'[c] = ptr[c]
  BY <1>2 DEF IInv, TypeOK
<1>4. /\ PoolOK(gpuFree', GpuPool, "GPU", tier', ptr')
      /\ PoolOK(dramFree', DramPool, "DRAM", tier', ptr')
  BY <1>1, <1>3, PoolsAfterMove
<1>5. /\ gpuMem' \in [GpuPool -> Content] /\ dramMem' \in [DramPool -> Content]
      /\ file' \in [Requests -> [FileSlots -> Content]]
  BY <1>1, Typed DEF IInv, TypeOK
<1>6. /\ Top(dramFree) \in HomeSlabs("DRAM") /\ dramFree' \in Seq(DramPool)
      /\ gpuFree' \in Seq(GpuPool)
  BY Typed DEF HomeSlabs, IInv, TypeOK
<1>7. Moved(b, "NVM", "DRAM", Top(dramFree))
  BY <1>2, <1>4, <1>5, <1>6 DEF Moved
<1> QED  BY <1>7, MoveKeepsInv

\* orchkv_promote_from_storage keeps the invariant.
LEMMA PromoteFromStorageKeepsInv ==
  ASSUME IInv, NEW b \in Blocks, PromoteFromStorage(b)
  PROVE  IInv'
<1>1. In(b, "NVM") /\ ReqOf(b) \in fctx /\ dramFree # <<>>
  BY DEF PromoteFromStorage
<1>2. CASE RollBack(b, "COLD") /\ UNCHANGED file
  BY <1>1, <1>2, RollBackKeepsInv DEF HomeState, IInv, TypeOK
<1>3. CASE ~ (RollBack(b, "COLD") /\ UNCHANGED file)
  BY <1>1, <1>3, ReadBackKeepsInv DEF PromoteFromStorage
<1> QED  BY <1>2, <1>3

\* orchkv_evict_cold keeps the invariant: when the write fails, the block is
\* in DRAM with everything that goes with it.
LEMMA EvictColdKeepsInv ==
  ASSUME IInv, NEW b \in Blocks, EvictCold(b)
  PROVE  IInv'
<1> DEFINE HalfWay ==
             /\ Relocate(b, "DRAM", Top(dramFree), "WARM")
             /\ \E data \in Copied(gpuMem[ptr[b]]) :
                  dramMem' = [dramMem EXCEPT ![Top(dramFree)] = data]
             /\ dramFree' = Pop(dramFree)
             /\ \E f \in IF ReqOf(b) \in fctx THEN Torn(b) ELSE {file[ReqOf(b)]} :
                  file' = [file EXCEPT ![ReqOf(b)] = f]
             /\ gpuFree' = Push(gpuFree, ptr[b])
             /\ gpuMem' = [gpuMem EXCEPT ![ptr[b]] = Blank]
             /\ CountHop(ReqOf(b), "GPU", "DRAM")
             /\ UNCHANGED <<reqVars, metaVars, addrmap>>
           AllTheWay ==
             /\ ReqOf(b) \in fctx
             /\ \E data \in Copied(gpuMem[ptr[b]]) :
                  file' = [file EXCEPT ![ReqOf(b)][FileSlot(b)] = data]
             /\ tier' = [tier EXCEPT ![b] = "NVM"] /\ ptr' = [ptr EXCEPT ![b] = NoSlab]
             /\ state' = [state EXCEPT ![b] = Migrated(Migrated(@, "WARM"), "COLD")]
             /\ dramFree' = Push(Pop(dramFree), Top(dramFree))
             /\ gpuFree' = Push(gpuFree, ptr[b])
             /\ gpuMem' = [gpuMem EXCEPT ![ptr[b]] = Blank]
             /\ CountHop(ReqOf(b), "GPU", "NVM")
             /\ UNCHANGED <<reqVars, metaVars, addrmap, dramMem>>
<1>1. In(b, "GPU") /\ dramFree # <<>> /\ inited /\ tier[b] = "GPU" /\ state[b] = "HOT"
  BY Homes DEF EvictCold, In, IInv, HomeState
<1>2. (RollBack(b, "HOT") /\ UNCHANGED file) \/ HalfWay \/ AllTheWay
  BY DEF EvictCold
<1>3. CASE RollBack(b, "HOT") /\ UNCHANGED file
  BY <1>1, <1>3, RollBackKeepsInv DEF HomeState, IInv, TypeOK
<1>4. CASE HalfWay
  <2>2. /\ tier' = [tier EXCEPT ![b] = "DRAM"] /\ ptr' = [ptr EXCEPT ![b] = Top(dramFree)]
        /\ state' = [state EXCEPT ![b] = HomeState("DRAM")]
    BY <1>1, <1>4, Transitions DEF Relocate, HomeState
  <2>3. /\ tier'[b] = "DRAM" /\ ptr'[b] = Top(dramFree)
        /\ \A c \in Blocks \ {b} : tier'[c] = tier[c] /\ ptr'[c] = ptr[c]
    BY <2>2 DEF IInv, TypeOK
  <2>4. /\ PoolOK(gpuFree', GpuPool, "GPU", tier', ptr') /\ gpuFree' \in Seq(GpuPool)
        /\ PoolOK(dramFree', DramPool, "DRAM", tier', ptr')
    BY <1>1, <1>4, <2>3, PoolsAfterMove
  <2>5. /\ gpuMem' \in [GpuPool -> Content] /\ dramMem' \in [DramPool -> Content]
        /\ file' \in [Requests -> [FileSlots -> Content]]
    BY <1>1, <1>4, Typed DEF IInv, TypeOK
  <2>6. Top(dramFree) \in HomeSlabs("DRAM") /\ dramFree' \in Seq(DramPool)
    BY <1>1, <1>4, Typed DEF HomeSlabs
  <2>7. Moved(b, "GPU", "DRAM", Top(dramFree))
    BY <1>4, <2>2, <2>4, <2>5, <2>6 DEF Moved
  <2> QED  BY <1>1, <2>7, MoveKeepsInv
<1>5. CASE AllTheWay
  <2>2. /\ tier' = [tier EXCEPT ![b] = "NVM"] /\ ptr' = [ptr EXCEPT ![b] = NoSlab]
        /\ state' = [state EXCEPT ![b] = HomeState("NVM")]
    BY <1>1, <1>5, Transitions DEF HomeState
  <2>3. /\ tier'[b] = "NVM"
        /\ \A c \in Blocks \ {b} : tier'[c] = tier[c] /\ ptr'[c] = ptr[c]
    BY <2>2 DEF IInv, TypeOK
  <2>4. dramFree' = dramFree /\ dramFree \in Seq(DramPool)
    BY <1>1, <1>5, Typed DEF IInv, TypeOK
  <2>5. /\ PoolOK(gpuFree', GpuPool, "GPU", tier', ptr') /\ gpuFree' \in Seq(GpuPool)
        /\ PoolOK(dramFree', DramPool, "DRAM", tier', ptr')
    BY <1>1, <1>5, <2>3, <2>4, PoolsAfterMove
  <2>6. /\ gpuMem' \in [GpuPool -> Content] /\ dramMem' \in [DramPool -> Content]
        /\ file' \in [Requests -> [FileSlots -> Content]]
    <3>1. PICK data \in Content :
               file' = [file EXCEPT ![ReqOf(b)][FileSlot(b)] = data]
      BY <1>1, <1>5, Typed
    <3>2. file' \in [Requests -> [FileSlots -> Content]]
      BY <3>1 DEF IInv, TypeOK
    <3> QED  BY <1>1, <1>5, <3>2, Typed DEF IInv, TypeOK
  <2>7. Moved(b, "GPU", "NVM", NoSlab)
    BY <1>5, <2>2, <2>4, <2>5, <2>6 DEF Moved, HomeSlabs
  <2> QED  BY <1>1, <2>7, MoveKeepsInv
<1> QED  BY <1>2, <1>3, <1>4, <1>5

\* orchkv_get_kv_block keeps the invariant, from either tier and with either
\* hop failing.
LEMMA GetKvBlockKeepsInv ==
  ASSUME IInv, NEW b \in Blocks, GetKvBlock(b)
  PROVE  IInv'
<1> DEFINE OnlyRead ==
             /\ dramMem' = [dramMem EXCEPT ![Top(dramFree)] = file[ReqOf(b)][FileSlot(b)]]
             /\ Relocate(b, "DRAM", Top(dramFree), "WARM")
             /\ dramFree' = Pop(dramFree)
             /\ CountHop(ReqOf(b), "NVM", "DRAM")
             /\ UNCHANGED <<reqVars, metaVars, addrmap, gpuFree, gpuMem, file>>
           AllTheWay ==
             /\ gpuFree # <<>>
             /\ \E data \in Copied(file[ReqOf(b)][FileSlot(b)]) :
                  gpuMem' = [gpuMem EXCEPT ![Top(gpuFree)] = data]
             /\ tier' = [tier EXCEPT ![b] = "GPU"]
             /\ ptr' = [ptr EXCEPT ![b] = Top(gpuFree)]
             /\ state' = [state EXCEPT ![b] = Migrated(Migrated(@, "WARM"), "HOT")]
             /\ dramFree' = Push(Pop(dramFree), Top(dramFree))
             /\ gpuFree' = Pop(gpuFree)
             /\ CountHop(ReqOf(b), "NVM", "GPU")
             /\ UNCHANGED <<reqVars, metaVars, addrmap, dramMem, file>>
<1>1. CASE PromoteToGpu(b)
  BY <1>1, PromoteToGpuKeepsInv
<1>2. CASE ~ PromoteToGpu(b)
  <2>1. /\ In(b, "NVM") /\ ReqOf(b) \in fctx /\ dramFree # <<>> /\ inited
        /\ tier[b] = "NVM" /\ state[b] = "COLD"
    BY <1>2, Homes DEF GetKvBlock, In, IInv, HomeState
  <2>2. (RollBack(b, "COLD") /\ UNCHANGED file) \/ OnlyRead \/ AllTheWay
    BY <1>2 DEF GetKvBlock
  <2>3. CASE RollBack(b, "COLD") /\ UNCHANGED file
    BY <2>1, <2>3, RollBackKeepsInv DEF HomeState, IInv, TypeOK
  <2>4. CASE OnlyRead
    BY <2>1, <2>4, ReadBackKeepsInv
  <2>5. CASE AllTheWay
    <3>1. /\ tier' = [tier EXCEPT ![b] = "GPU"] /\ ptr' = [ptr EXCEPT ![b] = Top(gpuFree)]
          /\ state' = [state EXCEPT ![b] = HomeState("GPU")]
      BY <2>1, <2>5, Transitions DEF HomeState
    <3>2. /\ tier'[b] = "GPU" /\ ptr'[b] = Top(gpuFree)
          /\ \A c \in Blocks \ {b} : tier'[c] = tier[c] /\ ptr'[c] = ptr[c]
      BY <3>1 DEF IInv, TypeOK
    <3>3. dramFree' = dramFree /\ dramFree \in Seq(DramPool)
      BY <2>1, <2>5, Typed DEF IInv, TypeOK
    <3>4. /\ PoolOK(dramFree', DramPool, "DRAM", tier', ptr')
          /\ PoolOK(gpuFree', GpuPool, "GPU", tier', ptr')
      BY <2>1, <2>5, <3>2, <3>3, PoolsAfterMove
    <3>5. /\ gpuMem' \in [GpuPool -> Content] /\ dramMem' \in [DramPool -> Content]
          /\ file' \in [Requests -> [FileSlots -> Content]]
      BY <2>1, <2>5, Typed DEF IInv, TypeOK
    <3>6. Top(gpuFree) \in HomeSlabs("GPU") /\ gpuFree' \in Seq(GpuPool)
      BY <2>5, Typed DEF HomeSlabs
    <3>7. Moved(b, "NVM", "GPU", Top(gpuFree))
      BY <2>5, <3>1, <3>3, <3>4, <3>5, <3>6 DEF Moved
    <3> QED  BY <2>1, <3>7, MoveKeepsInv
  <2> QED  BY <2>2, <2>3, <2>4, <2>5
<1> QED  BY <1>1, <1>2

-----------------------------------------------------------------------------
(* Lifecycle.                                                              *)

\* A request without a context has no block anywhere.
LEMMA NoContextNoBlock ==
  ASSUME IInv, NEW b \in Blocks, ReqOf(b) \notin live
  PROVE  tier[b] = "NONE" /\ b \notin addrmap
  BY Homes DEF IInv, InVector

\* orchkv_init keeps the invariant: the pools it builds have no owner yet.
LEMMA SystemInitKeepsInv ==
  ASSUME IInv, SystemInit
  PROVE  IInv'
<1>1. live = {} /\ \A b \in Blocks : tier[b] = "NONE" /\ b \notin addrmap
  BY NoContextNoBlock DEF IInv, IdleIsEmpty, SystemInit
<1>2. addrmap' = addrmap
  BY <1>1 DEF IInv, TypeOK, SystemInit
<1>3. GpuSlabs \in Nat /\ DramSlabs \in Nat
  BY ConstantsOK
<1>4. SlabOwnership'
  <2>1. \A t \in {"GPU", "DRAM"} : ~ \E b \in Blocks : tier'[b] = t
    BY <1>1 DEF SystemInit
  <2>2. PoolOK(FullStack(GpuSlabs), GpuPool, "GPU", tier', ptr')
    BY <1>3, <2>1, FullStackOwnsPool DEF PoolOK, GpuPool
  <2>3. PoolOK(FullStack(DramSlabs), DramPool, "DRAM", tier', ptr')
    BY <1>3, <2>1, FullStackOwnsPool DEF PoolOK, DramPool
  <2> QED  BY <2>2, <2>3 DEF SystemInit, SlabOwnership
<1>5. TypeOK'
  BY <1>2, <1>3, FullStackOwnsPool DEF IInv, TypeOK, SystemInit, GpuPool, DramPool, Content,
     Blank, countVars, metaVars
<1>6. HomeAgrees'
  BY <1>2 DEF IInv, HomeAgrees, SystemInit, InVector, metaVars
<1>7. CountersAgree'
  BY DEF IInv, CountersAgree, On, SystemInit, countVars, metaVars
<1>8. AckedFits' /\ IdleIsEmpty'
  BY DEF IInv, AckedFits, IdleIsEmpty, SystemInit, metaVars
<1> QED  BY <1>4, <1>5, <1>6, <1>7, <1>8 DEF IInv

\* orchkv_shutdown keeps the invariant.
LEMMA SystemShutdownKeepsInv ==
  ASSUME IInv, SystemShutdown
  PROVE  IInv'
<1>1. TypeOK'
  BY EmptySeq DEF IInv, TypeOK, SystemShutdown, countVars, metaVars
<1>2. HomeAgrees'
  BY DEF IInv, HomeAgrees, SystemShutdown, InVector, metaVars
<1>3. CountersAgree'
  BY DEF IInv, CountersAgree, On, SystemShutdown, countVars, metaVars
<1>4. SlabOwnership' /\ AckedFits' /\ IdleIsEmpty'
  BY DEF IInv, SlabOwnership, AckedFits, IdleIsEmpty, SystemShutdown, metaVars
<1> QED  BY <1>1, <1>2, <1>3, <1>4 DEF IInv

\* orchkv_request_create keeps the invariant.
LEMMA RequestCreateKeepsInv ==
  ASSUME IInv, NEW r \in Requests, RequestCreate(r)
  PROVE  IInv'
<1>1. TypeOK'
  BY DEF IInv, TypeOK, RequestCreate, countVars
<1>2. HomeAgrees'
  BY DEF IInv, HomeAgrees, RequestCreate, InVector
<1>3. CountersAgree'
  <2>1. /\ tier' = tier /\ acked' = acked /\ seqLen' = seqLen
        /\ onGpu' = onGpu /\ onDram' = onDram /\ onStorage' = onStorage
    BY DEF RequestCreate, countVars
  <2> QED  BY <2>1 DEF IInv, CountersAgree
<1>4. SlabOwnership'
  BY DEF IInv, SlabOwnership, PoolOK, RequestCreate
<1>5. AckedFits' /\ IdleIsEmpty'
  BY DEF IInv, AckedFits, IdleIsEmpty, RequestCreate
<1> QED  BY <1>1, <1>2, <1>3, <1>4, <1>5 DEF IInv

\* A caller flagging a block keeps the invariant.
LEMMA TogglePinKeepsInv ==
  ASSUME IInv, NEW b \in Blocks, TogglePin(b)
  PROVE  IInv'
<1>1. TypeOK'
  BY DEF IInv, TypeOK, TogglePin, countVars
<1>2. HomeAgrees'
  BY DEF IInv, HomeAgrees, TogglePin, InVector
<1>3. CountersAgree'
  BY DEF IInv, CountersAgree, On, TogglePin, countVars
<1>4. SlabOwnership'
  BY DEF IInv, SlabOwnership, PoolOK, TogglePin
<1>5. AckedFits' /\ IdleIsEmpty'
  BY DEF IInv, AckedFits, IdleIsEmpty, TogglePin
<1> QED  BY <1>1, <1>2, <1>3, <1>4, <1>5 DEF IInv

\* A call that changes no variable keeps the invariant.
LEMMA StutterKeepsInv ==
  ASSUME IInv, UNCHANGED vars
  PROVE  IInv'
<1>1. TypeOK'
  BY DEF IInv, TypeOK, vars
<1>2. HomeAgrees'
  BY DEF IInv, HomeAgrees, InVector, vars
<1>3. CountersAgree'
  <2>1. /\ tier' = tier /\ acked' = acked /\ seqLen' = seqLen
        /\ onGpu' = onGpu /\ onDram' = onDram /\ onStorage' = onStorage
    BY DEF vars
  <2> QED  BY <2>1 DEF IInv, CountersAgree
<1>4. SlabOwnership'
  BY DEF IInv, SlabOwnership, PoolOK, vars
<1>5. AckedFits' /\ IdleIsEmpty'
  BY DEF IInv, AckedFits, IdleIsEmpty, vars
<1> QED  BY <1>1, <1>2, <1>3, <1>4, <1>5 DEF IInv

\* Freeing the blocks of a request one after the other keeps a pool sound.
LEMMA DestroyKeepsPool ==
  ASSUME NEW r \in Requests, NEW t, t # "NONE", NEW pool, NEW stack \in Seq(pool),
         PoolOK(stack, pool, t, tier, ptr),
         \A b \in Blocks : tier[b] = t => ptr[b] \in pool,
         tier' = NoBlockOf(r, tier, "NONE"), ptr' = NoBlockOf(r, ptr, NoSlab),
         NEW S \in SUBSET Blocks, \A b \in Blocks : b \in S <=> ReqOf(b) = r /\ tier[b] = t
  PROVE  /\ PoolOK(Released(stack, S), pool, t, tier', ptr')
         /\ Released(stack, S) \in Seq(pool)
<1>1. /\ S \in SUBSET Blocks /\ \A b \in S : tier[b] = t
      /\ \A b, c \in S : ReqOf(b) = ReqOf(c)
  OBVIOUS
<1>3. /\ \A k \in 1 .. Cardinality(S) : Nth(k, S) \in S
      /\ \A k, l \in 1 .. Cardinality(S) : Nth(k, S) = Nth(l, S) => k = l
      /\ \A b \in S : \E k \in 1 .. Cardinality(S) : Nth(k, S) = b
  BY <1>1, NthIsBijection
<1> DEFINE m     == Cardinality(S)
           freed == [k \in 1 .. m |-> Nth(k, S)]
           tail  == [k \in 1 .. m |-> ptr[Nth(k, S)]]
<1>2. m \in Nat
  BY <1>1, RankIsBijection
<1>4. tail \in Seq(pool) /\ Len(tail) = m
  <2>1. tail \in [1 .. m -> pool]
    BY <1>1, <1>3
  <2> HIDE DEF m, tail
  <2> QED  BY <1>2, <2>1
<1>5. \A b \in S : tier[b] = t /\ tier'[b] # t
  BY DEF NoBlockOf
<1>9. \A b \in Blocks \ S : (tier'[b] = t <=> tier[b] = t) /\ (tier[b] = t => ptr'[b] = ptr[b])
  BY DEF NoBlockOf
<1>6. \A k \in 1 .. m : freed[k] = Nth(k, S) /\ tail[k] = ptr[freed[k]]
  OBVIOUS
<1>7. /\ \A k \in 1 .. m : freed[k] \in S
      /\ \A k, l \in 1 .. m : freed[k] = freed[l] => k = l
      /\ \A b \in S : \E k \in 1 .. m : freed[k] = b
  <2> HIDE DEF freed
  <2> QED  BY <1>3, <1>6
<1> HIDE DEF m, freed, tail
<1>10. Leaves(S, freed, tail, m, t, tier, ptr, tier', ptr')
  <2>1. Len(tail) = m /\ \A k \in 1 .. m : tail[k] = ptr[freed[k]]
    BY <1>4, <1>6
  <2> QED  BY <1>5, <1>7, <1>9, <2>1, Zenon DEF Leaves
<1>8. PoolOK(stack \o tail, pool, t, tier', ptr')
  BY <1>1, <1>2, <1>4, <1>10, ReleaseKeepsPool
<1>11. stack \o tail \in Seq(pool)
  BY <1>4, ConcatProperties
<1> QED  BY <1>8, <1>11 DEF Released, tail, m

\* orchkv_request_destroy keeps the invariant.
LEMMA RequestDestroyKeepsInv ==
  ASSUME IInv, NEW r \in Requests, RequestDestroy(r)
  PROVE  IInv'
<1> DEFINE mine(t) == {b \in Blocks : ReqOf(b) = r /\ tier[b] = t}
<1>1. /\ inited /\ inited' = inited /\ r \in live
      /\ live' = live \ {r} /\ fctx' = fctx \ {r}
      /\ pinned' = {b \in pinned : ReqOf(b) # r}
      /\ addrmap' = {b \in addrmap : ReqOf(b) # r}
      /\ state' = NoBlockOf(r, state, "FREE") /\ tier' = NoBlockOf(r, tier, "NONE")
      /\ ptr' = NoBlockOf(r, ptr, NoSlab)
  BY DEF RequestDestroy
<1>2. /\ gpuFree' = Released(gpuFree, mine("GPU"))
      /\ dramFree' = Released(dramFree, mine("DRAM"))
      /\ gpuMem' = [s \in GpuPool |->
           IF \E b \in mine("GPU") : ptr[b] = s THEN Blank ELSE gpuMem[s]]
      /\ dramMem' = [s \in DramPool |->
           IF \E b \in mine("DRAM") : ptr[b] = s THEN Blank ELSE dramMem[s]]
      /\ file' = [file EXCEPT ![r] = [o \in FileSlots |-> Blank]]
  BY DEF RequestDestroy
<1>3. /\ onGpu' = [onGpu EXCEPT ![r] = 0] /\ onDram' = [onDram EXCEPT ![r] = 0]
      /\ onStorage' = [onStorage EXCEPT ![r] = 0]
      /\ seqLen' = [seqLen EXCEPT ![r] = 0]
      /\ ntok' = [x \in Streams |-> IF x[1] = r THEN 0 ELSE ntok[x]]
      /\ acked' = [x \in Streams |-> IF x[1] = r THEN 0 ELSE acked[x]]
      /\ failed' = {x \in failed : x[1] # r}
  BY DEF RequestDestroy
<1>4. /\ PoolOK(gpuFree', GpuPool, "GPU", tier', ptr') /\ gpuFree' \in Seq(GpuPool)
      /\ PoolOK(dramFree', DramPool, "DRAM", tier', ptr') /\ dramFree' \in Seq(DramPool)
  <2>1. /\ gpuFree \in Seq(GpuPool) /\ dramFree \in Seq(DramPool)
        /\ PoolOK(gpuFree, GpuPool, "GPU", tier, ptr)
        /\ PoolOK(dramFree, DramPool, "DRAM", tier, ptr)
    BY <1>1 DEF IInv, TypeOK, SlabOwnership
  <2>2. /\ PoolOK(Released(gpuFree, mine("GPU")), GpuPool, "GPU", tier', ptr')
        /\ Released(gpuFree, mine("GPU")) \in Seq(GpuPool)
    BY <1>1, <2>1, SlabsOfTier, DestroyKeepsPool DEF IInv
  <2>3. /\ PoolOK(Released(dramFree, mine("DRAM")), DramPool, "DRAM", tier', ptr')
        /\ Released(dramFree, mine("DRAM")) \in Seq(DramPool)
    BY <1>1, <2>1, SlabsOfTier, DestroyKeepsPool DEF IInv
  <2> QED  BY <1>2, <2>2, <2>3
<1> HIDE DEF mine
<1>5. TypeOK'
  <2>1. /\ state' \in [Blocks -> BlockStates] /\ tier' \in [Blocks -> Tiers]
        /\ ptr' \in [Blocks -> GpuPool \union DramPool \union {NoSlab}]
    BY <1>1 DEF IInv, TypeOK, NoBlockOf, BlockStates, Tiers
  <2>2. /\ gpuMem' \in [GpuPool -> Content] /\ dramMem' \in [DramPool -> Content]
        /\ file' \in [Requests -> [FileSlots -> Content]]
    BY <1>2 DEF IInv, TypeOK, Blank, Content
  <2>3. /\ ntok' \in [Streams -> 0 .. MaxTokens] /\ acked' \in [Streams -> 0 .. MaxTokens]
        /\ seqLen' \in [Requests -> 0 .. MaxTokens]
        /\ onGpu' \in [Requests -> Nat] /\ onDram' \in [Requests -> Nat]
        /\ onStorage' \in [Requests -> Nat]
    BY <1>3, ConstantsOK DEF IInv, TypeOK
  <2> QED  BY <1>1, <1>3, <1>4, <2>1, <2>2, <2>3 DEF IInv, TypeOK
<1>6. HomeAgrees'
  <2>1. \A b \in Blocks : StreamOf(b) \in Streams /\ StreamOf(b)[1] = ReqOf(b)
    BY BlockParts
  <2>2. \A b \in Blocks : ReqOf(b) # r => ntok'[StreamOf(b)] = ntok[StreamOf(b)]
    BY <1>3, <2>1
  <2> QED  BY <1>1, <2>2 DEF IInv, HomeAgrees, NoBlockOf, InVector
<1>7. CountersAgree'
  <2>1. ASSUME NEW q \in Requests, NEW t, t # "NONE"
        PROVE  On(q, t, tier') = IF q = r THEN {} ELSE On(q, t, tier)
    BY <1>1, <2>1 DEF On, NoBlockOf
  <2>2. <<r, 0>> \in Streams /\ \A q \in Requests : <<q, 0>> \in Streams
    BY ConstantsOK DEF Streams, Layers
  <2>3. ASSUME NEW q \in Requests
        PROVE  /\ onGpu'[q] = Cardinality(On(q, "GPU", tier'))
               /\ onDram'[q] = Cardinality(On(q, "DRAM", tier'))
               /\ onStorage'[q] = Cardinality(On(q, "NVM", tier'))
    <3>1. CASE q = r
      BY <1>3, <2>1, <3>1, FS_EmptySet DEF IInv, TypeOK
    <3>2. CASE q # r
      BY <1>3, <2>1, <3>2 DEF IInv, TypeOK, CountersAgree
    <3> QED  BY <3>1, <3>2
  <2>4. \A q \in Requests : seqLen'[q] = acked'[<<q, 0>>]
    BY <1>3, <2>2 DEF IInv, TypeOK, CountersAgree
  <2> QED  BY <2>3, <2>4 DEF CountersAgree
<1>8. SlabOwnership' /\ AckedFits' /\ IdleIsEmpty'
  BY <1>1, <1>3, <1>4 DEF IInv, SlabOwnership, AckedFits, IdleIsEmpty
<1> QED  BY <1>5, <1>6, <1>7, <1>8 DEF IInv

-----------------------------------------------------------------------------
(* Filling blocks.                                                         *)

\* The step grows the metadata of stream x by n tokens and gives the blocks of
\* S, FREE until now, GPU slabs.
Filled(x, n, S, ok) ==
  /\ inited /\ x[1] \in live /\ n \in Nat /\ ntok[x] + n <= MaxTokens
  /\ S \in SUBSET Blocks /\ Cardinality(S) <= Len(gpuFree)
  /\ \A b \in S : /\ StreamOf(b) = x /\ state[b] = "FREE"
                  /\ IndexOf(b) < BlocksFor(ntok[x] + n)
  /\ ntok' = [ntok EXCEPT ![x] = ntok[x] + n]
  /\ AssignGpuSlabs(x[1], S) /\ Acknowledge(x, n, ok)
  /\ gpuMem' \in [GpuPool -> Content]
  /\ UNCHANGED <<reqVars, dramFree, dramMem, file, onDram, onStorage>>

\* The slabs the walk hands out are slabs of the pool.
LEMMA SlabForInPool ==
  ASSUME IInv, NEW S \in SUBSET Blocks, \A b, c \in S : ReqOf(b) = ReqOf(c),
         Cardinality(S) <= Len(gpuFree), NEW b \in S
  PROVE  SlabFor(b, S) \in GpuPool
<1>1. gpuFree \in Seq(GpuPool) /\ Len(gpuFree) \in Nat
  BY LenProperties DEF IInv, TypeOK
<1>2. Cardinality(S) \in Nat /\ Rank(b, S) \in 1 .. Cardinality(S)
  BY RankIsBijection
<1>3. Len(gpuFree) + 1 - Rank(b, S) \in 1 .. Len(gpuFree)
  BY <1>1, <1>2
<1> QED  BY <1>1, <1>3, ElementOfSeq DEF SlabFor

\* The GPU pool stays sound when the walk hands out slabs.
LEMMA FillKeepsPools ==
  ASSUME IInv, NEW x \in Streams, NEW n, NEW S, NEW ok, Filled(x, n, S, ok)
  PROVE  SlabOwnership' /\ gpuFree' \in Seq(GpuPool)
<1> DEFINE m    == Cardinality(S)
           rank == [b \in S |-> Rank(b, S)]
<1>1. /\ S \in SUBSET Blocks /\ Cardinality(S) <= Len(gpuFree) /\ inited
      /\ gpuFree' = SubSeq(gpuFree, 1, Len(gpuFree) - Cardinality(S))
      /\ dramFree' = dramFree
  BY DEF Filled, AssignGpuSlabs
<1>2. /\ gpuFree \in Seq(GpuPool) /\ Len(gpuFree) \in Nat
      /\ PoolOK(gpuFree, GpuPool, "GPU", tier, ptr)
      /\ PoolOK(dramFree, DramPool, "DRAM", tier, ptr)
  BY <1>1, LenProperties DEF IInv, TypeOK, SlabOwnership
<1>3. \A b, c \in S : ReqOf(b) = ReqOf(c)
  BY BlockParts DEF Filled, StreamOf, ReqOf
<1>4. \A b \in S : tier[b] = "NONE"
  BY <1>1, SlabsOfTier DEF Filled, IInv
<1>5. /\ m \in Nat /\ \A b \in S : Rank(b, S) \in 1 .. m
      /\ \A b, c \in S : Rank(b, S) = Rank(c, S) => b = c
      /\ \A k \in 1 .. m : \E b \in S : Rank(b, S) = k
  BY <1>1, <1>3, RankIsBijection
<1>6. /\ \A b \in S : /\ tier'[b] = "GPU" /\ ptr'[b] = SlabFor(b, S)
                      /\ rank[b] = Rank(b, S)
      /\ \A b \in Blocks \ S : tier'[b] = tier[b] /\ ptr'[b] = ptr[b]
  BY <1>1 DEF Filled, AssignGpuSlabs
<1>7. \A b \in S : /\ tier[b] # "GPU" /\ tier'[b] = "GPU"
                   /\ ptr'[b] = gpuFree[Len(gpuFree) + 1 - rank[b]]
  BY <1>4, <1>6 DEF SlabFor
<1>8. \A b \in Blocks \ S : (tier'[b] = "GPU" <=> tier[b] = "GPU")
                              /\ (tier[b] = "GPU" => ptr'[b] = ptr[b])
  BY <1>6
<1>9. m \in 0 .. Len(gpuFree)
  BY <1>1, <1>2, <1>5
<1>10. /\ \A b \in S : rank[b] \in 1 .. m
       /\ \A b, c \in S : rank[b] = rank[c] => b = c
       /\ \A k \in 1 .. m : \E b \in S : rank[b] = k
  BY <1>5, <1>6
<1> HIDE DEF m, rank
<1>11. Joins(S, rank, m, gpuFree, "GPU", tier, ptr, tier', ptr')
  BY <1>7, <1>8, <1>10, Zenon DEF Joins
<1>12. \A b \in Blocks : tier[b] = "GPU" => ptr[b] \in GpuPool
  BY SlabsOfTier DEF IInv
<1>13. PoolOK(SubSeq(gpuFree, 1, Len(gpuFree) - m), GpuPool, "GPU", tier', ptr')
  BY <1>1, <1>2, <1>9, <1>11, <1>12, AcquireKeepsPool
<1>14. SubSeq(gpuFree, 1, Len(gpuFree) - m) \in Seq(GpuPool)
  BY <1>2, <1>9, PopMany
<1>15. \A b \in Blocks : (tier'[b] = "DRAM" <=> tier[b] = "DRAM")
                           /\ (tier[b] = "DRAM" => ptr'[b] = ptr[b])
  BY <1>4, <1>6
<1>16. PoolOK(dramFree, DramPool, "DRAM", tier', ptr')
  BY <1>2, <1>15, OtherTierKeepsPool
<1> QED  BY <1>1, <1>13, <1>14, <1>16 DEF SlabOwnership, m

\* Filling blocks keeps the invariant, also when the pool ran empty half way.
LEMMA FillKeepsInv ==
  ASSUME IInv, NEW x \in Streams, NEW n, NEW S, NEW ok \in BOOLEAN, Filled(x, n, S, ok)
  PROVE  IInv'
<1>1. /\ S \in SUBSET Blocks /\ inited /\ inited' = inited /\ x[1] \in live
      /\ live' = live /\ fctx' = fctx /\ pinned' = pinned
      /\ n \in Nat /\ ntok[x] \in Nat /\ ntok[x] + n \in 0 .. MaxTokens
      /\ ntok' = [ntok EXCEPT ![x] = ntok[x] + n]
      /\ x[1] \in Requests /\ x[2] \in Layers /\ x = <<x[1], x[2]>>
  BY ConstantsOK DEF IInv, TypeOK, Filled, reqVars, Streams
<1>2. \A b \in S : /\ StreamOf(b) = x /\ ReqOf(b) = x[1] /\ state[b] = "FREE"
                   /\ tier[b] = "NONE" /\ IndexOf(b) < BlocksFor(ntok[x] + n)
  BY <1>1, SlabsOfTier DEF Filled, IInv, StreamOf, ReqOf
<1>3. \A b \in S : SlabFor(b, S) \in GpuPool
  BY <1>1, <1>2, SlabForInPool DEF Filled
<1>4. /\ \A b \in S : /\ tier'[b] = "GPU" /\ ptr'[b] = SlabFor(b, S)
                      /\ state'[b] = "HOT"
      /\ \A b \in Blocks \ S : /\ tier'[b] = tier[b] /\ ptr'[b] = ptr[b]
                               /\ state'[b] = state[b]
      /\ addrmap' = addrmap \union S
  BY <1>1, <1>2, Transitions DEF Filled, AssignGpuSlabs
<1>5. \A b \in Blocks : InVector(b) => InVector(b)'
  <2>1. ASSUME NEW y \in Streams
        PROVE  ntok[y] \in Nat /\ ntok'[y] \in Nat /\ ntok[y] <= ntok'[y]
    <3>1. ntok \in [Streams -> 0 .. MaxTokens] /\ MaxTokens \in Nat
      BY ConstantsOK DEF IInv, TypeOK
    <3>2. ntok'[y] = IF y = x THEN ntok[x] + n ELSE ntok[y]
      BY <1>1, <3>1
    <3> QED  BY <1>1, <3>1, <3>2
  <2>2. ASSUME NEW b \in Blocks, InVector(b)
        PROVE  InVector(b)'
    <3>1. StreamOf(b) \in Streams /\ IndexOf(b) \in Nat
      BY BlockParts
    <3>2. BlocksFor(ntok[StreamOf(b)]) <= BlocksFor(ntok'[StreamOf(b)])
      BY <2>1, <3>1, BlocksForMonotone
    <3>3. BlocksFor(ntok[StreamOf(b)]) \in Nat /\ BlocksFor(ntok'[StreamOf(b)]) \in Nat
      BY <2>1, <3>1, BlocksForType
    <3> QED  BY <1>1, <2>2, <3>1, <3>2, <3>3 DEF InVector
  <2> QED  BY <2>2
<1>6. HomeAgrees'
  <2>1. ASSUME NEW b \in S
        PROVE  InVector(b)'
    <3>1. StreamOf(b) = x /\ ntok'[x] = ntok[x] + n
      BY <1>1, <1>2 DEF IInv, TypeOK
    <3> QED  BY <1>1, <1>2, <3>1 DEF InVector
  <2>2. ASSUME NEW b \in S
        PROVE  /\ state'[b] = "HOT" /\ tier'[b] = "GPU" /\ ptr'[b] \in GpuPool
               /\ b \in addrmap'
    BY <1>3, <1>4
  <2>3. ASSUME NEW b \in Blocks \ S
        PROVE  /\ tier'[b] = tier[b] /\ ptr'[b] = ptr[b] /\ state'[b] = state[b]
               /\ b \in addrmap' <=> b \in addrmap
    BY <1>4
  <2> QED  BY <1>1, <1>5, <2>1, <2>2, <2>3 DEF IInv, HomeAgrees
<1>7. /\ onGpu' = [onGpu EXCEPT ![x[1]] = @ + Cardinality(S)]
      /\ onDram' = onDram /\ onStorage' = onStorage
  BY DEF Filled, AssignGpuSlabs, Count
<1>8. ASSUME NEW r \in Requests
      PROVE  /\ onGpu'[r] = Cardinality(On(r, "GPU", tier'))
             /\ onDram'[r] = Cardinality(On(r, "DRAM", tier'))
             /\ onStorage'[r] = Cardinality(On(r, "NVM", tier'))
  <2>1. /\ onGpu[r] = Cardinality(On(r, "GPU", tier)) /\ onGpu[r] \in Nat
        /\ onDram[r] = Cardinality(On(r, "DRAM", tier))
        /\ onStorage[r] = Cardinality(On(r, "NVM", tier))
    BY DEF IInv, CountersAgree, TypeOK
  <2>2. On(r, "DRAM", tier') = On(r, "DRAM", tier) /\ On(r, "NVM", tier') = On(r, "NVM", tier)
    BY <1>2, <1>4 DEF On
  <2>3. /\ Cardinality(On(x[1], "GPU", tier'))
             = Cardinality(On(x[1], "GPU", tier)) + Cardinality(S)
        /\ r # x[1] => On(r, "GPU", tier') = On(r, "GPU", tier)
    <3>1. \A b \in S : ReqOf(b) = x[1]
      BY <1>2
    <3>2. \A b \in S : tier[b] # "GPU" /\ tier'[b] = "GPU"
      BY <1>2, <1>4
    <3>3. \A b \in Blocks \ S : tier'[b] = "GPU" <=> tier[b] = "GPU"
      BY <1>4
    <3>4. Cardinality(On(x[1], "GPU", tier'))
             = Cardinality(On(x[1], "GPU", tier)) + Cardinality(S)
      BY <1>1, <3>1, <3>2, <3>3, JoinChangesCounts
    <3>5. r # x[1] => On(r, "GPU", tier') = On(r, "GPU", tier)
      BY <1>2, <1>4 DEF On
    <3> QED  BY <3>4, <3>5
  <2>4. onGpu'[r] = IF r = x[1] THEN onGpu[r] + Cardinality(S) ELSE onGpu[r]
    BY <1>1, <1>7 DEF IInv, TypeOK
  <2> QED  BY <1>7, <2>1, <2>2, <2>3, <2>4
<1>9. /\ acked' \in [Streams -> 0 .. MaxTokens] /\ seqLen' \in [Requests -> 0 .. MaxTokens]
      /\ \A y \in Streams : acked'[y] <= ntok'[y]
      /\ \A r \in Requests : seqLen'[r] = acked'[<<r, 0>>]
  <2>1. /\ acked[x] <= ntok[x] /\ acked[x] \in 0 .. MaxTokens
        /\ acked[x] + n \in 0 .. MaxTokens
    <3>1. acked[x] <= ntok[x] /\ acked[x] \in 0 .. MaxTokens /\ MaxTokens \in Nat
      BY ConstantsOK DEF IInv, AckedFits, TypeOK
    <3> QED  BY <1>1, <3>1
  <2>4. \A r \in Requests : seqLen[r] = acked[<<r, 0>>] /\ <<r, 0>> \in Streams
    <3>1. 0 \in Layers
      BY ConstantsOK DEF Layers
    <3> QED  BY <3>1 DEF IInv, CountersAgree, Streams
  <2>2. CASE ok
    <3>1. acked' = [acked EXCEPT ![x] = acked[x] + n]
      BY <2>2 DEF Filled, Acknowledge
    <3>2. seqLen' = IF x[2] = 0 THEN [seqLen EXCEPT ![x[1]] = seqLen[x[1]] + n] ELSE seqLen
      BY <2>2 DEF Filled, Acknowledge
    <3>3. acked' \in [Streams -> 0 .. MaxTokens] /\ \A y \in Streams : acked'[y] <= ntok'[y]
      BY <1>1, <2>1, <3>1 DEF IInv, AckedFits, TypeOK
    <3>4. ASSUME NEW r \in Requests
          PROVE  seqLen'[r] = acked'[<<r, 0>>]
      <4>1. CASE x = <<r, 0>>
        BY <1>1, <2>4, <3>1, <3>2, <4>1 DEF IInv, TypeOK
      <4>2. CASE x # <<r, 0>>
        BY <1>1, <2>4, <3>1, <3>2, <4>2 DEF IInv, TypeOK
      <4> QED  BY <4>1, <4>2
    <3>5. seqLen' \in [Requests -> 0 .. MaxTokens]
      BY <1>1, <2>1, <2>4, <3>2 DEF IInv, TypeOK
    <3> QED  BY <3>3, <3>4, <3>5
  <2>3. CASE ~ ok
    <3>1. acked' = acked /\ seqLen' = seqLen
      BY <2>3 DEF Filled, Acknowledge
    <3>2. \A y \in Streams : acked'[y] <= ntok'[y]
      BY <1>1, <2>1, <3>1 DEF IInv, AckedFits, TypeOK
    <3> QED  BY <2>4, <3>1, <3>2 DEF IInv, TypeOK
  <2> QED  BY <2>2, <2>3
<1>10. CountersAgree' /\ AckedFits' /\ IdleIsEmpty'
  BY <1>1, <1>8, <1>9 DEF CountersAgree, AckedFits, IdleIsEmpty
<1>11. TypeOK'
  <2>1. /\ tier' \in [Blocks -> Tiers] /\ state' \in [Blocks -> BlockStates]
        /\ ptr' \in [Blocks -> GpuPool \union DramPool \union {NoSlab}]
    <3>1. /\ tier' = [b \in Blocks |-> tier'[b]] /\ state' = [b \in Blocks |-> state'[b]]
          /\ ptr' = [b \in Blocks |-> ptr'[b]]
      BY DEF Filled, AssignGpuSlabs
    <3>2. ASSUME NEW b \in Blocks
          PROVE  /\ tier'[b] \in Tiers /\ state'[b] \in BlockStates
                 /\ ptr'[b] \in GpuPool \union DramPool \union {NoSlab}
      BY <1>3, <1>4 DEF IInv, TypeOK, Tiers, BlockStates
    <3> QED  BY <3>1, <3>2
  <2>2. /\ onGpu' \in [Requests -> Nat] /\ onDram' \in [Requests -> Nat]
        /\ onStorage' \in [Requests -> Nat]
    <3>1. onGpu' = [r \in Requests |-> onGpu'[r]]
      BY <1>7 DEF IInv, TypeOK
    <3>2. \A r \in Requests : onGpu'[r] \in Nat
      BY <1>8, OnIsFinite
    <3> QED  BY <1>7, <3>1, <3>2 DEF IInv, TypeOK
  <2>3. addrmap' \subseteq Blocks /\ failed' \subseteq Streams
    BY <1>1, <1>4 DEF IInv, TypeOK, Filled, Acknowledge
  <2>4. ntok' \in [Streams -> 0 .. MaxTokens]
    BY <1>1 DEF IInv, TypeOK
  <2>5. gpuFree' \in Seq(GpuPool)
    BY FillKeepsPools
  <2>6. /\ gpuMem' \in [GpuPool -> Content] /\ dramFree' = dramFree
        /\ dramMem' = dramMem /\ file' = file
    BY DEF Filled
  <2> QED  BY <1>1, <1>9, <2>1, <2>2, <2>3, <2>4, <2>5, <2>6 DEF IInv, TypeOK
<1>12. SlabOwnership'
  BY FillKeepsPools
<1> QED  BY <1>6, <1>10, <1>11, <1>12 DEF IInv

\* What prefill and append write is the content of a slab.
LEMMA TokenIsContent ==
  ASSUME NEW x \in Streams, NEW h \in Heads, NEW p \in 0 .. MaxTokens
  PROVE  <<x[1], x[2], h, p>> \in Tokens
  BY DEF Streams, Tokens

\* The same for what prefill copies into a block.
LEMMA ChunkIsContent ==
  ASSUME NEW b \in Blocks, NEW base \in Nat, NEW n \in Nat, base + n <= MaxTokens
  PROVE  ChunkContent(b, base, n) \in Content
<1> DEFINE start == IndexOf(b) * TokensPerBlock
<1>1. /\ StreamOf(b) \in Streams /\ HeadOf(b) \in Heads
      /\ ReqOf(b) = StreamOf(b)[1] /\ LayerOf(b) = StreamOf(b)[2]
  BY BlockParts
<1>2. start \in Nat
  BY BlockParts, ConstantsOK
<1>3. ASSUME NEW s \in Slots, start + s < n
      PROVE  <<ReqOf(b), LayerOf(b), HeadOf(b), base + start + s>> \in Tokens
  <2>1. s \in Nat /\ MaxTokens \in Nat
    BY ConstantsOK DEF Slots
  <2> HIDE DEF start
  <2>2. base + start + s \in 0 .. MaxTokens
    BY <1>2, <1>3, <2>1
  <2> QED  BY <1>1, <2>2, TokenIsContent
<1> QED  BY <1>3 DEF ChunkContent, Content

\* orchkv_prefill keeps the invariant, whatever part of it finds no slab.
LEMMA PrefillKeepsInv ==
  ASSUME IInv, NEW x \in Streams, NEW n \in 1 .. MaxTokens, Prefill(x, n)
  PROVE  IInv'
<1> DEFINE total == ntok[x] + n
           fresh == {b \in Blocks : /\ StreamOf(b) = x /\ IndexOf(b) < BlocksFor(total)
                                    /\ state[b] = "FREE"}
           done  == Served(fresh)
<1>1. /\ Callable(x) /\ total <= TokenLimit[x[1]]
      /\ ntok' = [ntok EXCEPT ![x] = total] /\ AssignGpuSlabs(x[1], done)
      /\ \E lost \in SUBSET done :
           gpuMem' = [s \in GpuPool |->
                IF \E b \in done \ lost : SlabFor(b, done) = s
                THEN ChunkContent(CHOOSE b \in done : SlabFor(b, done) = s, acked[x], n)
                ELSE gpuMem[s]]
      /\ Acknowledge(x, n, done = fresh)
      /\ UNCHANGED <<reqVars, dramFree, dramMem, file, onDram, onStorage>>
  BY DEF Prefill
<1>2. /\ fresh \in SUBSET Blocks /\ done \in SUBSET Blocks /\ done \in SUBSET fresh
      /\ \A b, c \in fresh : ReqOf(b) = ReqOf(c)
  BY DEF Served, StreamOf, ReqOf
<1>3. Cardinality(done) <= Len(gpuFree)
  <2>1. Len(gpuFree) \in Nat /\ done \in SUBSET Served(fresh)
    BY LenProperties DEF IInv, TypeOK
  <2> HIDE DEF fresh, done
  <2> QED  BY <1>2, <2>1, ServedFits
<1>4. /\ total <= MaxTokens /\ acked[x] \in Nat /\ n \in Nat /\ acked[x] + n <= MaxTokens
  <2>1. /\ TokenLimit[x[1]] \in 0 .. MaxTokens /\ MaxTokens \in Nat
        /\ acked[x] \in Nat /\ ntok[x] \in Nat /\ acked[x] <= ntok[x]
    BY ConstantsOK DEF IInv, TypeOK, AckedFits, Streams
  <2> QED  BY <1>1, <2>1
<1>5. gpuMem' \in [GpuPool -> Content]
  <2>1. \A b \in done : ChunkContent(b, acked[x], n) \in Content
    BY <1>2, <1>4, ChunkIsContent
  <2> HIDE DEF done
  <2>2. PICK lost \in SUBSET done :
           gpuMem' = [s \in GpuPool |->
                IF \E b \in done \ lost : SlabFor(b, done) = s
                THEN ChunkContent(CHOOSE b \in done : SlabFor(b, done) = s, acked[x], n)
                ELSE gpuMem[s]]
    BY <1>1
  <2>3. ASSUME NEW s \in GpuPool, \E b \in done : SlabFor(b, done) = s
        PROVE  (CHOOSE b \in done : SlabFor(b, done) = s) \in done
    BY <2>3
  <2> QED  BY <2>1, <2>2, <2>3 DEF IInv, TypeOK
<1>6. \A b \in done : /\ StreamOf(b) = x /\ state[b] = "FREE"
                      /\ IndexOf(b) < BlocksFor(total)
  BY <1>2
<1>7. inited /\ x[1] \in live /\ (done = fresh) \in BOOLEAN
  BY <1>1 DEF Callable
<1> HIDE DEF fresh, done
<1>8. Filled(x, n, done, done = fresh)
  BY <1>1, <1>2, <1>3, <1>4, <1>5, <1>6, <1>7 DEF Filled
<1> QED  BY <1>7, <1>8, FillKeepsInv

\* orchkv_append_token keeps the invariant, at whichever head it stops.
LEMMA AppendTokenKeepsInv ==
  ASSUME IInv, NEW x \in Streams, AppendToken(x)
  PROVE  IInv'
<1> DEFINE total   == ntok[x] + 1
           slot    == (total - 1) % TokensPerBlock
           last(h) == <<x[1], x[2], h, BlocksFor(total) - 1>>
           lasts   == {last(h) : h \in Heads}
           fresh   == {last(h) : h \in {g \in Heads : state[last(g)] = "FREE"}}
           stuck   == {b \in lasts :
                         IF b \in fresh THEN b \notin Served(fresh) ELSE tier[b] # "GPU"}
           reached == {b \in lasts : \A c \in stuck : HeadOf(b) < HeadOf(c)}
           slabbed == reached \cap fresh
           home(b) == IF b \in fresh THEN SlabFor(b, slabbed) ELSE ptr[b]
<1>1. /\ Callable(x) /\ total <= TokenLimit[x[1]]
      /\ ntok' = [ntok EXCEPT ![x] = total] /\ AssignGpuSlabs(x[1], slabbed)
      /\ \E lost \in SUBSET reached :
           gpuMem' = [s \in GpuPool |->
                IF \E b \in reached \ lost : home(b) = s
                THEN [gpuMem[s] EXCEPT ![slot] =
                        <<x[1], x[2], HeadOf(CHOOSE b \in reached : home(b) = s), acked[x]>>]
                ELSE gpuMem[s]]
      /\ Acknowledge(x, 1, stuck = {})
      /\ UNCHANGED <<reqVars, dramFree, dramMem, file, onDram, onStorage>>
  BY DEF AppendToken
<1>2. /\ total \in Nat /\ total >= 1 /\ total <= MaxTokens /\ ntok[x] \in Nat
      /\ acked[x] \in 0 .. MaxTokens /\ MaxTokens \in Nat
  <2>1. /\ TokenLimit[x[1]] \in 0 .. MaxTokens /\ MaxTokens \in Nat /\ ntok[x] \in Nat
        /\ acked[x] \in 0 .. MaxTokens
    BY ConstantsOK DEF IInv, TypeOK, Streams
  <2>2. ntok[x] + 1 <= TokenLimit[x[1]]
    BY <1>1
  <2> QED  BY <2>1, <2>2
<1>3. BlocksFor(total) - 1 \in Indices
  BY <1>2, BlocksForType, BlocksForMonotone DEF Indices
<1>4. ASSUME NEW h \in Heads
      PROVE  /\ last(h) \in Blocks /\ StreamOf(last(h)) = x /\ ReqOf(last(h)) = x[1]
             /\ HeadOf(last(h)) = h /\ IndexOf(last(h)) = BlocksFor(total) - 1
  BY <1>3 DEF Streams, Blocks, StreamOf, ReqOf, HeadOf, IndexOf
<1>5. \A b \in lasts : /\ b \in Blocks /\ StreamOf(b) = x /\ ReqOf(b) = x[1]
                       /\ HeadOf(b) \in Heads /\ IndexOf(b) = BlocksFor(total) - 1
  BY <1>4
<1>6. \A b \in fresh : b \in lasts /\ state[b] = "FREE"
  OBVIOUS
<1> HIDE DEF total, last, lasts, fresh
<1>7. slabbed \in SUBSET Served(fresh)
  <2>1. ASSUME NEW b \in slabbed
        PROVE  b \notin stuck
    <3>1. HeadOf(b) \in Int
      BY <1>5, <1>6 DEF Heads
    <3> QED  BY <3>1
  <2> QED  BY <1>6, <2>1
<1>8. Cardinality(slabbed) <= Len(gpuFree)
  <2>1. Len(gpuFree) \in Nat /\ fresh \in SUBSET Blocks
        /\ \A b, c \in fresh : ReqOf(b) = ReqOf(c)
    BY <1>5, <1>6, LenProperties DEF IInv, TypeOK
  <2> HIDE DEF slabbed
  <2> QED  BY <1>7, <2>1, ServedFits
<1>9. gpuMem' \in [GpuPool -> Content]
  <2>1. \A b \in reached : HeadOf(b) \in Heads
    BY <1>5
  <2> HIDE DEF reached, slabbed, home, slot
  <2>2. PICK lost \in SUBSET reached :
           gpuMem' = [s \in GpuPool |->
                IF \E b \in reached \ lost : home(b) = s
                THEN [gpuMem[s] EXCEPT ![slot] =
                        <<x[1], x[2], HeadOf(CHOOSE b \in reached : home(b) = s), acked[x]>>]
                ELSE gpuMem[s]]
    BY <1>1
  <2>3. ASSUME NEW s \in GpuPool, \E b \in reached : home(b) = s
        PROVE  <<x[1], x[2], HeadOf(CHOOSE b \in reached : home(b) = s), acked[x]>> \in Tokens
    <3>1. (CHOOSE b \in reached : home(b) = s) \in reached
      BY <2>3
    <3> QED  BY <1>2, <2>1, <3>1, TokenIsContent
  <2>4. ASSUME NEW s \in GpuPool, NEW t \in Tokens
        PROVE  [gpuMem[s] EXCEPT ![slot] = t] \in Content
    BY DEF IInv, TypeOK, Content
  <2> QED  BY <2>2, <2>3, <2>4 DEF IInv, TypeOK
<1>10. /\ slabbed \in SUBSET Blocks
       /\ \A b \in slabbed : /\ StreamOf(b) = x /\ state[b] = "FREE"
                             /\ IndexOf(b) < BlocksFor(ntok[x] + 1)
  <2>1. BlocksFor(total) \in Nat
    BY <1>2, BlocksForType
  <2>2. BlocksFor(total) - 1 < BlocksFor(ntok[x] + 1)
    BY <2>1 DEF total
  <2> QED  BY <1>5, <1>6, <2>2
<1>11. inited /\ x[1] \in live /\ (stuck = {}) \in BOOLEAN
  BY <1>1 DEF Callable
<1> HIDE DEF slabbed, stuck
<1>12. Filled(x, 1, slabbed, stuck = {})
  BY <1>1, <1>2, <1>8, <1>9, <1>10, <1>11 DEF Filled, total
<1> QED  BY <1>11, <1>12, FillKeepsInv

-----------------------------------------------------------------------------
(* The theorems.                                                           *)

\* Before orchkv_init nothing is allocated and every counter is zero.
LEMMA InitHasInv == Init => IInv
<1> SUFFICES ASSUME Init PROVE IInv
  OBVIOUS
<1>1. /\ MaxTokens \in Nat /\ NoSlab \notin GpuPool \union DramPool
      /\ \A r \in Requests : <<r, 0>> \in Streams
  <2>1. 0 \in Layers
    BY ConstantsOK DEF Layers
  <2> QED  BY <2>1, ConstantsOK DEF Streams
<1>2. TypeOK
  <2>1. /\ Blank \in Content /\ <<>> \in Seq(GpuPool) /\ <<>> \in Seq(DramPool)
    BY EmptySeq DEF Blank, Content
  <2>2. /\ gpuMem \in [GpuPool -> Content] /\ dramMem \in [DramPool -> Content]
        /\ file \in [Requests -> [FileSlots -> Content]]
    BY <2>1 DEF Init
  <2>3. /\ state \in [Blocks -> BlockStates] /\ tier \in [Blocks -> Tiers]
        /\ ptr \in [Blocks -> GpuPool \union DramPool \union {NoSlab}]
    BY DEF Init, BlockStates, Tiers
  <2>4. /\ ntok \in [Streams -> 0 .. MaxTokens] /\ acked \in [Streams -> 0 .. MaxTokens]
        /\ onGpu \in [Requests -> Nat] /\ onDram \in [Requests -> Nat]
        /\ onStorage \in [Requests -> Nat] /\ seqLen \in [Requests -> 0 .. MaxTokens]
    BY <1>1 DEF Init
  <2> QED  BY <2>1, <2>2, <2>3, <2>4 DEF Init, TypeOK
<1>3. HomeAgrees
  BY DEF Init, HomeAgrees
<1>4. CountersAgree
  <2>1. \A r \in Requests, t \in {"GPU", "DRAM", "NVM"} : On(r, t, tier) = {}
    BY DEF Init, On
  <2> QED  BY <1>1, <2>1, FS_EmptySet DEF Init, CountersAgree
<1>5. SlabOwnership /\ AckedFits /\ IdleIsEmpty
  BY DEF Init, SlabOwnership, AckedFits, IdleIsEmpty
<1> QED  BY <1>2, <1>3, <1>4, <1>5 DEF IInv

\* Every call of the API, and every failure inside one, keeps the invariant.
LEMMA NextKeepsInv == IInv /\ [Next]_vars => IInv'
<1> SUFFICES ASSUME IInv, [Next]_vars PROVE IInv'
  OBVIOUS
<1>1. CASE SystemInit
  BY <1>1, SystemInitKeepsInv
<1>2. CASE SystemShutdown
  BY <1>2, SystemShutdownKeepsInv
<1>3. ASSUME NEW r \in Requests, RequestCreate(r) \/ RequestDestroy(r)
      PROVE  IInv'
  BY <1>3, RequestCreateKeepsInv, RequestDestroyKeepsInv
<1>4. ASSUME NEW x \in Streams, AppendToken(x) \/ \E n \in 1 .. MaxTokens : Prefill(x, n)
      PROVE  IInv'
  BY <1>4, AppendTokenKeepsInv, PrefillKeepsInv
<1>5. ASSUME NEW b \in Blocks, TogglePin(b)
      PROVE  IInv'
  BY <1>5, TogglePinKeepsInv
<1>6. ASSUME NEW b \in Blocks, EvictToDram(b) \/ EvictToStorage(b) \/ EvictCold(b)
      PROVE  IInv'
  BY <1>6, EvictToDramKeepsInv, EvictToStorageKeepsInv, EvictColdKeepsInv
<1>7. ASSUME NEW b \in Blocks, PromoteToGpu(b) \/ PromoteFromStorage(b) \/ GetKvBlock(b)
      PROVE  IInv'
  BY <1>7, PromoteToGpuKeepsInv, PromoteFromStorageKeepsInv, GetKvBlockKeepsInv
<1>8. CASE UNCHANGED vars
  BY <1>8, StutterKeepsInv
<1> QED  BY <1>1, <1>2, <1>3, <1>4, <1>5, <1>6, <1>7, <1>8 DEF Next

\* The invariant holds in every reachable state.
THEOREM Inductive == Spec => []IInv
  BY InitHasInv, NextKeepsInv, PTL DEF Spec

\* Type correctness; in particular the unsigned blocks_on_* counters of a
\* context never go below zero and data_ptr is a slab or NULL.
THEOREM TypeCorrect == Spec => []TypeOK
<1>1. IInv => TypeOK
  BY DEF IInv
<1> QED  BY <1>1, Inductive, PTL

\* For every pool size and every set of faults, the two free stacks and the
\* data_ptrs of the blocks partition the slabs: none is lost, none is freed
\* twice, none backs two blocks.
THEOREM SlabsPartitioned == Spec => []SlabOwnership
<1>1. IInv => SlabOwnership
  BY DEF IInv
<1> QED  BY <1>1, Inductive, PTL

\* No call, however it ends, leaves state, tier, data_ptr and address map of a
\* block in disagreement, or a block on storage without a file.
THEOREM HomesAgree == Spec => []HomeAgrees
<1>1. IInv => HomeAgrees
  BY DEF IInv
<1> QED  BY <1>1, Inductive, PTL

\* The counters of a context are the cardinalities they stand for.
THEOREM CountersCount == Spec => []CountersAgree
<1>1. IInv => CountersAgree
  BY DEF IInv
<1> QED  BY <1>1, Inductive, PTL

\* Every call checks the pin before it demotes; a promotion, a fill and a
\* failed move leave a block on the GPU where it is.
LEMMA NextKeepsPinned ==
  ASSUME IInv, [Next]_vars, NEW b \in pinned, tier[b] = "GPU"
  PROVE  tier'[b] = "GPU" \/ ReqOf(b) \notin live'
<1>1. b \in Blocks /\ tier \in [Blocks -> Tiers]
  BY DEF IInv, TypeOK
<1>2. CASE SystemInit \/ SystemShutdown \/ UNCHANGED vars
  BY <1>2 DEF SystemInit, SystemShutdown, vars
<1>3. ASSUME NEW r \in Requests, RequestCreate(r) \/ RequestDestroy(r)
      PROVE  tier'[b] = "GPU" \/ ReqOf(b) \notin live'
  BY <1>1, <1>3 DEF RequestCreate, RequestDestroy, NoBlockOf
<1>4. ASSUME NEW x \in Streams, AppendToken(x) \/ \E n \in 1 .. MaxTokens : Prefill(x, n)
      PROVE  tier'[b] = "GPU"
  <2>1. \E S : AssignGpuSlabs(x[1], S)
    BY <1>4 DEF AppendToken, Prefill
  <2> QED  BY <1>1, <2>1 DEF AssignGpuSlabs
<1>5. ASSUME NEW c \in Blocks, TogglePin(c)
      PROVE  tier'[b] = "GPU"
  BY <1>5 DEF TogglePin
<1>6. ASSUME NEW c \in Blocks, EvictToDram(c) \/ EvictCold(c)
      PROVE  tier'[b] = "GPU"
  <2>1. c \notin pinned
    BY <1>6 DEF EvictToDram, EvictCold, MayDemote
  <2>2. \/ tier' = tier
        \/ \E t : tier' = [tier EXCEPT ![c] = t]
    BY <1>6 DEF EvictToDram, EvictCold, RollBack, Relocate
  <2> QED  BY <1>1, <2>1, <2>2
<1>7. ASSUME NEW c \in Blocks, \/ EvictToStorage(c) \/ PromoteToGpu(c)
                              \/ PromoteFromStorage(c) \/ GetKvBlock(c)
      PROVE  tier'[b] = "GPU"
  <2>1. tier[c] # "GPU"
    BY <1>7 DEF EvictToStorage, PromoteToGpu, PromoteFromStorage, GetKvBlock, In
  <2>2. \/ tier' = tier
        \/ \E t : tier' = [tier EXCEPT ![c] = t]
    BY <1>7 DEF EvictToStorage, PromoteToGpu, PromoteFromStorage, GetKvBlock, RollBack, Relocate
  <2> QED  BY <1>1, <2>1, <2>2
<1> QED  BY <1>2, <1>3, <1>4, <1>5, <1>6, <1>7 DEF Next

\* No call demotes a pinned block: only the end of its request takes it off
\* the GPU.
THEOREM PinHonoured == Spec => PinnedStays
<1>1. IInv /\ [Next]_vars =>
        [\A b \in pinned : tier[b] = "GPU" => tier'[b] = "GPU" \/ ReqOf(b) \notin live']_vars
  BY NextKeepsPinned
<1> QED  BY <1>1, Inductive, PTL DEF Spec, PinnedStays

-----------------------------------------------------------------------------
(***************************************************************************)
(* What the block store keeps, for any number of requests, layers, heads,  *)
(* slabs and tokens: as long as its callers stay within what the API can   *)
(* do (Careful), every acknowledged token reads back as it was written,    *)
(* whatever moves between the tiers, failed or half done, lie in between;  *)
(* and seen from outside the store only appends tokens and drops requests. *)
(***************************************************************************)

\* The callers and the faults for which the store is lossless.  An error ends
\* the use of its layer, a prefill fills an empty one, vectors fit the file
\* layout, and the copies whose results the API drops (transfer_submit,
\* transfer_sync_stream) go through.  Any copy whose result it looks at, and any
\* read, write or open, may fail.  No conjunct can be left out: TLC refutes
\* Lossless with the constants of orchkv_append.cfg (a retry), orchkv_chunked.cfg,
\* orchkv_offset.cfg (the layout) and orchkv_prefill.cfg (an upload), and with
\* "sync" among the faults.
Careful ==
  /\ ~ RetryAfterError /\ ~ ChunkedPrefill
  /\ BlocksFor(MaxTokens) <= MaxBlocksPerHead
  /\ Faults \cap {"upload", "sync"} = {}

\* The block that holds position p of head h of a stream.
Place(x, h, p) == <<x[1], x[2], h, p \div TokensPerBlock>>

\* Metadata and acknowledgements part only where a call has failed.
Steady == \A x \in Streams : x \notin failed => ntok[x] = acked[x]
\* Every acknowledged token has a home and reads back as it was written.
KeptAt(x, h, p) ==
  /\ tier[Place(x, h, p)] # "NONE"
  /\ Readout(Place(x, h, p))[p % TokensPerBlock] = <<x[1], x[2], h, p>>
Kept == \A x \in Streams, h \in Heads : \A p \in 0 .. acked[x] - 1 : KeptAt(x, h, p)
DInv == IInv /\ Steady /\ Kept

-----------------------------------------------------------------------------
(* Positions, blocks and slots.                                            *)

LEMMA Multiples ==
  ASSUME NEW c \in Nat \ {0}, NEW q \in Int, q >= 1
  PROVE  c * q >= c
OBVIOUS

\* A position is in one block and one slot.
LEMMA OnePlace ==
  ASSUME NEW c \in Nat \ {0}, NEW q \in Int, NEW r \in 0 .. c - 1,
         NEW p \in Int, NEW s \in 0 .. c - 1, c * q + r = c * p + s
  PROVE  q = p /\ r = s
<1>1. c * (q - p) = s - r /\ c * (p - q) = r - s
  OBVIOUS
<1>2. ~ (q - p >= 1)
  BY <1>1, Multiples
<1>3. ~ (p - q >= 1)
  BY <1>1, Multiples
<1>4. q = p
  BY <1>2, <1>3
<1> QED  BY <1>1, <1>4

LEMMA Positions ==
  ASSUME NEW p \in Nat
  PROVE  /\ p \div TokensPerBlock \in Nat /\ p % TokensPerBlock \in Slots
         /\ p = TokensPerBlock * (p \div TokensPerBlock) + (p % TokensPerBlock)
         /\ BlocksFor(p + 1) - 1 = p \div TokensPerBlock
<1> DEFINE T == TokensPerBlock
<1>1. T \in Nat \ {0}
  BY ConstantsOK
<1>2. \A n \in Nat : /\ n \div T \in Nat /\ n % T \in 0 .. T - 1
                     /\ n = T * (n \div T) + (n % T)
  BY <1>1
<1> HIDE DEF T
<1>3. PICK q \in Nat, r \in 0 .. T - 1 : q = p \div T /\ r = p % T /\ p = T * q + r
  BY <1>2
<1>4. PICK v \in Nat, w \in 0 .. T - 1 :
        v = (p + T) \div T /\ w = (p + T) % T /\ p + T = T * v + w
  <2>1. p + T \in Nat
    BY <1>1
  <2> QED  BY <1>2, <2>1
<1>5. T * (q + 1) + r = T * v + w
  BY <1>1, <1>3, <1>4
<1>6. q + 1 = v
  <2>1. PICK u \in Int : u = q + 1
    OBVIOUS
  <2>2. T * u + r = T * v + w
    BY <1>5, <2>1
  <2> QED  BY <1>1, <2>1, <2>2, OnePlace
<1>7. BlocksFor(p + 1) = v
  <2>1. p + 1 + T - 1 = p + T
    BY <1>1
  <2> QED  BY <1>4, <2>1 DEF BlocksFor, T
<1> QED  BY <1>2, <1>3, <1>6, <1>7 DEF T, Slots

\* Two positions in the same block and slot are the same.
LEMMA PlacesDiffer ==
  ASSUME NEW p \in Nat, NEW q \in Nat, p \div TokensPerBlock = q \div TokensPerBlock,
         p % TokensPerBlock = q % TokensPerBlock
  PROVE  p = q
BY Positions

LEMMA PlaceIsBlock ==
  ASSUME NEW x \in Streams, NEW h \in Heads, NEW n \in 0 .. MaxTokens, NEW p \in 0 .. n - 1
  PROVE  /\ Place(x, h, p) \in Blocks /\ StreamOf(Place(x, h, p)) = x
         /\ ReqOf(Place(x, h, p)) = x[1] /\ LayerOf(Place(x, h, p)) = x[2]
         /\ HeadOf(Place(x, h, p)) = h
         /\ IndexOf(Place(x, h, p)) = p \div TokensPerBlock
         /\ p \div TokensPerBlock < BlocksFor(n) /\ p % TokensPerBlock \in Slots
<1>1. /\ p \in Nat /\ p + 1 \in Nat /\ n \in Nat /\ p + 1 <= n
      /\ MaxTokens \in Nat /\ n <= MaxTokens
  BY ConstantsOK
<1>2. BlocksFor(p + 1) - 1 = p \div TokensPerBlock /\ p \div TokensPerBlock \in Nat
      /\ p % TokensPerBlock \in Slots
  BY <1>1, Positions
<1>3. /\ BlocksFor(p + 1) <= BlocksFor(n) /\ BlocksFor(n) <= BlocksFor(MaxTokens)
      /\ BlocksFor(p + 1) \in Nat /\ BlocksFor(n) \in Nat /\ BlocksFor(MaxTokens) \in Nat
  BY <1>1, BlocksForMonotone, BlocksForType
<1>4. p \div TokensPerBlock < BlocksFor(n) /\ p \div TokensPerBlock \in Indices
  BY <1>2, <1>3 DEF Indices
<1> QED  BY <1>2, <1>4 DEF Place, Blocks, Streams, StreamOf, ReqOf, LayerOf, HeadOf, IndexOf

\* Vectors that fit the layout have file slots of their own.
LEMMA FileSlotsDiffer ==
  ASSUME Careful, NEW b \in Blocks, NEW c \in Blocks, ReqOf(b) = ReqOf(c),
         FileSlot(b) = FileSlot(c)
  PROVE  b = c
<1> DEFINE M == MaxBlocksPerHead
<1>1. M \in Nat \ {0} /\ NHeads \in Nat \ {0} /\ BlocksFor(MaxTokens) \in Nat
  BY ConstantsOK, BlocksForType
<1>2. PICK lb \in Nat, hb \in 0 .. NHeads - 1, ib \in 0 .. M - 1 :
        lb = LayerOf(b) /\ hb = HeadOf(b) /\ ib = IndexOf(b)
  BY <1>1 DEF Careful, Blocks, Layers, Heads, Indices, LayerOf, HeadOf, IndexOf
<1>3. PICK lc \in Nat, hc \in 0 .. NHeads - 1, ic \in 0 .. M - 1 :
        lc = LayerOf(c) /\ hc = HeadOf(c) /\ ic = IndexOf(c)
  BY <1>1 DEF Careful, Blocks, Layers, Heads, Indices, LayerOf, HeadOf, IndexOf
<1>4. PICK rb \in Int, rc \in Int : rb = NHeads * lb + hb /\ rc = NHeads * lc + hc
  BY <1>1
<1>5. M * rb + ib = M * rc + ic
  <2>1. FileSlot(b) = rb * M + ib /\ FileSlot(c) = rc * M + ic
    BY <1>1, <1>2, <1>3, <1>4 DEF FileSlot
  <2> HIDE DEF M
  <2>2. rb * M + ib = rc * M + ic
    BY <2>1
  <2>3. \A i \in Int : i * M = M * i
    BY <1>1
  <2> QED  BY <2>2, <2>3
<1> HIDE DEF M
<1>6. rb = rc /\ ib = ic
  BY <1>1, <1>5, OnePlace
<1>7. lb = lc /\ hb = hc
  <2>1. NHeads * lb + hb = NHeads * lc + hc
    BY <1>4, <1>6
  <2> QED  BY <1>1, <2>1, OnePlace
<1> QED  BY <1>2, <1>3, <1>6, <1>7, BlockParts

-----------------------------------------------------------------------------
(* Moves between tiers are hidden.                                         *)

\* Outside block b the step changes no slab and no file slot that is in use.
TouchesOnly(b) ==
  /\ \A c \in Blocks \ {b} : /\ tier'[c] = tier[c] /\ ptr'[c] = ptr[c]
                             /\ file'[ReqOf(c)][FileSlot(c)] = file[ReqOf(c)][FileSlot(c)]
  /\ \A s \in GpuPool : \/ gpuMem'[s] = gpuMem[s]
                        \/ tier[b] = "GPU" /\ ptr[b] = s
                        \/ tier'[b] = "GPU" /\ ptr'[b] = s
  /\ \A s \in DramPool : \/ dramMem'[s] = dramMem[s]
                         \/ tier[b] = "DRAM" /\ ptr[b] = s
                         \/ tier'[b] = "DRAM" /\ ptr'[b] = s

\* Since no two blocks share a slab, what the other blocks hold stays.
LEMMA OthersKept ==
  ASSUME IInv, IInv', inited, inited', NEW b \in Blocks, TouchesOnly(b),
         NEW c \in Blocks \ {b}
  PROVE  Readout(c)' = Readout(c)
<1>1. tier'[c] = tier[c] /\ ptr'[c] = ptr[c]
  BY DEF TouchesOnly
<1>2. /\ tier[b] = "GPU" /\ tier[c] = "GPU" => ptr[b] # ptr[c]
      /\ tier[b] = "DRAM" /\ tier[c] = "DRAM" => ptr[b] # ptr[c]
  BY DEF IInv, SlabOwnership, PoolOK
<1>3. /\ tier'[b] = "GPU" /\ tier'[c] = "GPU" => ptr'[b] # ptr'[c]
      /\ tier'[b] = "DRAM" /\ tier'[c] = "DRAM" => ptr'[b] # ptr'[c]
  BY DEF IInv, SlabOwnership, PoolOK
<1>4. (tier[c] = "GPU" => ptr[c] \in GpuPool) /\ (tier[c] = "DRAM" => ptr[c] \in DramPool)
  BY SlabsOfTier DEF IInv
<1>5. CASE tier[c] = "GPU"
  <2>1. gpuMem'[ptr[c]] = gpuMem[ptr[c]]
    BY <1>1, <1>2, <1>3, <1>4, <1>5 DEF TouchesOnly
  <2> QED  BY <1>1, <1>5, <2>1 DEF Readout
<1>6. CASE tier[c] = "DRAM"
  <2>1. dramMem'[ptr[c]] = dramMem[ptr[c]]
    BY <1>1, <1>2, <1>3, <1>4, <1>6 DEF TouchesOnly
  <2> QED  BY <1>1, <1>6, <2>1 DEF Readout
<1>7. CASE tier[c] \notin {"GPU", "DRAM"}
  BY <1>1, <1>7 DEF Readout, TouchesOnly
<1> QED  BY <1>5, <1>6, <1>7

\* Nothing of what is stored, or accounted for, changes.
Hidden == /\ \A c \in Blocks : /\ Readout(c)' = Readout(c)
                               /\ tier'[c] = "NONE" <=> tier[c] = "NONE"
          /\ UNCHANGED <<acked, ntok, failed>>

LEMMA HiddenKeeps ==
  ASSUME DInv, IInv', Hidden PROVE DInv' /\ acked' = acked
<1>1. Steady'
  BY DEF DInv, Steady, Hidden
<1>2. ASSUME NEW x \in Streams, NEW h \in Heads, NEW p \in 0 .. acked[x] - 1
      PROVE  KeptAt(x, h, p)'
  <2>1. Place(x, h, p) \in Blocks
    BY PlaceIsBlock DEF DInv, IInv, TypeOK
  <2>2. Place(x, h, p)' = Place(x, h, p)
    BY DEF Place
  <2>3. KeptAt(x, h, p)
    BY DEF DInv, Kept
  <2> QED  BY <2>1, <2>2, <2>3 DEF KeptAt, Hidden
<1>3. Kept'
  BY <1>2 DEF Kept, Hidden
<1> QED  BY <1>1, <1>3 DEF DInv, Hidden

\* A write to the file slot of a block, whole or torn, touches no other slot.
LEMMA FileWrite ==
  ASSUME Careful, IInv, NEW b \in Blocks, NEW d,
         \/ file' = [file EXCEPT ![ReqOf(b)][FileSlot(b)] = d]
         \/ \E f \in Torn(b) : file' = [file EXCEPT ![ReqOf(b)] = f]
         \/ file' = [file EXCEPT ![ReqOf(b)] = file[ReqOf(b)]]
         \/ file' = file
  PROVE  /\ \A c \in Blocks \ {b} :
              file'[ReqOf(c)][FileSlot(c)] = file[ReqOf(c)][FileSlot(c)]
         /\ file' = [file EXCEPT ![ReqOf(b)][FileSlot(b)] = d] =>
              file'[ReqOf(b)][FileSlot(b)] = d
<1>1. \A c \in Blocks : /\ ReqOf(c) \in Requests /\ FileSlot(c) \in FileSlots
                        /\ file[ReqOf(c)] \in [FileSlots -> Content]
  BY BlockParts, FileSlotInFile DEF IInv, TypeOK
<1>2. \A c \in Blocks \ {b} : ReqOf(c) = ReqOf(b) => FileSlot(c) # FileSlot(b)
  BY FileSlotsDiffer
<1>3. file \in [Requests -> [FileSlots -> Content]]
  BY DEF IInv, TypeOK
<1>4. CASE file' = [file EXCEPT ![ReqOf(b)][FileSlot(b)] = d]
  BY <1>1, <1>2, <1>3, <1>4
<1>5. CASE \E f \in Torn(b) : file' = [file EXCEPT ![ReqOf(b)] = f]
  <2>1. PICK f \in Torn(b) : file' = [file EXCEPT ![ReqOf(b)] = f]
    BY <1>5
  <2>2. ASSUME NEW c \in Blocks \ {b}
        PROVE  file'[ReqOf(c)][FileSlot(c)] = file[ReqOf(c)][FileSlot(c)]
    <3>1. CASE ReqOf(c) = ReqOf(b)
      <4>1. f[FileSlot(c)] = file[ReqOf(b)][FileSlot(c)]
        BY <1>1, <1>2, <3>1 DEF Torn
      <4>2. file'[ReqOf(c)] = f
        BY <1>1, <1>3, <2>1, <3>1
      <4> QED  BY <3>1, <4>1, <4>2
    <3>2. CASE ReqOf(c) # ReqOf(b)
      BY <1>1, <1>3, <2>1, <3>2
    <3> QED  BY <3>1, <3>2
  <2>3. file' = [file EXCEPT ![ReqOf(b)][FileSlot(b)] = d] =>
          file'[ReqOf(b)][FileSlot(b)] = d
    BY <1>1, <1>3
  <2> QED  BY <2>2, <2>3
<1>6. CASE file' = [file EXCEPT ![ReqOf(b)] = file[ReqOf(b)]] \/ file' = file
  <2>1. file' = file
    BY <1>1, <1>3, <1>6
  <2>2. file' = [file EXCEPT ![ReqOf(b)][FileSlot(b)] = d] =>
          file'[ReqOf(b)][FileSlot(b)] = d
    BY <1>1, <1>3
  <2> QED  BY <2>1, <2>2
<1> QED  BY <1>4, <1>5, <1>6

\* With the copies whose results are dropped going through, a copy is a copy.
LEMMA CopiedIsCopy == ASSUME Careful, NEW c PROVE Copied(c) = {c}
BY DEF Careful, Copied

\* A block moves: it holds in its new home what it held in the old one.
LEMMA MoveHidden ==
  ASSUME IInv, IInv', inited, inited', NEW b \in Blocks, TouchesOnly(b),
         Readout(b)' = Readout(b), tier[b] # "NONE", tier'[b] # "NONE",
         UNCHANGED <<acked, ntok, failed>>
  PROVE  Hidden
<1>1. ASSUME NEW c \in Blocks
      PROVE  Readout(c)' = Readout(c) /\ (tier'[c] = "NONE" <=> tier[c] = "NONE")
  <2>1. CASE c = b
    BY <2>1
  <2>2. CASE c # b
    <3>1. tier'[c] = tier[c]
      BY <2>2 DEF TouchesOnly
    <3>2. Readout(c)' = Readout(c)
      BY <2>2, OthersKept
    <3> QED  BY <3>1, <3>2
  <2> QED  BY <2>1, <2>2
<1> QED  BY <1>1 DEF Hidden

\* A call that fails and leaves the block where it was, its file slot perhaps
\* torn: the block is not on storage then.
LEMMA RollBackHidden ==
  ASSUME Careful, IInv, IInv', NEW b \in Blocks, NEW t, In(b, t), t # "NONE", NEW s,
         RollBack(b, s),
         \/ UNCHANGED file
         \/ t # "NVM" /\ \E f \in Torn(b) : file' = [file EXCEPT ![ReqOf(b)] = f]
  PROVE  Hidden
<1>1. /\ UNCHANGED <<tier, ptr, gpuMem, dramMem, acked, ntok, failed, inited>>
      /\ inited /\ tier[b] = t
  BY DEF RollBack, reqVars, metaVars, In
<1>2. \A c \in Blocks \ {b} :
        file'[ReqOf(c)][FileSlot(c)] = file[ReqOf(c)][FileSlot(c)]
  BY FileWrite
<1>3. TouchesOnly(b)
  BY <1>1, <1>2 DEF TouchesOnly
<1>4. Readout(b)' = Readout(b)
  BY <1>1 DEF Readout
<1> QED  BY <1>1, <1>3, <1>4, MoveHidden

\* What a block of each tier holds.
LEMMA ReadoutOf ==
  ASSUME NEW b
  PROVE  /\ tier[b] = "GPU" => Readout(b) = gpuMem[ptr[b]]
         /\ tier[b] = "DRAM" => Readout(b) = dramMem[ptr[b]]
         /\ tier[b] = "NVM" => Readout(b) = file[ReqOf(b)][FileSlot(b)]
BY DEF Readout

LEMMA InvMems ==
  ASSUME IInv, NEW b \in Blocks
  PROVE  /\ gpuMem \in [GpuPool -> Content] /\ dramMem \in [DramPool -> Content]
         /\ tier \in [Blocks -> Tiers] /\ DOMAIN ptr = Blocks
         /\ tier[b] = "GPU" => ptr[b] \in GpuPool
         /\ tier[b] = "DRAM" => ptr[b] \in DramPool
         /\ gpuFree # <<>> => Top(gpuFree) \in GpuPool
         /\ dramFree # <<>> => Top(dramFree) \in DramPool
<1>1. (tier[b] = "GPU" => ptr[b] \in GpuPool) /\ (tier[b] = "DRAM" => ptr[b] \in DramPool)
  BY SlabsOfTier DEF IInv
<1>2. (gpuFree # <<>> => Top(gpuFree) \in GpuPool) /\ (dramFree # <<>> => Top(dramFree) \in DramPool)
  BY Typed
<1> QED  BY <1>1, <1>2 DEF IInv, TypeOK

LEMMA EvictToDramHidden ==
  ASSUME Careful, IInv, IInv', NEW b \in Blocks, EvictToDram(b) PROVE Hidden
<1>1. In(b, "GPU") /\ dramFree # <<>> /\ inited /\ tier[b] = "GPU"
  BY DEF EvictToDram, In
<1>2. CASE RollBack(b, "HOT") /\ UNCHANGED file
  BY <1>1, <1>2, RollBackHidden
<1>3. CASE ~ (RollBack(b, "HOT") /\ UNCHANGED file)
  <2>1. PICK top \in DramPool, old \in GpuPool : top = Top(dramFree) /\ old = ptr[b]
    BY <1>1, InvMems
  <2>2. /\ tier' = [tier EXCEPT ![b] = "DRAM"] /\ ptr' = [ptr EXCEPT ![b] = top]
        /\ dramMem' = [dramMem EXCEPT ![top] = gpuMem[old]]
        /\ gpuMem' = [gpuMem EXCEPT ![old] = Blank]
        /\ UNCHANGED <<file, acked, ntok, failed, inited>>
    BY <1>3, <2>1, CopiedIsCopy DEF EvictToDram, Relocate, reqVars, metaVars
  <2>3. tier'[b] = "DRAM" /\ ptr'[b] = top
        /\ \A c \in Blocks \ {b} : tier'[c] = tier[c] /\ ptr'[c] = ptr[c]
    BY <2>2, InvMems
  <2>4. dramMem'[top] = gpuMem[old] /\ (\A s \in DramPool \ {top} : dramMem'[s] = dramMem[s])
        /\ \A s \in GpuPool \ {old} : gpuMem'[s] = gpuMem[s]
    BY <2>2, InvMems
  <2>5. TouchesOnly(b)
    BY <1>1, <2>1, <2>2, <2>3, <2>4 DEF TouchesOnly
  <2>6. Readout(b)' = Readout(b)
    BY <1>1, <2>1, <2>3, <2>4 DEF Readout
  <2> QED  BY <1>1, <2>2, <2>3, <2>5, <2>6, MoveHidden
<1> QED  BY <1>2, <1>3

LEMMA PromoteToGpuHidden ==
  ASSUME Careful, IInv, IInv', NEW b \in Blocks, PromoteToGpu(b) PROVE Hidden
<1>1. In(b, "DRAM") /\ gpuFree # <<>> /\ inited /\ tier[b] = "DRAM"
  BY DEF PromoteToGpu, In
<1>2. CASE RollBack(b, "WARM") /\ UNCHANGED file
  BY <1>1, <1>2, RollBackHidden
<1>3. CASE ~ (RollBack(b, "WARM") /\ UNCHANGED file)
  <2>1. PICK top \in GpuPool, old \in DramPool : top = Top(gpuFree) /\ old = ptr[b]
    BY <1>1, InvMems
  <2>2. /\ tier' = [tier EXCEPT ![b] = "GPU"] /\ ptr' = [ptr EXCEPT ![b] = top]
        /\ gpuMem' = [gpuMem EXCEPT ![top] = dramMem[old]]
        /\ dramMem' = [dramMem EXCEPT ![old] = Blank]
        /\ UNCHANGED <<file, acked, ntok, failed, inited>>
    BY <1>3, <2>1, CopiedIsCopy DEF PromoteToGpu, Relocate, reqVars, metaVars
  <2>3. tier'[b] = "GPU" /\ ptr'[b] = top
        /\ \A c \in Blocks \ {b} : tier'[c] = tier[c] /\ ptr'[c] = ptr[c]
    BY <2>2, InvMems
  <2>4. gpuMem'[top] = dramMem[old] /\ (\A s \in GpuPool \ {top} : gpuMem'[s] = gpuMem[s])
        /\ \A s \in DramPool \ {old} : dramMem'[s] = dramMem[s]
    BY <2>2, InvMems
  <2>5. TouchesOnly(b)
    BY <1>1, <2>1, <2>2, <2>3, <2>4 DEF TouchesOnly
  <2>6. Readout(b)' = Readout(b)
    BY <1>1, <2>1, <2>3, <2>4 DEF Readout
  <2> QED  BY <1>1, <2>2, <2>3, <2>5, <2>6, MoveHidden
<1> QED  BY <1>2, <1>3

LEMMA EvictToStorageHidden ==
  ASSUME Careful, IInv, IInv', NEW b \in Blocks, EvictToStorage(b) PROVE Hidden
<1>1. In(b, "DRAM") /\ inited /\ tier[b] = "DRAM"
  BY DEF EvictToStorage, In
<1>2. CASE RollBack(b, "WARM") /\ \E f \in Torn(b) : file' = [file EXCEPT ![ReqOf(b)] = f]
  BY <1>1, <1>2, RollBackHidden
<1>3. CASE ~ (RollBack(b, "WARM") /\ \E f \in Torn(b) : file' = [file EXCEPT ![ReqOf(b)] = f])
  <2>1. PICK old \in DramPool : old = ptr[b]
    BY <1>1, InvMems
  <2>2. /\ tier' = [tier EXCEPT ![b] = "NVM"] /\ ptr' = [ptr EXCEPT ![b] = NoSlab]
        /\ file' = [file EXCEPT ![ReqOf(b)][FileSlot(b)] = dramMem[old]]
        /\ dramMem' = [dramMem EXCEPT ![old] = Blank]
        /\ UNCHANGED <<gpuMem, acked, ntok, failed, inited>>
    BY <1>3, <2>1 DEF EvictToStorage, Relocate, reqVars, metaVars
  <2>3. tier'[b] = "NVM"
        /\ \A c \in Blocks \ {b} : tier'[c] = tier[c] /\ ptr'[c] = ptr[c]
    BY <2>2, InvMems
  <2>4. \A s \in DramPool \ {old} : dramMem'[s] = dramMem[s]
    BY <2>2, InvMems
  <2>5. /\ \A c \in Blocks \ {b} :
             file'[ReqOf(c)][FileSlot(c)] = file[ReqOf(c)][FileSlot(c)]
        /\ file'[ReqOf(b)][FileSlot(b)] = dramMem[old]
    BY <2>2, FileWrite
  <2>6. TouchesOnly(b)
    BY <1>1, <2>1, <2>2, <2>3, <2>4, <2>5 DEF TouchesOnly
  <2>7. Readout(b)' = Readout(b)
    BY <1>1, <2>1, <2>3, <2>5 DEF Readout
  <2> QED  BY <1>1, <2>2, <2>3, <2>6, <2>7, MoveHidden
<1> QED  BY <1>2, <1>3

\* The first hop from storage.
LEMMA ReadBackHidden ==
  ASSUME Careful, IInv, IInv', NEW b \in Blocks, In(b, "NVM"), dramFree # <<>>,
         dramMem' = [dramMem EXCEPT ![Top(dramFree)] = file[ReqOf(b)][FileSlot(b)]],
         Relocate(b, "DRAM", Top(dramFree), "WARM"),
         UNCHANGED <<reqVars, metaVars, gpuMem, file>>
  PROVE  Hidden
<1>1. inited /\ tier[b] = "NVM"
  BY DEF In
<1>2. PICK top \in DramPool : top = Top(dramFree)
  BY InvMems
<1>3. /\ tier' = [tier EXCEPT ![b] = "DRAM"] /\ ptr' = [ptr EXCEPT ![b] = top]
      /\ UNCHANGED <<file, gpuMem, acked, ntok, failed, inited>>
  BY <1>2 DEF Relocate, reqVars, metaVars
<1>4. tier'[b] = "DRAM" /\ ptr'[b] = top
      /\ \A c \in Blocks \ {b} : tier'[c] = tier[c] /\ ptr'[c] = ptr[c]
  BY <1>3, InvMems
<1>5. dramMem'[top] = file[ReqOf(b)][FileSlot(b)]
      /\ \A s \in DramPool \ {top} : dramMem'[s] = dramMem[s]
  BY <1>2, InvMems
<1>6. TouchesOnly(b)
  BY <1>3, <1>4, <1>5 DEF TouchesOnly
<1>7. Readout(b)' = Readout(b)
  BY <1>1, <1>4, <1>5 DEF Readout
<1> QED  BY <1>1, <1>3, <1>4, <1>6, <1>7, MoveHidden

LEMMA PromoteFromStorageHidden ==
  ASSUME Careful, IInv, IInv', NEW b \in Blocks, PromoteFromStorage(b) PROVE Hidden
<1>1. In(b, "NVM") /\ dramFree # <<>>
  BY DEF PromoteFromStorage
<1>2. CASE RollBack(b, "COLD") /\ UNCHANGED file
  BY <1>1, <1>2, RollBackHidden
<1>3. CASE ~ (RollBack(b, "COLD") /\ UNCHANGED file)
  BY <1>1, <1>3, ReadBackHidden DEF PromoteFromStorage
<1> QED  BY <1>2, <1>3

\* Two hops down, however far they get.
LEMMA EvictColdHidden ==
  ASSUME Careful, IInv, IInv', NEW b \in Blocks, EvictCold(b) PROVE Hidden
<1>1. In(b, "GPU") /\ dramFree # <<>> /\ inited /\ tier[b] = "GPU"
  BY DEF EvictCold, In
<1>2. PICK top \in DramPool, old \in GpuPool : top = Top(dramFree) /\ old = ptr[b]
  BY <1>1, InvMems
<1> DEFINE HalfWay ==
             /\ tier' = [tier EXCEPT ![b] = "DRAM"] /\ ptr' = [ptr EXCEPT ![b] = top]
             /\ dramMem' = [dramMem EXCEPT ![top] = gpuMem[old]]
             /\ \E f \in IF ReqOf(b) \in fctx THEN Torn(b) ELSE {file[ReqOf(b)]} :
                  file' = [file EXCEPT ![ReqOf(b)] = f]
             /\ gpuMem' = [gpuMem EXCEPT ![old] = Blank]
             /\ UNCHANGED <<acked, ntok, failed, inited>>
           AllTheWay ==
             /\ file' = [file EXCEPT ![ReqOf(b)][FileSlot(b)] = gpuMem[old]]
             /\ tier' = [tier EXCEPT ![b] = "NVM"] /\ ptr' = [ptr EXCEPT ![b] = NoSlab]
             /\ gpuMem' = [gpuMem EXCEPT ![old] = Blank]
             /\ UNCHANGED <<dramMem, acked, ntok, failed, inited>>
<1>3. (RollBack(b, "HOT") /\ UNCHANGED file) \/ HalfWay \/ AllTheWay
  <2>1. Copied(gpuMem[ptr[b]]) = {gpuMem[old]}
    BY <1>2, CopiedIsCopy
  <2> QED  BY <1>2, <2>1 DEF EvictCold, Relocate, reqVars, metaVars
<1>4. CASE RollBack(b, "HOT") /\ UNCHANGED file
  BY <1>1, <1>4, RollBackHidden
<1>5. CASE HalfWay
  <2>1. tier'[b] = "DRAM" /\ ptr'[b] = top
        /\ \A c \in Blocks \ {b} : tier'[c] = tier[c] /\ ptr'[c] = ptr[c]
    BY <1>5, InvMems
  <2>2. dramMem'[top] = gpuMem[old] /\ (\A s \in DramPool \ {top} : dramMem'[s] = dramMem[s])
        /\ \A s \in GpuPool \ {old} : gpuMem'[s] = gpuMem[s]
    BY <1>5, InvMems
  <2>3. \A c \in Blocks \ {b} :
          file'[ReqOf(c)][FileSlot(c)] = file[ReqOf(c)][FileSlot(c)]
    <3>1. \/ \E f \in Torn(b) : file' = [file EXCEPT ![ReqOf(b)] = f]
          \/ file' = [file EXCEPT ![ReqOf(b)] = file[ReqOf(b)]]
      BY <1>5
    <3> QED  BY <3>1, FileWrite
  <2>4. TouchesOnly(b)
    BY <1>1, <1>2, <2>1, <2>2, <2>3 DEF TouchesOnly
  <2>5. Readout(b)' = Readout(b)
    BY <1>1, <1>2, <2>1, <2>2 DEF Readout
  <2>6. UNCHANGED <<acked, ntok, failed, inited>>
    BY <1>5
  <2> QED  BY <1>1, <2>1, <2>4, <2>5, <2>6, MoveHidden
<1>6. CASE AllTheWay
  <2>1. tier'[b] = "NVM"
        /\ \A c \in Blocks \ {b} : tier'[c] = tier[c] /\ ptr'[c] = ptr[c]
    BY <1>6, InvMems
  <2>2. dramMem' = dramMem /\ \A s \in GpuPool \ {old} : gpuMem'[s] = gpuMem[s]
    BY <1>6, InvMems
  <2>3. /\ \A c \in Blocks \ {b} :
             file'[ReqOf(c)][FileSlot(c)] = file[ReqOf(c)][FileSlot(c)]
        /\ file'[ReqOf(b)][FileSlot(b)] = gpuMem[old]
    <3>1. file' = [file EXCEPT ![ReqOf(b)][FileSlot(b)] = gpuMem[old]]
      BY <1>6
    <3> QED  BY <3>1, FileWrite
  <2>4. TouchesOnly(b)
    BY <1>1, <1>2, <2>1, <2>2, <2>3 DEF TouchesOnly
  <2>5. Readout(b)' = Readout(b)
    BY <1>1, <1>2, <2>1, <2>3 DEF Readout
  <2>6. UNCHANGED <<acked, ntok, failed, inited>>
    BY <1>6
  <2> QED  BY <1>1, <2>1, <2>4, <2>5, <2>6, MoveHidden
<1> QED  BY <1>3, <1>4, <1>5, <1>6

\* Two hops up, however far they get.
LEMMA GetKvBlockHidden ==
  ASSUME Careful, IInv, IInv', NEW b \in Blocks, GetKvBlock(b) PROVE Hidden
<1>1. CASE PromoteToGpu(b)
  BY <1>1, PromoteToGpuHidden
<1>2. CASE ~ PromoteToGpu(b)
  <2> DEFINE OnlyRead ==
               /\ dramMem' = [dramMem EXCEPT ![Top(dramFree)] = file[ReqOf(b)][FileSlot(b)]]
               /\ Relocate(b, "DRAM", Top(dramFree), "WARM")
               /\ UNCHANGED <<reqVars, metaVars, gpuMem, file>>
             AllTheWay ==
               /\ gpuFree # <<>>
               /\ gpuMem' = [gpuMem EXCEPT ![Top(gpuFree)] = file[ReqOf(b)][FileSlot(b)]]
               /\ tier' = [tier EXCEPT ![b] = "GPU"]
               /\ ptr' = [ptr EXCEPT ![b] = Top(gpuFree)]
               /\ UNCHANGED <<dramMem, file, acked, ntok, failed, inited>>
  <2>1. In(b, "NVM") /\ dramFree # <<>> /\ inited /\ tier[b] = "NVM"
    BY <1>2 DEF GetKvBlock, In
  <2>2. (RollBack(b, "COLD") /\ UNCHANGED file) \/ OnlyRead \/ AllTheWay
    <3>1. Copied(file[ReqOf(b)][FileSlot(b)]) = {file[ReqOf(b)][FileSlot(b)]}
      BY CopiedIsCopy
    <3> QED  BY <1>2, <3>1 DEF GetKvBlock, reqVars, metaVars
  <2>3. CASE RollBack(b, "COLD") /\ UNCHANGED file
    BY <2>1, <2>3, RollBackHidden
  <2>4. CASE OnlyRead
    BY <2>1, <2>4, ReadBackHidden
  <2>5. CASE AllTheWay
    <3>1. PICK top \in GpuPool : top = Top(gpuFree)
      BY <2>5, InvMems
    <3>2. tier'[b] = "GPU" /\ ptr'[b] = top
          /\ \A c \in Blocks \ {b} : tier'[c] = tier[c] /\ ptr'[c] = ptr[c]
      BY <2>5, <3>1, InvMems
    <3>3. gpuMem'[top] = file[ReqOf(b)][FileSlot(b)]
          /\ \A s \in GpuPool \ {top} : gpuMem'[s] = gpuMem[s]
      BY <2>5, <3>1, InvMems
    <3>4. TouchesOnly(b)
      BY <2>5, <3>2, <3>3 DEF TouchesOnly
    <3>5. Readout(b)' = Readout(b)
      BY <2>1, <3>2, <3>3 DEF Readout
    <3>6. UNCHANGED <<acked, ntok, failed, inited>>
      BY <2>5
    <3> QED  BY <2>1, <3>2, <3>4, <3>5, <3>6, MoveHidden
  <2> QED  BY <2>2, <2>3, <2>4, <2>5
<1> QED  BY <1>1, <1>2

-----------------------------------------------------------------------------
(* Lifecycle.                                                              *)

\* Where nothing is stored anywhere, nothing is acknowledged.
LEMMA NoBlockNoToken ==
  ASSUME DInv, NEW x \in Streams, x[1] \notin live PROVE acked[x] = 0
<1>1. acked[x] \in 0 .. MaxTokens /\ MaxTokens \in Nat /\ 0 \in Heads
  BY ConstantsOK DEF DInv, IInv, TypeOK, Heads
<1>2. CASE acked[x] > 0
  <2>1. 0 \in 0 .. acked[x] - 1
    BY <1>1, <1>2
  <2>2. tier[Place(x, 0, 0)] # "NONE"
    BY <1>1, <2>1 DEF DInv, Kept, KeptAt
  <2>3. Place(x, 0, 0) \in Blocks /\ ReqOf(Place(x, 0, 0)) = x[1]
    BY <1>1, <2>1, PlaceIsBlock
  <2> QED  BY <2>2, <2>3, NoContextNoBlock DEF DInv
<1> QED  BY <1>1, <1>2

\* Before orchkv_init there is no context, so the fresh pools lose nothing.
LEMMA SystemInitKeeps ==
  ASSUME DInv, SystemInit PROVE DInv' /\ acked' = acked
<1>1. IInv'
  BY SystemInitKeepsInv DEF DInv
<1>2. /\ UNCHANGED <<acked, ntok, failed>> /\ live = {}
  BY DEF SystemInit, metaVars, DInv, IInv, IdleIsEmpty
<1>3. \A x \in Streams : acked'[x] = 0
  BY <1>2, NoBlockNoToken
<1>4. Steady' /\ Kept'
  <2>1. Steady'
    BY <1>2 DEF DInv, Steady
  <2>2. \A x \in Streams : 0 .. acked'[x] - 1 = {}
    BY <1>3
  <2> QED  BY <2>1, <2>2 DEF Kept
<1> QED  BY <1>1, <1>2, <1>4 DEF DInv

\* A call that touches no data.
LEMMA NoDataHidden ==
  ASSUME UNCHANGED <<tier, ptr, gpuMem, dramMem, file, acked, ntok, failed>>
  PROVE  Hidden
BY DEF Hidden, Readout

LEMMA IdleHidden ==
  ASSUME SystemShutdown \/ (\E r \in Requests : RequestCreate(r))
           \/ (\E b \in Blocks : TogglePin(b)) \/ UNCHANGED vars
  PROVE  Hidden
BY NoDataHidden DEF SystemShutdown, RequestCreate, TogglePin, vars, metaVars

\* The end of a request takes its blocks, its file and its tokens, and leaves
\* the slabs and files of the others alone.
LEMMA RequestDestroyKeeps ==
  ASSUME DInv, NEW r \in Requests, RequestDestroy(r)
  PROVE  DInv' /\ acked' = [x \in Streams |-> IF x[1] = r THEN 0 ELSE acked[x]]
         /\ \A c \in Blocks : ReqOf(c) # r => Readout(c)' = Readout(c)
<1> DEFINE mine(t) == {b \in Blocks : ReqOf(b) = r /\ tier[b] = t}
<1>1. IInv'
  BY RequestDestroyKeepsInv DEF DInv
<1>2. /\ gpuMem' = [s \in GpuPool |->
           IF \E b \in mine("GPU") : ptr[b] = s THEN Blank ELSE gpuMem[s]]
      /\ dramMem' = [s \in DramPool |->
           IF \E b \in mine("DRAM") : ptr[b] = s THEN Blank ELSE dramMem[s]]
      /\ file' = [file EXCEPT ![r] = [o \in FileSlots |-> Blank]]
      /\ tier' = NoBlockOf(r, tier, "NONE") /\ ptr' = NoBlockOf(r, ptr, NoSlab)
      /\ inited
  BY DEF RequestDestroy
<1>3. /\ ntok' = [x \in Streams |-> IF x[1] = r THEN 0 ELSE ntok[x]]
      /\ acked' = [x \in Streams |-> IF x[1] = r THEN 0 ELSE acked[x]]
      /\ failed' = {x \in failed : x[1] # r}
  BY DEF RequestDestroy
<1>4. ASSUME NEW c \in Blocks, ReqOf(c) # r
      PROVE  Readout(c)' = Readout(c) /\ tier'[c] = tier[c]
  <2>1. tier'[c] = tier[c] /\ ptr'[c] = ptr[c]
    BY <1>2, <1>4 DEF NoBlockOf
  <2>2. \A b \in Blocks : ReqOf(b) = r => b # c
    BY <1>4
  <2>3. tier[c] = "GPU" => ptr[c] \in GpuPool /\ ~ \E b \in mine("GPU") : ptr[b] = ptr[c]
    BY <1>2, <2>2, SlabsOfTier DEF DInv, IInv, SlabOwnership, PoolOK
  <2>4. tier[c] = "DRAM" => ptr[c] \in DramPool /\ ~ \E b \in mine("DRAM") : ptr[b] = ptr[c]
    BY <1>2, <2>2, SlabsOfTier DEF DInv, IInv, SlabOwnership, PoolOK
  <2>5. file'[ReqOf(c)] = file[ReqOf(c)]
    BY <1>2, <1>4, BlockParts DEF DInv, IInv, TypeOK
  <2> HIDE DEF mine
  <2>6. /\ tier[c] = "GPU" => gpuMem'[ptr[c]] = gpuMem[ptr[c]]
        /\ tier[c] = "DRAM" => dramMem'[ptr[c]] = dramMem[ptr[c]]
    BY <1>2, <2>3, <2>4
  <2> QED  BY <2>1, <2>5, <2>6 DEF Readout
<1>5. Steady'
  BY <1>3 DEF DInv, Steady
<1>6. ASSUME NEW x \in Streams, NEW h \in Heads, NEW p \in 0 .. acked'[x] - 1
      PROVE  KeptAt(x, h, p)'
  <2>1. x[1] # r /\ p \in 0 .. acked[x] - 1
    BY <1>3
  <2>2. Place(x, h, p) \in Blocks /\ ReqOf(Place(x, h, p)) = x[1]
    BY <2>1, PlaceIsBlock DEF DInv, IInv, TypeOK
  <2>3. KeptAt(x, h, p)
    BY <2>1 DEF DInv, Kept
  <2>4. Place(x, h, p)' = Place(x, h, p)
    BY DEF Place
  <2> QED  BY <1>4, <2>1, <2>2, <2>3, <2>4 DEF KeptAt
<1>7. Kept'
  BY <1>6 DEF Kept
<1> QED  BY <1>1, <1>3, <1>4, <1>5, <1>7 DEF DInv

-----------------------------------------------------------------------------
(* Filling blocks.                                                         *)

\* The step writes to no slab but those of the blocks of R.
WritesTo(R) == \A s \in GpuPool : \/ gpuMem'[s] = gpuMem[s]
                                  \/ \E b \in R : tier'[b] = "GPU" /\ ptr'[b] = s

LEMMA FillKeepsOthers ==
  ASSUME IInv, IInv', NEW x \in Streams, NEW n, NEW S, NEW ok, Filled(x, n, S, ok),
         NEW R \in SUBSET Blocks, WritesTo(R), NEW c \in Blocks, c \notin S, c \notin R
  PROVE  Readout(c)' = Readout(c) /\ tier'[c] = tier[c] /\ ptr'[c] = ptr[c]
<1>1. /\ tier'[c] = tier[c] /\ ptr'[c] = ptr[c] /\ dramMem' = dramMem /\ file' = file
      /\ inited'
  BY DEF Filled, AssignGpuSlabs, reqVars
<1>2. tier[c] = "GPU" => ptr[c] \in GpuPool
  BY SlabsOfTier DEF IInv
<1>3. tier[c] = "GPU" => ~ \E b \in R : tier'[b] = "GPU" /\ ptr'[b] = ptr[c]
  BY <1>1 DEF IInv, SlabOwnership, PoolOK
<1>4. tier[c] = "GPU" => gpuMem'[ptr[c]] = gpuMem[ptr[c]]
  BY <1>2, <1>3 DEF WritesTo
<1> QED  BY <1>1, <1>4 DEF Readout

\* A fill keeps what is stored if it keeps, and when it succeeds adds to, what
\* its own stream stores.
LEMMA FillKeeps ==
  ASSUME DInv, IInv', NEW x \in Streams, x \notin failed, NEW n, NEW S, NEW ok \in BOOLEAN,
         Filled(x, n, S, ok), NEW R \in SUBSET Blocks, WritesTo(R),
         \A b \in R : StreamOf(b) = x,
         \A h \in Heads, p \in 0 .. acked[x] - 1 : KeptAt(x, h, p)',
         ok => \A h \in Heads, p \in acked[x] .. acked[x] + n - 1 : KeptAt(x, h, p)'
  PROVE  /\ DInv'
         /\ acked' = IF ok THEN [acked EXCEPT ![x] = acked[x] + n] ELSE acked
<1>1. /\ acked' = IF ok THEN [acked EXCEPT ![x] = acked[x] + n] ELSE acked
      /\ failed' = IF ok THEN failed \ {x} ELSE failed \union {x}
      /\ ntok' = [ntok EXCEPT ![x] = ntok[x] + n] /\ n \in Nat
      /\ \A b \in S : StreamOf(b) = x
  BY DEF Filled, Acknowledge
<1>2. /\ acked \in [Streams -> 0 .. MaxTokens] /\ ntok \in [Streams -> 0 .. MaxTokens]
      /\ ntok[x] = acked[x] /\ MaxTokens \in Nat
  BY ConstantsOK DEF DInv, IInv, TypeOK, Steady
<1>3. Steady'
  <2>1. ASSUME NEW y \in Streams, y \notin failed'
        PROVE  ntok'[y] = acked'[y]
    <3>1. CASE y = x
      BY <1>1, <1>2, <2>1, <3>1
    <3>2. CASE y # x
      <4>1. y \notin failed
        BY <1>1, <2>1, <3>2
      <4>2. ntok[y] = acked[y]
        BY <4>1 DEF DInv, Steady
      <4> QED  BY <1>1, <1>2, <3>2, <4>2
    <3> QED  BY <3>1, <3>2
  <2> QED  BY <2>1 DEF Steady
<1>4. ASSUME NEW y \in Streams, NEW h \in Heads, NEW p \in 0 .. acked'[y] - 1
      PROVE  KeptAt(y, h, p)'
  <2>1. CASE y = x
    <3>1. \/ p \in 0 .. acked[x] - 1
          \/ ok /\ p \in acked[x] .. acked[x] + n - 1
      BY <1>1, <1>2, <2>1
    <3> QED  BY <2>1, <3>1
  <2>2. CASE y # x
    <3>1. p \in 0 .. acked[y] - 1
      BY <1>1, <1>2, <2>2
    <3>2. Place(y, h, p) \in Blocks /\ StreamOf(Place(y, h, p)) = y
      BY <1>2, <3>1, PlaceIsBlock
    <3>3. KeptAt(y, h, p)
      BY <3>1 DEF DInv, Kept
    <3>4. Place(y, h, p) \notin S /\ Place(y, h, p) \notin R
      BY <1>1, <2>2, <3>2
    <3>5. /\ Readout(Place(y, h, p))' = Readout(Place(y, h, p))
          /\ tier'[Place(y, h, p)] = tier[Place(y, h, p)]
      <4>1. PICK c \in Blocks : c = Place(y, h, p)
        BY <3>2
      <4>2. Readout(c)' = Readout(c) /\ tier'[c] = tier[c]
        BY <3>4, <4>1, FillKeepsOthers DEF DInv
      <4>3. Place(y, h, p)' = Place(y, h, p)
        BY DEF Place
      <4> QED  BY <4>1, <4>2, <4>3 DEF Readout
    <3>6. Place(y, h, p)' = Place(y, h, p)
      BY DEF Place
    <3> QED  BY <3>3, <3>5, <3>6 DEF KeptAt
  <2> QED  BY <2>1, <2>2
<1>5. Kept'
  BY <1>4 DEF Kept
<1> QED  BY <1>1, <1>3, <1>5 DEF DInv


\* A vector of no tokens has no block.
LEMMA NoTokensNoBlocks == BlocksFor(0) = 0
<1>1. TokensPerBlock \in Nat \ {0}
  BY ConstantsOK
<1>2. 0 + TokensPerBlock - 1 = TokensPerBlock - 1
      /\ (TokensPerBlock - 1) \div TokensPerBlock = 0
  BY <1>1
<1> QED  BY <1>2 DEF BlocksFor

\* What prefill copies into the block of a position is the token of it.
LEMMA ChunkHolds ==
  ASSUME NEW x \in Streams, NEW h \in Heads, NEW n \in 0 .. MaxTokens, NEW p \in 0 .. n - 1,
         ntok[x] = 0
  PROVE  ChunkContent(Place(x, h, p), 0, n)[p % TokensPerBlock] = <<x[1], x[2], h, p>>
<1> DEFINE T == TokensPerBlock
<1>1. PICK b \in Blocks : b = Place(x, h, p)
  BY PlaceIsBlock
<1>2. /\ StreamOf(b) = x /\ ReqOf(b) = x[1] /\ LayerOf(b) = x[2] /\ HeadOf(b) = h
      /\ IndexOf(b) = p \div T /\ p % T \in Slots
  BY <1>1, PlaceIsBlock
<1>3. p \in Nat /\ n \in Nat /\ p < n /\ T \in Nat \ {0}
  BY ConstantsOK
<1> HIDE DEF T
<1>4. PICK q \in Nat, s \in 0 .. T - 1 : q = p \div T /\ s = p % T /\ p = T * q + s
  BY <1>3, Positions DEF T, Slots
<1>5. PICK m \in Nat : m = q * T /\ m = T * q
  BY <1>3
<1>6. m + s = p /\ s < n - m /\ s < T
  BY <1>3, <1>4, <1>5
<1>7. TokenCount(b, ntok[StreamOf(b)] + n) = IF n - m < T THEN n - m ELSE T
  <2>1. IndexOf(b) * TokensPerBlock = m
    BY <1>2, <1>4, <1>5 DEF T
  <2>2. ntok[StreamOf(b)] + n = n
    BY <1>2, <1>3
  <2> QED  BY <2>1, <2>2 DEF TokenCount, T
<1>8. s < TokenCount(b, ntok[StreamOf(b)] + n) /\ m + s < n /\ 0 + m + s = p
  <2> DEFINE count == TokenCount(b, ntok[StreamOf(b)] + n)
  <2> HIDE DEF count
  <2>1. count = IF n - m < T THEN n - m ELSE T
    BY <1>7 DEF count
  <2>2. s < count
    BY <1>3, <1>6, <2>1
  <2>3. m + s < n /\ 0 + m + s = p
    BY <1>3, <1>6
  <2> QED  BY <2>2, <2>3 DEF count
<1>9. IndexOf(b) * TokensPerBlock = m /\ s \in Slots
  BY <1>2, <1>4, <1>5 DEF T
<1>10. ChunkContent(b, 0, n)[s] = <<ReqOf(b), LayerOf(b), HeadOf(b), 0 + m + s>>
  BY <1>8, <1>9 DEF ChunkContent
<1> QED  BY <1>1, <1>2, <1>4, <1>8, <1>10 DEF T

\* orchkv_prefill fills an empty layer, wholly or not at all.
LEMMA PrefillKeeps ==
  ASSUME Careful, DInv, NEW x \in Streams, NEW n \in 1 .. MaxTokens, Prefill(x, n)
  PROVE  DInv' /\ (acked' = acked \/ acked' = [acked EXCEPT ![x] = acked[x] + n])
<1> DEFINE total == ntok[x] + n
           fresh == {b \in Blocks : /\ StreamOf(b) = x /\ IndexOf(b) < BlocksFor(total)
                                    /\ state[b] = "FREE"}
           done  == Served(fresh)
<1>1. /\ Callable(x) /\ total <= TokenLimit[x[1]] /\ (ChunkedPrefill \/ ntok[x] = 0)
      /\ ntok' = [ntok EXCEPT ![x] = total] /\ AssignGpuSlabs(x[1], done)
      /\ \E lost \in SUBSET done :
           /\ UploadMayFail \/ lost = {}
           /\ gpuMem' = [s \in GpuPool |->
                IF \E b \in done \ lost : SlabFor(b, done) = s
                THEN ChunkContent(CHOOSE b \in done : SlabFor(b, done) = s, acked[x], n)
                ELSE gpuMem[s]]
      /\ Acknowledge(x, n, done = fresh)
      /\ UNCHANGED <<reqVars, dramFree, dramMem, file, onDram, onStorage>>
  BY DEF Prefill
<1>2. IInv /\ IInv'
  BY PrefillKeepsInv DEF DInv
<1>3. ~ UploadMayFail /\ x \notin failed /\ ntok[x] = 0 /\ acked[x] = 0
  BY <1>1 DEF Careful, UploadMayFail, Callable, DInv, Steady
<1>4. gpuMem' = [s \in GpuPool |->
                IF \E b \in done : SlabFor(b, done) = s
                THEN ChunkContent(CHOOSE b \in done : SlabFor(b, done) = s, 0, n)
                ELSE gpuMem[s]]
  <2>1. PICK lost \in SUBSET done :
           /\ UploadMayFail \/ lost = {}
           /\ gpuMem' = [s \in GpuPool |->
                IF \E b \in done \ lost : SlabFor(b, done) = s
                THEN ChunkContent(CHOOSE b \in done : SlabFor(b, done) = s, acked[x], n)
                ELSE gpuMem[s]]
    BY <1>1
  <2> HIDE DEF done
  <2>2. lost = {}
    BY <1>3, <2>1
  <2>3. done \ lost = done
    BY <2>2
  <2> QED  BY <1>3, <2>1, <2>3
<1>5. /\ fresh \in SUBSET Blocks /\ done \in SUBSET Blocks /\ done \in SUBSET fresh
      /\ (\A b, c \in fresh : ReqOf(b) = ReqOf(c))
      /\ (\A b, c \in done : ReqOf(b) = ReqOf(c))
      /\ \A b \in done : StreamOf(b) = x /\ state[b] = "FREE" /\ IndexOf(b) < BlocksFor(total)
  BY DEF Served, StreamOf, ReqOf
<1>6. Cardinality(done) <= Len(gpuFree)
  <2>1. Len(gpuFree) \in Nat /\ done \in SUBSET Served(fresh)
    BY <1>2, LenProperties DEF IInv, TypeOK
  <2> HIDE DEF fresh, done
  <2> QED  BY <1>5, <2>1, ServedFits
<1>7. total = n /\ n \in 0 .. MaxTokens /\ n \in Nat /\ MaxTokens \in Nat
  BY <1>3, ConstantsOK
<1>8. (done = fresh) \in BOOLEAN /\ inited /\ x[1] \in live
  BY <1>1 DEF Callable
<1>9. ASSUME NEW h \in Heads, NEW p \in 0 .. n - 1
      PROVE  Place(x, h, p) \in fresh
  <2>1. PICK b \in Blocks : b = Place(x, h, p)
    BY <1>7, PlaceIsBlock
  <2>2. StreamOf(b) = x /\ IndexOf(b) < BlocksFor(n) /\ IndexOf(b) \in Nat
    BY <1>7, <2>1, PlaceIsBlock, BlockParts
  <2>3. ~ InVector(b)
    BY <1>3, <2>2, NoTokensNoBlocks DEF InVector
  <2>4. state[b] = "FREE"
    BY <1>2, <2>3, Homes, SlabsOfTier DEF IInv
  <2> QED  BY <1>7, <2>1, <2>2, <2>4
<1> HIDE DEF fresh, done, total
<1>10. Filled(x, n, done, done = fresh)
  <2>1. gpuMem' \in [GpuPool -> Content]
    BY <1>2 DEF IInv, TypeOK
  <2>2. ntok[x] + n <= MaxTokens /\ total = ntok[x] + n
    BY <1>3, <1>7 DEF total
  <2> QED  BY <1>1, <1>5, <1>6, <1>7, <1>8, <2>1, <2>2 DEF Filled
<1>11. \A b \in done : tier'[b] = "GPU" /\ ptr'[b] = SlabFor(b, done) /\ ptr'[b] \in GpuPool
  <2>1. \A b \in done : tier'[b] = "GPU" /\ ptr'[b] = SlabFor(b, done)
    BY <1>1, <1>5 DEF AssignGpuSlabs
  <2> QED  BY <1>2, <1>5, <2>1, SlabForInPool, <1>6
<1>12. WritesTo(done)
  BY <1>4, <1>11 DEF WritesTo
<1>13. ASSUME NEW b \in done
       PROVE  Readout(b)' = ChunkContent(b, 0, n)
  <2>1. \A c \in done : SlabFor(c, done) = SlabFor(b, done) => c = b
    BY <1>1, <1>2, <1>5, <1>8, <1>11 DEF IInv, SlabOwnership, PoolOK, reqVars
  <2>2. (CHOOSE c \in done : SlabFor(c, done) = SlabFor(b, done)) = b
    BY <2>1
  <2>3. gpuMem'[SlabFor(b, done)] = ChunkContent(b, 0, n)
    BY <1>4, <1>11, <2>2
  <2> QED  BY <1>11, <2>3 DEF Readout
<1>14. ASSUME done = fresh, NEW h \in Heads, NEW p \in 0 .. n - 1
       PROVE  KeptAt(x, h, p)'
  <2>1. PICK b \in done : b = Place(x, h, p)
    BY <1>9, <1>14
  <2>2. Readout(b)' = ChunkContent(b, 0, n) /\ tier'[b] = "GPU"
    BY <1>11, <1>13
  <2>3. ChunkContent(b, 0, n)[p % TokensPerBlock] = <<x[1], x[2], h, p>>
    BY <1>3, <1>7, <2>1, ChunkHolds
  <2>4. Place(x, h, p)' = Place(x, h, p)
    BY DEF Place
  <2> QED  BY <2>1, <2>2, <2>3, <2>4 DEF KeptAt
<1>15. /\ \A h \in Heads, p \in 0 .. acked[x] - 1 : KeptAt(x, h, p)'
       /\ done = fresh =>
            \A h \in Heads, p \in acked[x] .. acked[x] + n - 1 : KeptAt(x, h, p)'
  <2>1. 0 .. acked[x] - 1 = {} /\ acked[x] .. acked[x] + n - 1 = 0 .. n - 1
    BY <1>3, <1>7
  <2> QED  BY <1>14, <2>1
<1>16. \A b \in done : StreamOf(b) = x
  BY <1>5
<1>17. /\ DInv'
       /\ acked' = IF done = fresh THEN [acked EXCEPT ![x] = acked[x] + n] ELSE acked
  BY <1>2, <1>3, <1>5, <1>8, <1>10, <1>12, <1>15, <1>16, FillKeeps
<1> QED  BY <1>17

\* orchkv_append_token writes one slot of the last block of every head it
\* reaches, a slot that holds no acknowledged token.
LEMMA AppendTokenKeeps ==
  ASSUME Careful, DInv, NEW x \in Streams, AppendToken(x)
  PROVE  DInv' /\ (acked' = acked \/ acked' = [acked EXCEPT ![x] = acked[x] + 1])
<1> DEFINE total   == ntok[x] + 1
           slot    == (total - 1) % TokensPerBlock
           last(h) == <<x[1], x[2], h, BlocksFor(total) - 1>>
           lasts   == {last(h) : h \in Heads}
           fresh   == {last(h) : h \in {g \in Heads : state[last(g)] = "FREE"}}
           stuck   == {b \in lasts :
                         IF b \in fresh THEN b \notin Served(fresh) ELSE tier[b] # "GPU"}
           reached == {b \in lasts : \A c \in stuck : HeadOf(b) < HeadOf(c)}
           slabbed == reached \cap fresh
           home(b) == IF b \in fresh THEN SlabFor(b, slabbed) ELSE ptr[b]
<1>1. /\ Callable(x) /\ total <= TokenLimit[x[1]]
      /\ ntok' = [ntok EXCEPT ![x] = total] /\ AssignGpuSlabs(x[1], slabbed)
      /\ \E lost \in SUBSET reached :
           /\ UploadMayFail \/ lost = {}
           /\ gpuMem' = [s \in GpuPool |->
                IF \E b \in reached \ lost : home(b) = s
                THEN [gpuMem[s] EXCEPT ![slot] =
                        <<x[1], x[2], HeadOf(CHOOSE b \in reached : home(b) = s), acked[x]>>]
                ELSE gpuMem[s]]
      /\ Acknowledge(x, 1, stuck = {})
      /\ UNCHANGED <<reqVars, dramFree, dramMem, file, onDram, onStorage>>
  BY DEF AppendToken
<1>2. IInv /\ IInv' /\ inited /\ inited' /\ x[1] \in live
  BY <1>1, AppendTokenKeepsInv DEF DInv, Callable, reqVars
<1>3. ~ UploadMayFail /\ x \notin failed /\ ntok[x] = acked[x]
  BY <1>1 DEF Careful, UploadMayFail, Callable, DInv, Steady
<1>4. PICK a \in Nat : /\ a = acked[x] /\ a = ntok[x] /\ total = a + 1 /\ total - 1 = a
                       /\ a + 1 <= MaxTokens /\ a \in 0 .. (a + 1) - 1
                       /\ a + 1 \in 0 .. MaxTokens
  <2>1. /\ TokenLimit[x[1]] \in 0 .. MaxTokens /\ MaxTokens \in Nat
        /\ acked[x] \in 0 .. MaxTokens
    BY <1>2, ConstantsOK DEF IInv, TypeOK, Streams
  <2>2. ntok[x] + 1 <= TokenLimit[x[1]]
    BY <1>1
  <2> QED  BY <1>3, <2>1, <2>2
<1>5. BlocksFor(total) - 1 = a \div TokensPerBlock /\ slot = a % TokensPerBlock /\ slot \in Slots
  BY <1>4, Positions
<1>6. \A h \in Heads : last(h) = Place(x, h, a)
  BY <1>5 DEF Place
<1>7. \A b \in lasts : /\ b \in Blocks /\ StreamOf(b) = x /\ ReqOf(b) = x[1]
                       /\ HeadOf(b) \in Heads /\ IndexOf(b) = a \div TokensPerBlock
                       /\ IndexOf(b) < BlocksFor(ntok[x] + 1)
  <2>1. ASSUME NEW h \in Heads
        PROVE  LET b == Place(x, h, a) IN
               /\ b \in Blocks /\ StreamOf(b) = x /\ ReqOf(b) = x[1]
               /\ HeadOf(b) \in Heads /\ IndexOf(b) = a \div TokensPerBlock
               /\ IndexOf(b) < BlocksFor(a + 1)
    BY <1>4, PlaceIsBlock
  <2> QED  BY <1>4, <1>6, <2>1
<1>8. \A b \in fresh : b \in lasts /\ state[b] = "FREE"
  OBVIOUS
<1>9. \A b \in lasts : state[b] = "FREE" => b \in fresh
  OBVIOUS
<1>10. gpuMem' = [s \in GpuPool |->
                IF \E b \in reached : home(b) = s
                THEN [gpuMem[s] EXCEPT ![slot] =
                        <<x[1], x[2], HeadOf(CHOOSE b \in reached : home(b) = s), a>>]
                ELSE gpuMem[s]]
  <2> HIDE DEF reached, home, slot
  <2>1. PICK lost \in SUBSET reached :
           /\ UploadMayFail \/ lost = {}
           /\ gpuMem' = [s \in GpuPool |->
                IF \E b \in reached \ lost : home(b) = s
                THEN [gpuMem[s] EXCEPT ![slot] =
                        <<x[1], x[2], HeadOf(CHOOSE b \in reached : home(b) = s), acked[x]>>]
                ELSE gpuMem[s]]
    BY <1>1
  <2>2. reached \ lost = reached
    BY <1>3, <2>1
  <2> QED  BY <1>4, <2>1, <2>2
<1> HIDE DEF total, last, lasts, fresh, slot
<1>11. \A b \in reached : b \in lasts /\ b \notin stuck
  <2>1. ASSUME NEW b \in reached
        PROVE  b \notin stuck
    <3>1. HeadOf(b) \in Int
      BY <1>7 DEF Heads
    <3> QED  BY <3>1
  <2> QED  BY <2>1
<1>12. slabbed \in SUBSET Served(fresh) /\ \A b \in reached \ fresh : tier[b] = "GPU"
  BY <1>8, <1>11
<1>13. Cardinality(slabbed) <= Len(gpuFree)
  <2>1. Len(gpuFree) \in Nat /\ fresh \in SUBSET Blocks
        /\ \A b, c \in fresh : ReqOf(b) = ReqOf(c)
    BY <1>2, <1>7, <1>8, LenProperties DEF IInv, TypeOK
  <2> HIDE DEF slabbed
  <2> QED  BY <1>12, <2>1, ServedFits
<1>14. /\ slabbed \in SUBSET Blocks /\ reached \in SUBSET Blocks
       /\ \A b \in slabbed : /\ StreamOf(b) = x /\ state[b] = "FREE"
                             /\ IndexOf(b) < BlocksFor(ntok[x] + 1)
       /\ \A b \in reached : StreamOf(b) = x
  BY <1>7, <1>8, <1>11
<1>15. (stuck = {}) \in BOOLEAN /\ (stuck = {} => reached = lasts)
  OBVIOUS
<1>16. \A b \in reached : tier'[b] = "GPU" /\ ptr'[b] = home(b) /\ ptr'[b] \in GpuPool
  <2>1. \A b \in slabbed : tier'[b] = "GPU" /\ ptr'[b] = SlabFor(b, slabbed)
    BY <1>1, <1>14 DEF AssignGpuSlabs
  <2>2. \A b \in Blocks : b \notin slabbed => tier'[b] = tier[b] /\ ptr'[b] = ptr[b]
    BY <1>1 DEF AssignGpuSlabs
  <2>3. \A b \in reached : tier'[b] = "GPU" /\ ptr'[b] = home(b)
    BY <1>12, <1>14, <2>1, <2>2
  <2>4. \A b \in Blocks : tier'[b] = "GPU" => ptr'[b] \in GpuPool
    <3>1. HomeAgrees'
      BY <1>2 DEF IInv
    <3> QED  BY <3>1 DEF HomeAgrees
  <2> QED  BY <1>14, <2>3, <2>4
<1>17. \A b \in fresh : tier[b] = "NONE"
  BY <1>2, <1>7, <1>8, SlabsOfTier DEF IInv
<1> HIDE DEF slabbed, stuck, reached, home
<1>18. Filled(x, 1, slabbed, stuck = {})
  <2>1. ntok[x] + 1 <= MaxTokens /\ total = ntok[x] + 1
    BY <1>4 DEF total
  <2>2. gpuMem' \in [GpuPool -> Content]
    BY <1>2 DEF IInv, TypeOK
  <2> QED  BY <1>1, <1>2, <1>13, <1>14, <2>1, <2>2 DEF Filled
<1>19. WritesTo(reached)
  BY <1>10, <1>16 DEF WritesTo
<1>20. ASSUME NEW b \in reached
       PROVE  Readout(b)' = [gpuMem[home(b)] EXCEPT ![slot] = <<x[1], x[2], HeadOf(b), a>>]
              /\ gpuMem[home(b)] \in Content
  <2>1. \A c \in reached : home(c) = home(b) => c = b
    BY <1>2, <1>14, <1>16 DEF IInv, SlabOwnership, PoolOK
  <2>2. (CHOOSE c \in reached : home(c) = home(b)) = b
    BY <2>1
  <2>3. home(b) \in GpuPool
    BY <1>16
  <2>4. gpuMem'[home(b)] = [gpuMem[home(b)] EXCEPT ![slot] = <<x[1], x[2], HeadOf(b), a>>]
    BY <1>10, <2>2, <2>3
  <2>5. gpuMem[home(b)] \in Content
    BY <1>2, <2>3 DEF IInv, TypeOK
  <2> QED  BY <1>16, <2>4, <2>5 DEF Readout
<1>21. ASSUME NEW h \in Heads, NEW p \in 0 .. acked[x] - 1
       PROVE  KeptAt(x, h, p)'
  <2>1. PICK c \in Blocks : c = Place(x, h, p) /\ IndexOf(c) = p \div TokensPerBlock
                            /\ p % TokensPerBlock \in Slots
    BY <1>2, PlaceIsBlock DEF IInv, TypeOK
  <2>2. tier[c] # "NONE" /\ Readout(c)[p % TokensPerBlock] = <<x[1], x[2], h, p>>
    BY <2>1 DEF DInv, Kept, KeptAt
  <2>3. c \notin fresh /\ c \notin slabbed
    BY <1>17, <2>2 DEF slabbed
  <2>4. tier'[c] # "NONE" /\ Readout(c)'[p % TokensPerBlock] = <<x[1], x[2], h, p>>
    <3>1. CASE c \notin reached
      <4>1. Readout(c)' = Readout(c) /\ tier'[c] = tier[c]
        BY <1>2, <1>14, <1>18, <1>19, <2>3, <3>1, FillKeepsOthers
      <4> QED  BY <2>2, <4>1
    <3>2. CASE c \in reached
      <4>1. p \div TokensPerBlock = a \div TokensPerBlock
        BY <1>7, <1>11, <2>1, <3>2
      <4>2. p % TokensPerBlock # slot
        <5>1. p \in Nat /\ p # a
          BY <1>4
        <5> QED  BY <1>5, <4>1, <5>1, PlacesDiffer
      <4>3. home(c) = ptr[c] /\ tier[c] = "GPU"
        BY <1>12, <2>3, <3>2 DEF home
      <4>4. Readout(c) = gpuMem[ptr[c]]
        BY <4>3, ReadoutOf
      <4>5. Readout(c)'[p % TokensPerBlock] = gpuMem[ptr[c]][p % TokensPerBlock]
        BY <1>20, <2>1, <3>2, <4>2, <4>3 DEF Content
      <4> QED  BY <1>16, <2>2, <3>2, <4>4, <4>5
    <3> QED  BY <3>1, <3>2
  <2>5. Place(x, h, p)' = Place(x, h, p)
    BY DEF Place
  <2> QED  BY <2>1, <2>4, <2>5 DEF KeptAt
<1>22. ASSUME stuck = {}, NEW h \in Heads
       PROVE  KeptAt(x, h, a)'
  <2>1. PICK b \in reached : b = Place(x, h, a)
    BY <1>6, <1>15, <1>22 DEF lasts
  <2>2. HeadOf(b) = h
    BY <1>4, <2>1, PlaceIsBlock
  <2>3. Readout(b)'[slot] = <<x[1], x[2], h, a>>
    BY <1>5, <1>20, <2>2 DEF Content
  <2>4. Place(x, h, a)' = Place(x, h, a)
    BY DEF Place
  <2> QED  BY <1>5, <1>16, <2>1, <2>3, <2>4 DEF KeptAt
<1>23. /\ \A h \in Heads, p \in 0 .. acked[x] - 1 : KeptAt(x, h, p)'
       /\ stuck = {} =>
            \A h \in Heads, p \in acked[x] .. acked[x] + 1 - 1 : KeptAt(x, h, p)'
  <2>1. acked[x] .. acked[x] + 1 - 1 = {a}
    BY <1>4
  <2> QED  BY <1>21, <1>22, <2>1
<1>24. /\ DInv'
       /\ acked' = IF stuck = {} THEN [acked EXCEPT ![x] = acked[x] + 1] ELSE acked
  BY <1>2, <1>3, <1>14, <1>15, <1>18, <1>19, <1>23, FillKeeps
<1> QED  BY <1>24

-----------------------------------------------------------------------------
(* The theorem.                                                            *)

\* What a call does to what is stored: nothing, or a layer grows, or a
\* request ends.
More(a, x, n) == [a EXCEPT ![x] = a[x] + n]
Without(a, r) == [x \in Streams |-> IF x[1] = r THEN 0 ELSE a[x]]
Grows(x, n) == acked' = More(acked, x, n)
Ends(r) == acked' = Without(acked, r)

\* Every call of the API, and every failure inside one, keeps the invariant.
LEMMA NextKeeps ==
  ASSUME Careful, DInv, [Next]_vars
  PROVE  /\ DInv'
         /\ \/ acked' = acked
            \/ \E x \in Streams, n \in 1 .. MaxTokens : Grows(x, n)
            \/ \E r \in Requests : Ends(r)
<1>1. IInv /\ IInv'
  BY NextKeepsInv DEF DInv
<1>2. CASE SystemInit
  BY <1>2, SystemInitKeeps
<1>3. CASE SystemShutdown \/ (\E r \in Requests : RequestCreate(r))
             \/ (\E b \in Blocks : TogglePin(b)) \/ UNCHANGED vars
  BY <1>1, <1>3, IdleHidden, HiddenKeeps
<1>4. ASSUME NEW r \in Requests, RequestDestroy(r)
      PROVE  DInv' /\ Ends(r)
  BY <1>4, RequestDestroyKeeps DEF Ends, Without
<1>5. ASSUME NEW x \in Streams, AppendToken(x)
      PROVE  DInv' /\ (acked' = acked \/ \E n \in 1 .. MaxTokens : Grows(x, n))
  <2>1. 1 \in 1 .. MaxTokens
    <3>1. /\ TokenLimit[x[1]] \in 0 .. MaxTokens /\ MaxTokens \in Nat
          /\ ntok[x] \in Nat
      BY <1>1, ConstantsOK DEF IInv, TypeOK, Streams
    <3>2. ntok[x] + 1 <= TokenLimit[x[1]]
      BY <1>5 DEF AppendToken
    <3> QED  BY <3>1, <3>2
  <2>2. DInv' /\ (acked' = acked \/ Grows(x, 1))
    BY <1>5, AppendTokenKeeps DEF Grows, More
  <2> QED  BY <2>1, <2>2
<1>6. ASSUME NEW x \in Streams, NEW n \in 1 .. MaxTokens, Prefill(x, n)
      PROVE  DInv' /\ (acked' = acked \/ Grows(x, n))
  BY <1>6, PrefillKeeps DEF Grows, More
<1>7. ASSUME NEW b \in Blocks,
             \/ EvictToDram(b) \/ PromoteToGpu(b) \/ EvictToStorage(b)
             \/ PromoteFromStorage(b) \/ EvictCold(b) \/ GetKvBlock(b)
      PROVE  DInv' /\ acked' = acked
  <2>1. Hidden
    BY <1>1, <1>7, EvictToDramHidden, PromoteToGpuHidden, EvictToStorageHidden,
       PromoteFromStorageHidden, EvictColdHidden, GetKvBlockHidden
  <2> QED  BY <1>1, <2>1, HiddenKeeps
<1> QED  BY <1>2, <1>3, <1>4, <1>5, <1>6, <1>7 DEF Next

LEMMA InitHolds == Init => DInv
<1> SUFFICES ASSUME Init PROVE DInv
  OBVIOUS
<1>1. IInv
  BY InitHasInv
<1>2. \A x \in Streams : ntok[x] = 0 /\ acked[x] = 0 /\ 0 .. acked[x] - 1 = {}
  BY DEF Init
<1> QED  BY <1>1, <1>2 DEF DInv, Steady, Kept

\* For any sizes: while its callers are Careful the store loses no
\* acknowledged token, through any sequence of fills, moves between tiers, and
\* copies, reads and writes that fail.
THEOREM NothingLost == ASSUME Careful PROVE Spec => []Lossless
<1>1. Init => DInv
  BY InitHolds
<1>2. DInv /\ [Next]_vars => DInv'
  BY NextKeeps
<1>3. DInv => Lossless
  BY DEF DInv, Kept, KeptAt, Place, Lossless
<1> QED  BY <1>1, <1>2, <1>3, PTL DEF Spec

\* What is stored is the log of the acknowledged tokens.
Log(a) == [x \in Streams |-> [h \in Heads |-> [p \in 1 .. a[x] |-> <<x[1], x[2], h, p - 1>>]]]

LEMMA StoredIsLog == DInv => Stored = Log(acked)
<1> SUFFICES ASSUME DInv PROVE Stored = Log(acked)
  OBVIOUS
<1>1. ASSUME NEW x \in Streams, NEW h \in Heads, NEW p \in 1 .. acked[x]
      PROVE  Readout(<<x[1], x[2], h, (p - 1) \div TokensPerBlock>>)[(p - 1) % TokensPerBlock]
               = <<x[1], x[2], h, p - 1>>
  <2>1. p - 1 \in 0 .. acked[x] - 1
    BY DEF DInv, IInv, TypeOK
  <2>2. KeptAt(x, h, p - 1)
    BY <2>1 DEF DInv, Kept
  <2> QED  BY <2>2 DEF KeptAt, Place
<1> QED  BY <1>1 DEF Stored, Log

\* A log that grows is the log before it and the tokens written since.
LEMMA LogGrows ==
  ASSUME NEW a \in [Streams -> Nat], NEW x \in Streams, NEW n \in Nat
  PROVE  Log(More(a, x, n)) = [Log(a) EXCEPT ![x] =
           [h \in Heads |-> Log(a)[x][h] \o
              Store!Written(x, h, Len(Log(a)[x][h]), Len(Log(a)[x][h]) + n)]]
<1> DEFINE old(h) == Log(a)[x][h]
           c == More(a, x, n)
<1>6. c = [a EXCEPT ![x] = a[x] + n]
  BY DEF More
<1> HIDE DEF c
<1>1. PICK m \in Nat : m = a[x]
  OBVIOUS
<1>2. ASSUME NEW h \in Heads
      PROVE  Log(c)[x][h] = old(h) \o Store!Written(x, h, Len(old(h)), Len(old(h)) + n)
  <2>1. old(h) = [p \in 1 .. m |-> <<x[1], x[2], h, p - 1>>]
        /\ Log(c)[x][h] = [p \in 1 .. m + n |-> <<x[1], x[2], h, p - 1>>]
    BY <1>1, <1>6 DEF Log
  <2>2. Store!Written(x, h, m, m + n) = [i \in 1 .. n |-> <<x[1], x[2], h, m + i - 1>>]
    <3>1. m + n - m = n
      OBVIOUS
    <3> QED  BY <3>1 DEF Store!Written
  <2> DEFINE t(p) == <<x[1], x[2], h, p - 1>>
             sum == [p \in 1 .. m + n |-> t(p)]
             one == [p \in 1 .. m |-> t(p)]
             two == [i \in 1 .. n |-> t(m + i)]
             All == {t(p) : p \in Nat}
  <2>3. one \in Seq(All) /\ two \in Seq(All) /\ sum \in Seq(All)
        /\ Len(one) = m /\ Len(two) = n /\ Len(sum) = m + n
    <3>1. \A p \in Nat : t(p) \in All
      OBVIOUS
    <3> HIDE DEF t, All
    <3>2. one \in [1 .. m -> All] /\ two \in [1 .. n -> All] /\ sum \in [1 .. m + n -> All]
      BY <3>1
    <3> QED  BY <3>2
  <2>4. \A i \in 1 .. m + n : sum[i] = IF i <= m THEN one[i] ELSE two[i - m]
    OBVIOUS
  <2> HIDE DEF t, sum, one, two, All
  <2>5. sum = one \o two
    <3>1. /\ one \o two \in Seq(All) /\ Len(one \o two) = m + n
          /\ \A i \in 1 .. m + n : (one \o two)[i] = IF i <= m THEN one[i] ELSE two[i - m]
      BY <2>3, ConcatProperties
    <3> QED  BY <2>3, <2>4, <3>1, SeqEqual
  <2>6. Len(old(h)) = m /\ old(h) = one /\ Log(c)[x][h] = sum
    BY <2>1, <2>3 DEF one, sum, t
  <2>7. Store!Written(x, h, m, m + n) = two
    BY <2>2 DEF two, t
  <2> QED  BY <2>5, <2>6, <2>7
<1>3. \A y \in Streams : y # x => Log(c)[y] = Log(a)[y]
  BY <1>6 DEF Log
<1>4. Log(c)[x] = [h \in Heads |-> old(h) \o
                     Store!Written(x, h, Len(old(h)), Len(old(h)) + n)]
  <2>1. Log(c)[x] = [h \in Heads |-> Log(c)[x][h]]
    BY DEF Log
  <2> HIDE DEF old
  <2> QED  BY <1>2, <2>1
<1>5. /\ Log(c) = [y \in Streams |-> Log(c)[y]]
      /\ DOMAIN Log(a) = Streams
  BY DEF Log
<1> QED  BY <1>3, <1>4, <1>5 DEF c

\* The log when a request ends.
LEMMA LogEnds ==
  ASSUME NEW a, NEW r
  PROVE  Log(Without(a, r)) = [x \in Streams |-> IF x[1] = r THEN Store!Empty ELSE Log(a)[x]]
<1> DEFINE c == Without(a, r)
<1>2. c = [x \in Streams |-> IF x[1] = r THEN 0 ELSE a[x]]
  BY DEF Without
<1> HIDE DEF c
<1>1. ASSUME NEW x \in Streams
      PROVE  Log(c)[x] = IF x[1] = r THEN Store!Empty ELSE Log(a)[x]
  <2>1. CASE x[1] = r
    <3>1. \A h \in Heads : [p \in 1 .. 0 |-> <<x[1], x[2], h, p - 1>>] = <<>>
      OBVIOUS
    <3> QED  BY <1>2, <2>1, <3>1 DEF Log, Store!Empty
  <2>2. CASE x[1] # r
    BY <1>2, <2>2 DEF Log
  <2> QED  BY <2>1, <2>2
<1> QED  BY <1>1 DEF Log, c

\* For any sizes and Careful callers, every call is a step of the abstract
\* store: it appends to every head of a layer, drops a request, or shows nothing.
THEOREM StoreRefined == ASSUME Careful PROVE Spec => StoreSpec
<1>1. Init => DInv /\ Store!Init
  <2> SUFFICES ASSUME Init PROVE DInv /\ Store!Init
    OBVIOUS
  <2>1. DInv /\ Stored = Log(acked)
    BY InitHolds, StoredIsLog
  <2>2. acked = [x \in Streams |-> 0]
    BY DEF Init
  <2>3. Log(acked) = [x \in Streams |-> Store!Empty]
    <3>1. ASSUME NEW x \in Streams, NEW h \in Heads
          PROVE  [p \in 1 .. acked[x] |-> <<x[1], x[2], h, p - 1>>] = <<>>
      BY <2>2
    <3> QED  BY <3>1 DEF Log, Store!Empty
  <2> QED  BY <2>1, <2>3 DEF Store!Init, Streams
<1>2. DInv /\ [Next]_vars => DInv' /\ [Store!Next]_Stored
  <2> SUFFICES ASSUME DInv, [Next]_vars PROVE DInv' /\ [Store!Next]_Stored
    OBVIOUS
  <2>1. DInv'
    BY NextKeeps
  <2>2. Stored = Log(acked)
    BY StoredIsLog
  <2>3. Stored' = Log(acked')
    <3>1. (Stored = Log(acked))'
      BY <2>1, StoredIsLog, PTL
    <3> QED  BY <3>1 DEF Log
  <2>4. CASE acked' = acked
    BY <2>1, <2>2, <2>3, <2>4
  <2>5. ASSUME NEW x \in Streams, NEW n \in 1 .. MaxTokens, Grows(x, n)
        PROVE  Store!Next
    <3>1. n \in Nat /\ acked \in [Streams -> Nat]
      BY DEF DInv, IInv, TypeOK
    <3>2. Store!Extend(x, n)
      <4>1. Log(acked') = [Log(acked) EXCEPT ![x] =
              [h \in Heads |-> Log(acked)[x][h] \o
                 Store!Written(x, h, Len(Log(acked)[x][h]), Len(Log(acked)[x][h]) + n)]]
        BY <2>5, <3>1, LogGrows DEF Grows
      <4>2. Stored' = [Stored EXCEPT ![x] =
              [h \in Heads |-> Stored[x][h] \o
                 Store!Written(x, h, Len(Stored[x][h]), Len(Stored[x][h]) + n)]]
        BY <2>2, <2>3, <4>1
      <4> QED  BY <4>2 DEF Store!Extend
    <3> QED  BY <3>2 DEF Store!Next, Streams
  <2>6. ASSUME NEW r \in Requests, Ends(r)
        PROVE  Store!Next
    <3>1. Store!Drop(r)
      <4>1. Log(acked') = [x \in Streams |-> IF x[1] = r THEN Store!Empty ELSE Log(acked)[x]]
        BY <2>6, LogEnds DEF Ends
      <4>2. Stored' = [x \in Streams |-> IF x[1] = r THEN Store!Empty ELSE Stored[x]]
        BY <2>2, <2>3, <4>1
      <4> QED  BY <4>2 DEF Store!Drop, Streams
    <3> QED  BY <3>1 DEF Store!Next
  <2> QED  BY <2>1, <2>4, <2>5, <2>6, NextKeeps
<1> QED  BY <1>1, <1>2, PTL DEF Spec, StoreSpec, Store!Spec

\* For any sizes and Careful callers, token_count is what it is documented to
\* be, the tokens stored in a block: the run that refutes it repeats an append
\* that failed.
THEOREM TokenCountHolds == ASSUME Careful PROVE Spec => []TokenCountIsStored
<1>1. Init => DInv
  BY InitHolds
<1>2. DInv /\ [Next]_vars => DInv'
  BY NextKeeps
<1>3. DInv => TokenCountIsStored
  <2> SUFFICES ASSUME DInv, NEW b \in Blocks, tier[b] # "NONE", StreamOf(b) \notin failed,
                      NEW s \in Slots, s < TokenCount(b, ntok[StreamOf(b)])
               PROVE  Readout(b)[s] # Junk
    BY DEF TokenCountIsStored
  <2> DEFINE T == TokensPerBlock
             x == StreamOf(b)
  <2>1. /\ T \in Nat \ {0} /\ x \in Streams /\ HeadOf(b) \in Heads /\ IndexOf(b) \in Nat
        /\ b = <<x[1], x[2], HeadOf(b), IndexOf(b)>> /\ s \in 0 .. T - 1
        /\ acked[x] \in 0 .. MaxTokens /\ MaxTokens \in Nat
    BY BlockParts, ConstantsOK DEF DInv, IInv, TypeOK, Slots, StreamOf
  <2>2. ntok[x] = acked[x]
    BY <2>1 DEF DInv, Steady
  <2> HIDE DEF T, x
  <2>3. PICK m \in Nat : m = IndexOf(b) * T /\ m = T * IndexOf(b)
    BY <2>1
  <2>4. s < acked[x] - m
    <3>1. TokenCount(b, acked[x]) = IF acked[x] - m < T THEN acked[x] - m ELSE T
      BY <2>3 DEF TokenCount, T
    <3> DEFINE count == TokenCount(b, acked[x])
    <3>2. s < count
      BY <2>2 DEF x
    <3> HIDE DEF count
    <3>3. count = IF acked[x] - m < T THEN acked[x] - m ELSE T
      BY <3>1 DEF count
    <3> QED  BY <2>1, <3>2, <3>3
  <2>5. PICK p \in Nat : p = m + s /\ p \in 0 .. acked[x] - 1
    BY <2>1, <2>3, <2>4
  <2>6. p \div T = IndexOf(b) /\ p % T = s
    <3>1. PICK q \in Nat, r \in 0 .. T - 1 : q = p \div T /\ r = p % T /\ p = T * q + r
      BY Positions DEF T, Slots
    <3>2. T * q + r = T * IndexOf(b) + s
      BY <2>3, <2>5, <3>1
    <3> QED  BY <2>1, <3>1, <3>2, OnePlace
  <2>7. Place(x, HeadOf(b), p) = b
    BY <2>1, <2>6 DEF Place, T
  <2>8. Readout(b)[s] = <<x[1], x[2], HeadOf(b), p>>
    BY <2>1, <2>5, <2>6, <2>7 DEF DInv, Kept, KeptAt, T
  <2>9. <<x[1], x[2], HeadOf(b), p>> \in Tokens
    BY <2>1, <2>5, TokenIsContent
  <2> QED  BY <2>8, <2>9, ConstantsOK
<1> QED  BY <1>1, <1>2, <1>3, PTL DEF Spec
=============================================================================
