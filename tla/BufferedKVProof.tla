-------------------------- MODULE BufferedKVProof --------------------------
(***************************************************************************)
(* For any sizes, budget and faults: what FastKVCacheManager and            *)
(* FastFIFOManager would build is the log of the tokens they took in (when  *)
(* no prompt comes while blocks are listed as evicted), what they list and  *)
(* what they copied agree (when FastFIFOManager is given one prompt), and   *)
(* FastKVCacheManager makes room.                                          *)
(*                                                                         *)
(* DInv speaks of the data: the cells of a buffer that count, and every     *)
(* copy in DRAM, hold tokens of this conversation, so that it is of no      *)
(* matter which copy comes back when.  AInv speaks of the accounts; what it *)
(* adds is that the queue of FastFIFOManager names no block twice.         *)
(***************************************************************************)
EXTENDS BufferedKV, SequenceTheorems, FiniteSetTheorems, TLAPS

Sized ==
  /\ kind \in Kinds /\ taken \in BOOLEAN /\ conv \in Nat /\ conv + 1 <= MaxConv
  /\ seqLen \in 0 .. MaxTokens /\ total \in 0 .. seqLen /\ (taken => total > 0)
  /\ maxLen \in 1 .. MaxCap /\ total <= maxLen

\* The cells of a buffer that hold tokens of this conversation for sure.
Held == IF taken /\ ~ DirtyRestart THEN total ELSE 0

\* A buffer for m tokens, the first h of them those of c.
Buffer(b, m, h, c) == /\ b \in Seq(Cells) /\ Len(b) \in m .. MaxCap
                      /\ \A p \in 1 .. h : b[p] = c
\* A copy of the cells of range r, of tokens of c.
Copy(x, r, c) == /\ x \in [1 .. r[2] - r[1] -> Cells]
                 /\ ~ DirtyRestart => \A p \in 1 .. r[2] - r[1] : x[p] = c
AllCopies(st, c) == \A r \in DOMAIN st : Copy(st[r], r, c)
Ranged(B, n)  == \A r \in DOMAIN B : r \in Ranges /\ r[2] <= n /\ B[r] \in Nat

DInv ==
  /\ Sized
  /\ \A l \in Layers : /\ Buffer(bufs[l], maxLen, Held, Mine)
                       /\ Ranged(evicted[l], total)
                       /\ DOMAIN store[l] \subseteq DOMAIN evicted[l]
                       /\ AllCopies(store[l], Mine)
  /\ queue \in Seq(0 .. NBlocks - 1)

USE BufferedConstantsOK DEF BufferedConstantsOK

-----------------------------------------------------------------------------
(* Numbers.                                                                *)

LEMMA Sizes ==
  /\ BlockSize \in Nat /\ BlockSize > 0 /\ Grain \in Nat /\ Grain > 0
  /\ NLayers \in Nat /\ NLayers > 0 /\ Budget \in Nat /\ Budget > 0
  /\ MaxEvict \in Nat /\ MaxEvict > 0 /\ FirstLen \in Nat /\ FirstLen > 0
  /\ MaxConv \in Nat /\ MaxConv > 0 /\ SinkTokens \in Nat
  /\ MaxTokens \in Nat /\ FirstLen <= MaxTokens
OBVIOUS

LEMMA DivMod ==
  ASSUME NEW c \in Nat \ {0}, NEW n \in Nat
  PROVE  n = c * (n \div c) + (n % c) /\ n % c \in 0 .. c - 1 /\ n \div c \in Nat
OBVIOUS

LEMMA ProductMonotone ==
  ASSUME NEW c \in Nat, NEW p \in Nat, NEW q \in Nat, p <= q PROVE c * p <= c * q
OBVIOUS

LEMMA ProductNat == ASSUME NEW c \in Nat, NEW p \in Nat PROVE c * p \in Nat
OBVIOUS

\* The least multiple of d from n on.
LEMMA CeilIs ==
  ASSUME NEW n \in Nat, NEW d \in Nat \ {0}
  PROVE  /\ Ceil(n, d) \in Nat /\ n <= d * Ceil(n, d) /\ d * Ceil(n, d) < n + d
         /\ d * Ceil(n, d) = Ceil(n, d) * d /\ d * Ceil(n, d) \in Nat
<1> DEFINE m == n + d - 1
<1>1. m \in Nat
  OBVIOUS
<1>2. m = d * (m \div d) + (m % d) /\ m % d \in 0 .. d - 1 /\ m \div d \in Nat
  BY <1>1, DivMod
<1>3. Ceil(n, d) = m \div d
  BY DEF Ceil
<1> DEFINE c == Ceil(n, d)
<1>4. m = d * c + (m % d) /\ c \in Nat
  BY <1>2, <1>3
<1>5. d * c \in Nat /\ d * c = c * d
  BY <1>4, ProductNat
<1> HIDE DEF c
<1>6. n <= d * c /\ d * c < n + d
  BY <1>2, <1>4, <1>5
<1>7. QED
  BY <1>4, <1>5, <1>6 DEF c

LEMMA GrownToIs ==
  ASSUME NEW n \in Nat
  PROVE  GrownTo(n) \in Nat /\ n <= GrownTo(n) /\ GrownTo(n) < n + Grain
  BY CeilIs, Sizes DEF GrownTo

\* Block bid has a token of the first n.
LEMMA BlockBegins ==
  ASSUME NEW n \in Nat, NEW bid \in Nat
  PROVE  bid < Ceil(n, BlockSize) <=> bid * BlockSize < n
<1> DEFINE c == Ceil(n, BlockSize)
<1>1. /\ c \in Nat /\ n <= BlockSize * c /\ BlockSize * c < n + BlockSize /\ BlockSize * c \in Nat
      /\ BlockSize \in Nat /\ BlockSize > 0
  BY CeilIs, Sizes
<1>2. bid * BlockSize = BlockSize * bid /\ BlockSize * bid \in Nat
  BY <1>1, ProductNat
<1> HIDE DEF c
<1>3. ASSUME bid < c PROVE BlockSize * bid < n
  <2>1. BlockSize * (bid + 1) <= BlockSize * c
    BY <1>1, <1>3, ProductMonotone
  <2>2. BlockSize * (bid + 1) = BlockSize * bid + BlockSize
    BY <1>1
  <2>3. QED
    BY <1>1, <1>2, <2>1, <2>2
<1>4. ASSUME ~ (bid < c) PROVE ~ (BlockSize * bid < n)
  <2>1. BlockSize * c <= BlockSize * bid
    BY <1>1, <1>4, ProductMonotone
  <2>2. QED
    BY <1>1, <1>2, <2>1
<1>5. QED
  BY <1>2, <1>3, <1>4 DEF c

LEMMA CeilMonotone ==
  ASSUME NEW m \in Nat, NEW n \in Nat, m <= n PROVE Ceil(m, BlockSize) <= Ceil(n, BlockSize)
<1> DEFINE c == Ceil(n, BlockSize)
<1>1. c \in Nat /\ Ceil(m, BlockSize) \in Nat
  BY CeilIs, Sizes
<1>2. ~ (c * BlockSize < n)
  BY <1>1, BlockBegins
<1>3. c * BlockSize \in Nat
  BY <1>1, Sizes, ProductNat
<1>4. ~ (c < Ceil(m, BlockSize))
  BY <1>1, <1>2, <1>3, BlockBegins
<1>5. QED
  BY <1>1, <1>4

\* The range of a block is one, and tells its number.
LEMMA RangeIs ==
  ASSUME Sized, NEW bid \in 0 .. NBlocks - 1
  PROVE  /\ RangeOf(bid) \in Ranges /\ RangeOf(bid)[2] <= total
         /\ BlockOf(RangeOf(bid)) = bid
<1> DEFINE s == bid * BlockSize
<1>1. total \in Nat /\ total <= MaxTokens
  BY Sizes DEF Sized
<1>2. bid \in Nat /\ NBlocks \in Nat /\ bid < NBlocks
  BY <1>1, CeilIs, Sizes DEF NBlocks
<1>3. s < total /\ s \in Nat
  BY <1>1, <1>2, BlockBegins, Sizes, ProductNat DEF NBlocks
<1>4. s \div BlockSize = bid
  <2>1. /\ s = BlockSize * (s \div BlockSize) + (s % BlockSize)
        /\ s % BlockSize \in 0 .. BlockSize - 1 /\ s \div BlockSize \in Nat
    BY <1>3, Sizes, DivMod
  <2> DEFINE q == s \div BlockSize
  <2>2. s = BlockSize * bid /\ BlockSize * q \in Nat /\ q \in Nat
    BY <1>2, <2>1, Sizes, ProductNat
  <2>3. BlockSize * q <= BlockSize * bid /\ BlockSize * bid < BlockSize * q + BlockSize
    BY <2>1, <2>2, <1>3, Sizes
  <2> HIDE DEF q
  <2>4. BlockSize * (q + 1) = BlockSize * q + BlockSize
        /\ BlockSize * (bid + 1) = BlockSize * bid + BlockSize
    BY <1>2, <2>2, Sizes
  <2>5. ~ (q + 1 <= bid)
    <3>1. q + 1 <= bid => BlockSize * (q + 1) <= BlockSize * bid
      BY <1>2, <2>2, Sizes, ProductMonotone
    <3>2. QED
      BY <2>2, <2>3, <2>4, <3>1, Sizes, <1>3
  <2>6. ~ (bid + 1 <= q)
    <3>1. bid + 1 <= q => BlockSize * (bid + 1) <= BlockSize * q
      BY <1>2, <2>2, Sizes, ProductMonotone
    <3>2. QED
      BY <2>2, <2>3, <2>4, <3>1, Sizes, <1>3
  <2>7. QED
    BY <1>2, <2>2, <2>5, <2>6 DEF q
<1> HIDE DEF s
<1>5. RangeOf(bid) = <<s, IF s + BlockSize < total THEN s + BlockSize ELSE total>>
  BY DEF RangeOf, s
<1>6. QED
  BY <1>1, <1>3, <1>4, <1>5, Sizes DEF Ranges, BlockOf

-----------------------------------------------------------------------------
(* Buffers.                                                                *)

LEMMA FunSeq ==
  ASSUME NEW n \in Nat, NEW S, NEW f \in [1 .. n -> S] PROVE f \in Seq(S) /\ Len(f) = n
OBVIOUS

LEMMA GrownIs ==
  ASSUME NEW b, NEW m \in Nat, NEW h \in 0 .. m, NEW c, Buffer(b, m, h, c),
         NEW n \in m .. MaxCap
  PROVE  Buffer(Grown(b, n), n, h, c)
<1>1. /\ b \in Seq(Cells) /\ Len(b) \in Nat /\ b \in [1 .. Len(b) -> Cells] /\ m <= Len(b)
      /\ \A p \in 1 .. h : b[p] = c
  BY LenProperties DEF Buffer
<1>2. 0 \in Cells /\ n \in Nat /\ MaxCap \in Nat
  BY Sizes DEF Cells, MaxCap
<1>3. Grown(b, n) \in [1 .. n -> Cells]
  BY <1>1, <1>2 DEF Grown
<1>4. \A p \in 1 .. h : Grown(b, n)[p] = c
  BY <1>1, <1>2 DEF Grown
<1>5. Grown(b, n) \in Seq(Cells) /\ Len(Grown(b, n)) = n
  BY <1>2, <1>3, FunSeq
<1>6. QED
  BY <1>2, <1>4, <1>5 DEF Buffer

\* The buffers before a call writes, and that they have the room.
LEMMA WithRoomIs ==
  ASSUME DInv, NEW need \in 1 .. MaxTokens, NEW ask \in need .. MaxTokens + Grain
  PROVE  /\ RoomFor(need, ask) \in 1 .. MaxCap /\ need <= RoomFor(need, ask)
         /\ maxLen <= RoomFor(need, ask)
         /\ \A l \in Layers : Buffer(WithRoom(need, ask)[l], RoomFor(need, ask), Held, Mine)
<1>1. /\ maxLen \in 1 .. MaxCap /\ Held \in 0 .. maxLen
      /\ \A l \in Layers : Buffer(bufs[l], maxLen, Held, Mine)
  BY DEF DInv, Sized, Held
<1>2. CASE need > maxLen
  <2>1. ask \in Nat /\ GrownTo(ask) \in Nat /\ ask <= GrownTo(ask) /\ GrownTo(ask) < ask + Grain
    BY GrownToIs, Sizes
  <2>2. /\ RoomFor(need, ask) = GrownTo(ask)
        /\ \A l \in Layers : WithRoom(need, ask)[l] = Grown(bufs[l], GrownTo(ask))
    BY <1>2 DEF RoomFor, WithRoom
  <2>3. GrownTo(ask) \in maxLen .. MaxCap
    BY <1>1, <1>2, <2>1, Sizes DEF MaxCap
  <2>4. \A l \in Layers : Buffer(Grown(bufs[l], GrownTo(ask)), GrownTo(ask), Held, Mine)
    BY <1>1, <2>3, GrownIs
  <2>5. QED
    BY <1>1, <1>2, <2>1, <2>2, <2>3, <2>4, Sizes
<1>3. CASE ~ (need > maxLen)
  BY <1>1, <1>3, Sizes DEF RoomFor, WithRoom
<1>4. QED
  BY <1>2, <1>3

\* Mine is a number a cell can hold.
LEMMA MineIs == ASSUME Sized PROVE Mine \in Cells
  BY Sizes DEF Sized, Mine, Cells

LEMMA NBlocksGrow ==
  ASSUME Sized, Sized', total <= total' PROVE (0 .. NBlocks - 1) \subseteq (0 .. NBlocks' - 1)
<1>1. total \in Nat /\ total' \in Nat
  BY Sizes DEF Sized
<1>2. Ceil(total, BlockSize) <= Ceil(total', BlockSize)
  BY <1>1, CeilMonotone
<1>3. Ceil(total, BlockSize) \in Nat /\ Ceil(total', BlockSize) \in Nat
  BY <1>1, CeilIs, Sizes
<1>4. QED
  BY <1>2, <1>3 DEF NBlocks

\* The block of the token after n, where it is the first of its block.
LEMMA LastBlock ==
  ASSUME NEW n \in Nat
  PROVE  /\ n \div BlockSize \in 0 .. Ceil(n + 1, BlockSize) - 1
         /\ n % BlockSize = 0 => n \div BlockSize = Ceil(n, BlockSize)
<1> DEFINE q == n \div BlockSize
           c == Ceil(n, BlockSize)
<1>1. /\ n = BlockSize * q + (n % BlockSize) /\ n % BlockSize \in 0 .. BlockSize - 1
      /\ q \in Nat /\ BlockSize * q \in Nat /\ q * BlockSize = BlockSize * q
  BY Sizes, DivMod, ProductNat
<1>2. c \in Nat /\ Ceil(n + 1, BlockSize) \in Nat
  <2>1. n \in Nat /\ n + 1 \in Nat /\ BlockSize \in Nat \ {0}
    BY Sizes
  <2>2. QED
    BY <2>1, CeilIs
<1> HIDE DEF q, c
<1>3. q * BlockSize < n + 1
  BY <1>1, Sizes
<1>4. q < Ceil(n + 1, BlockSize)
  BY <1>1, <1>3, BlockBegins
<1>5. ASSUME n % BlockSize = 0 PROVE q = c
  <2>1. ~ (q < c)
    BY <1>1, <1>2, <1>5, BlockBegins DEF c
  <2>2. ~ (c < q)
    <3>1. BlockSize * c \in Nat /\ n <= BlockSize * c
      BY Sizes, CeilIs DEF c
    <3>2. c < q => BlockSize * (c + 1) <= BlockSize * q
      BY <1>1, <1>2, Sizes, ProductMonotone
    <3>3. BlockSize * (c + 1) = BlockSize * c + BlockSize
      BY <1>2, Sizes
    <3>4. QED
      BY <1>1, <1>5, <3>1, <3>2, <3>3, Sizes
  <2>3. QED
    BY <1>1, <1>2, <2>1, <2>2
<1>6. QED
  BY <1>1, <1>2, <1>4, <1>5 DEF q, c

LEMMA RangedLater ==
  ASSUME NEW B, NEW m \in Nat, NEW n \in Nat, m <= n, Ranged(B, m) PROVE Ranged(B, n)
  BY DEF Ranged, Ranges

-----------------------------------------------------------------------------
(* Taking tokens in keeps DInv.                                            *)

\* What is left to show of a call that takes tokens in.
LEMMA TakenIn ==
  ASSUME DInv, Sized', taken', total <= total', UNCHANGED <<conv, evicted, store>>,
         \A l \in Layers : Buffer(bufs'[l], maxLen', Held', Mine),
         queue' \in Seq(0 .. NBlocks' - 1)
  PROVE  DInv'
<1>1. Mine' = Mine
  BY DEF Mine
<1>2. ASSUME NEW l \in Layers PROVE Ranged(evicted'[l], total')
  <2>1. Ranged(evicted[l], total) /\ total \in Nat /\ total' \in Nat
    BY Sizes DEF DInv, Sized
  <2>2. QED
    BY <2>1, RangedLater
<1>3. ASSUME NEW l \in Layers
      PROVE DOMAIN store'[l] \subseteq DOMAIN evicted'[l] /\ AllCopies(store'[l], Mine')
  BY <1>1 DEF DInv
<1>4. QED
  BY <1>1, <1>2, <1>3 DEF DInv

LEMMA IngestKeeps == ASSUME DInv, Ingest PROVE DInv'
<1> DEFINE m == RoomFor(seqLen, seqLen)
           bs == WithRoom(seqLen, seqLen)
<1>1. Sized /\ seqLen \in 1 .. MaxTokens /\ seqLen \in seqLen .. MaxTokens + Grain
      /\ seqLen \in Nat /\ total \in Nat
  BY Sizes DEF DInv, Sized, Ingest, MayIngest
<1>2. /\ m \in 1 .. MaxCap /\ seqLen <= m /\ maxLen <= m
      /\ \A l \in Layers : Buffer(bs[l], m, Held, Mine)
  BY <1>1, WithRoomIs, Sizes
<1> HIDE DEF m, bs
<1>3. /\ maxLen' = m /\ total' = seqLen /\ taken' = TRUE
      /\ UNCHANGED <<kind, conv, seqLen, evicted, store>>
      /\ bufs' = [l \in Layers |-> [p \in 1 .. Len(bs[l]) |->
                                    IF p <= seqLen THEN Mine ELSE bs[l][p]]]
  BY DEF Ingest, m, bs, loopVars, dramVars
<1>4. Sized' /\ total <= total' /\ taken' /\ Held' <= seqLen /\ Held' \in Nat
  BY <1>1, <1>2, <1>3, Sizes DEF Sized, Held
<1>5. ASSUME NEW l \in Layers PROVE Buffer(bufs'[l], maxLen', Held', Mine)
  <2>1. /\ bs[l] \in Seq(Cells) /\ Len(bs[l]) \in m .. MaxCap /\ Len(bs[l]) \in Nat
        /\ bs[l] \in [1 .. Len(bs[l]) -> Cells]
    BY <1>2, LenProperties DEF Buffer
  <2>2. bufs'[l] = [p \in 1 .. Len(bs[l]) |-> IF p <= seqLen THEN Mine ELSE bs[l][p]]
    BY <1>3
  <2>3. Mine \in Cells
    BY <1>1, MineIs
  <2>4. bufs'[l] \in [1 .. Len(bs[l]) -> Cells]
    BY <2>1, <2>2, <2>3
  <2>5. bufs'[l] \in Seq(Cells) /\ Len(bufs'[l]) = Len(bs[l])
    BY <2>1, <2>4, FunSeq
  <2>6. \A p \in 1 .. Held' : bufs'[l][p] = Mine
    BY <1>1, <1>2, <1>4, <2>1, <2>2
  <2>7. QED
    BY <1>3, <2>1, <2>5, <2>6 DEF Buffer
<1>6. queue' \in Seq(0 .. NBlocks' - 1)
  <2>1. queue \in Seq(0 .. NBlocks' - 1)
    BY <1>1, <1>4, NBlocksGrow, SeqMonotonic DEF DInv
  <2>2. CASE kind = "fifo"
    <3> DEFINE n == Ceil(seqLen, BlockSize)
               f == [i \in 1 .. n |-> i - 1]
    <3>1. n \in Nat /\ NBlocks' = n
      BY <1>1, <1>3, CeilIs, Sizes DEF NBlocks
    <3> HIDE DEF n
    <3>2. f \in [1 .. n -> 0 .. NBlocks' - 1]
      BY <3>1
    <3>3. f \in Seq(0 .. NBlocks' - 1)
      BY <3>1, <3>2, FunSeq
    <3>4. queue' = queue \o f
      BY <2>2 DEF Ingest, n
    <3>5. QED
      BY <2>1, <3>3, <3>4, ConcatProperties
  <2>3. QED
    BY <2>1, <2>2 DEF Ingest
<1>7. QED
  BY <1>3, <1>4, <1>5, <1>6, TakenIn

LEMMA AppendTokenKeeps == ASSUME DInv, AppendToken PROVE DInv'
<1> DEFINE m == RoomFor(total + 1, total + Grain)
           bs == WithRoom(total + 1, total + Grain)
<1>1. /\ Sized /\ total \in Nat /\ total + 1 \in 1 .. MaxTokens /\ seqLen = total + 1
      /\ total + Grain \in total + 1 .. MaxTokens + Grain /\ taken
  BY Sizes DEF DInv, Sized, AppendToken, MayAppend
<1>2. /\ m \in 1 .. MaxCap /\ total + 1 <= m /\ maxLen <= m
      /\ \A l \in Layers : Buffer(bs[l], m, Held, Mine)
  BY <1>1, WithRoomIs, Sizes
<1> HIDE DEF m, bs
<1>3. /\ maxLen' = m /\ total' = total + 1
      /\ UNCHANGED <<kind, conv, seqLen, taken, evicted, store>>
      /\ bufs' = [l \in Layers |-> [bs[l] EXCEPT ![total + 1] = Mine]]
  BY DEF AppendToken, m, bs, loopVars, dramVars
<1>4. Sized' /\ total <= total' /\ taken' /\ Held' <= Held + 1 /\ Held' <= total + 1
      /\ Held \in Nat /\ Held' \in Nat
  BY <1>1, <1>2, <1>3, Sizes DEF Sized, Held
<1>5. ASSUME NEW l \in Layers PROVE Buffer(bufs'[l], maxLen', Held', Mine)
  <2>1. /\ bs[l] \in Seq(Cells) /\ Len(bs[l]) \in m .. MaxCap /\ Len(bs[l]) \in Nat
        /\ \A p \in 1 .. Held : bs[l][p] = Mine
    BY <1>2, LenProperties DEF Buffer
  <2>2. bufs'[l] = [bs[l] EXCEPT ![total + 1] = Mine]
    BY <1>3
  <2>3. Mine \in Cells /\ total + 1 \in 1 .. Len(bs[l])
    BY <1>1, <1>2, <2>1, MineIs
  <2>4. /\ bufs'[l] \in Seq(Cells) /\ Len(bufs'[l]) = Len(bs[l])
        /\ \A j \in 1 .. Len(bs[l]) : bufs'[l][j] = IF j = total + 1 THEN Mine ELSE bs[l][j]
    BY <2>1, <2>2, <2>3, ExceptSeq
  <2>5. ASSUME NEW p \in 1 .. Held' PROVE bufs'[l][p] = Mine
    <3>0. Held' = 0 \/ Held = total
      BY <1>1, <1>3 DEF Held
    <3> DEFINE h == Held  k == Held'  n == Len(bs[l])
    <3>a. /\ h \in Nat /\ k \in Nat /\ p \in 1 .. k /\ k <= total + 1 /\ (k = 0 \/ h = total)
          /\ n \in Nat /\ total + 1 <= n /\ total \in Nat
      BY <1>1, <1>4, <2>1, <2>3, <3>0
    <3> HIDE DEF h, k, n
    <3>b. p \in 1 .. n /\ (p = total + 1 \/ p \in 1 .. h)
      BY <3>a
    <3>1. p \in 1 .. Len(bs[l]) /\ (p = total + 1 \/ p \in 1 .. Held)
      BY <3>b DEF h, n
    <3>2. QED
      BY <2>1, <2>4, <3>1
  <2>6. QED
    BY <1>3, <2>1, <2>4, <2>5 DEF Buffer
<1>6. queue' \in Seq(0 .. NBlocks' - 1)
  <2>1. queue \in Seq(0 .. NBlocks' - 1)
    BY <1>1, <1>4, NBlocksGrow, SeqMonotonic DEF DInv
  <2>2. CASE kind = "fifo" /\ total % BlockSize = 0
    <3>1. total \div BlockSize \in 0 .. NBlocks' - 1
      BY <1>1, <1>3, LastBlock DEF NBlocks
    <3>2. queue' = Append(queue, total \div BlockSize)
      BY <2>2 DEF AppendToken
    <3>3. QED
      BY <2>1, <3>1, <3>2
  <2>3. QED
    BY <2>1, <2>2 DEF AppendToken
<1>7. QED
  BY <1>3, <1>4, <1>5, <1>6, TakenIn

LEMMA GrowFailsKeeps == ASSUME DInv, GrowFails PROVE DInv'
<1>1. /\ Sized /\ maxLen \in Nat /\ Held \in 0 .. maxLen
      /\ UNCHANGED <<kind, conv, seqLen, taken, total, maxLen, evicted, store, queue>>
  BY Sizes DEF DInv, Sized, GrowFails, loopVars, dramVars, Held, MaxCap
<1>2. PICK n \in 1 .. MaxCap, l \in Layers :
        /\ n > maxLen
        /\ bufs' = [k \in Layers |-> IF k < l THEN Grown(bufs[k], n) ELSE bufs[k]]
  <2>1. PICK n \in 1 .. MaxCap, l \in Layers :
          /\ \/ MayIngest /\ seqLen > maxLen /\ n = GrownTo(seqLen)
             \/ MayAppend /\ total >= maxLen /\ n = GrownTo(total + Grain)
          /\ bufs' = [k \in Layers |-> IF k < l THEN Grown(bufs[k], n) ELSE bufs[k]]
    BY DEF GrowFails
  <2>2. seqLen \in Nat /\ total \in Nat
    BY <1>1, Sizes DEF Sized
  <2>3. seqLen <= GrownTo(seqLen) /\ total + Grain <= GrownTo(total + Grain)
        /\ GrownTo(seqLen) \in Nat /\ GrownTo(total + Grain) \in Nat
    BY <2>2, GrownToIs, Sizes
  <2>4. n > maxLen
    BY <1>1, <2>1, <2>2, <2>3, Sizes
  <2>5. QED
    BY <2>1, <2>4
<1>3. ASSUME NEW k \in Layers PROVE Buffer(bufs'[k], maxLen, Held, Mine)
  <2>1. Buffer(bufs[k], maxLen, Held, Mine)
    BY DEF DInv
  <2>2. n \in maxLen .. MaxCap
    BY <1>1, <1>2
  <2>3. Buffer(Grown(bufs[k], n), n, Held, Mine)
    BY <1>1, <2>1, <2>2, GrownIs
  <2>4. Buffer(Grown(bufs[k], n), maxLen, Held, Mine)
    BY <1>1, <2>2, <2>3 DEF Buffer
  <2>5. QED
    BY <1>2, <2>1, <2>4
<1>4. Held' = Held /\ Mine' = Mine /\ NBlocks' = NBlocks /\ Sized'
  BY <1>1 DEF Held, Mine, NBlocks, Sized
<1>5. QED
  BY <1>1, <1>3, <1>4 DEF DInv

-----------------------------------------------------------------------------
(* Copying back keeps DInv.                                                *)

LEMMA EmptyBagIs == DOMAIN EmptyBag = {}
  BY DEF EmptyBag, SetToBag

\* Whichever copies come back, the cells hold what they should.
LEMMA RestoredIs ==
  ASSUME DInv, NEW l \in Layers, NEW R PROVE Buffer(Restored(l, R), maxLen, Held, Mine)
<1> DEFINE Hit(p) == {r \in R \cap DOMAIN store[l] : r[1] < p /\ p <= r[2]}
           n == Len(bufs[l])
<1>1. /\ bufs[l] \in Seq(Cells) /\ n \in maxLen .. MaxCap /\ n \in Nat
      /\ bufs[l] \in [1 .. n -> Cells] /\ \A p \in 1 .. Held : bufs[l][p] = Mine
  BY LenProperties DEF DInv, Buffer
<1>2. maxLen \in Nat /\ Held \in Nat /\ Held <= maxLen
  BY Sizes DEF DInv, Sized, Held, MaxCap
<1>3. ASSUME NEW p \in 1 .. n, NEW r \in Hit(p)
      PROVE  store[l][r][p - r[1]] \in Cells /\ (~ DirtyRestart => store[l][r][p - r[1]] = Mine)
  <2>1. /\ r \in DOMAIN store[l] /\ r \in DOMAIN evicted[l] /\ r \in Ranges
        /\ Copy(store[l][r], r, Mine) /\ r[1] < p /\ p <= r[2]
    BY DEF DInv, Ranged, AllCopies
  <2>2. r[1] \in Nat /\ r[2] \in Nat
    BY <2>1, Sizes DEF Ranges
  <2>3. p - r[1] \in 1 .. r[2] - r[1]
    <3> DEFINE a == r[1]  z == r[2]
    <3>1. a \in Nat /\ z \in Nat /\ p \in Nat /\ a < p /\ p <= z
      BY <1>1, <2>1, <2>2
    <3> HIDE DEF a, z
    <3>2. p - a \in 1 .. z - a
      BY <3>1
    <3>3. QED
      BY <3>2 DEF a, z
  <2>4. QED
    BY <2>1, <2>3 DEF Copy
<1> DEFINE Back(p) == IF Hit(p) = {} THEN bufs[l][p]
                      ELSE (LET r == CHOOSE r \in Hit(p) : TRUE IN store[l][r][p - r[1]])
<1>4. ASSUME NEW p \in 1 .. n
      PROVE  Back(p) \in Cells /\ (p \in 1 .. Held => Back(p) = Mine)
  <2>1. CASE Hit(p) = {}
    BY <1>1, <2>1
  <2>2. CASE Hit(p) # {}
    <3> DEFINE r == CHOOSE r \in Hit(p) : TRUE
    <3>1. r \in Hit(p)
      BY <2>2
    <3>2. Back(p) = store[l][r][p - r[1]]
      BY <2>2
    <3> HIDE DEF r, Back, Hit
    <3>3. Back(p) \in Cells /\ (~ DirtyRestart => Back(p) = Mine)
      BY <1>3, <3>1, <3>2
    <3>4. p \in 1 .. Held => ~ DirtyRestart
      BY DEF Held
    <3>5. QED
      BY <3>3, <3>4
  <2>3. QED
    BY <2>1, <2>2
<1>5. Restored(l, R) = [p \in 1 .. n |-> Back(p)]
  BY DEF Restored
<1> HIDE DEF Back, n
<1>6. Restored(l, R) \in [1 .. n -> Cells] /\ \A p \in 1 .. n : Restored(l, R)[p] = Back(p)
  BY <1>4, <1>5
<1>7. Restored(l, R) \in Seq(Cells) /\ Len(Restored(l, R)) = n
  BY <1>1, <1>6, FunSeq
<1>8. \A p \in 1 .. Held : Restored(l, R)[p] = Mine
  BY <1>1, <1>2, <1>4, <1>6
<1>9. QED
  BY <1>1, <1>7, <1>8 DEF Buffer

LEMMA LeftStoreIs ==
  ASSUME DInv, NEW l \in Layers, NEW R
  PROVE  /\ DOMAIN LeftStore(l, R) = DOMAIN store[l] \ R
         /\ AllCopies(LeftStore(l, R), Mine)
  BY DEF DInv, AllCopies, LeftStore

\* A step that leaves what the numbers speak of alone.
LEMMA SameNumbers ==
  ASSUME DInv, UNCHANGED <<kind, conv, seqLen, taken, total, maxLen>>
  PROVE  Held' = Held /\ Mine' = Mine /\ NBlocks' = NBlocks /\ Sized'
  BY DEF DInv, Held, Mine, NBlocks, Sized

LEMMA BuildKeeps == ASSUME DInv, Build PROVE DInv'
<1>1. /\ UNCHANGED <<kind, conv, seqLen, taken, total, maxLen, queue>>
      /\ \A l \in Layers : /\ bufs'[l] = Restored(l, DOMAIN evicted[l])
                           /\ store'[l] = LeftStore(l, DOMAIN evicted[l])
                           /\ evicted'[l] = EmptyBag
  BY DEF Build, loopVars, BagToSet
<1>2. ASSUME NEW l \in Layers
      PROVE  /\ Buffer(bufs'[l], maxLen, Held, Mine) /\ Ranged(evicted'[l], total)
             /\ DOMAIN store'[l] \subseteq DOMAIN evicted'[l] /\ AllCopies(store'[l], Mine)
  <2>1. Buffer(bufs'[l], maxLen, Held, Mine)
    BY <1>1, RestoredIs
  <2>2. DOMAIN store'[l] = DOMAIN store[l] \ DOMAIN evicted[l] /\ AllCopies(store'[l], Mine)
    BY <1>1, LeftStoreIs
  <2>3. DOMAIN evicted'[l] = {}
    BY <1>1, EmptyBagIs
  <2>4. QED
    BY <2>1, <2>2, <2>3 DEF DInv, Ranged
<1>3. QED
  BY <1>1, <1>2, SameNumbers DEF DInv

LEMMA BuildFailsKeeps == ASSUME DInv, BuildFails PROVE DInv'
<1>1. UNCHANGED <<kind, conv, seqLen, taken, total, maxLen, queue>>
  BY DEF BuildFails, loopVars
<1>2. PICK k \in Layers : \E R \in SUBSET DOMAIN evicted[k] :
        \A l \in Layers :
          LET D == IF l < k THEN DOMAIN evicted[l] ELSE IF l = k THEN R ELSE {}
          IN /\ bufs'[l] = Restored(l, D)
             /\ store'[l] = LeftStore(l, D)
             /\ evicted'[l] = IF l < k THEN EmptyBag ELSE evicted[l]
  BY DEF BuildFails, BagToSet
<1> PICK R \in SUBSET DOMAIN evicted[k] :
        \A l \in Layers :
          LET D == IF l < k THEN DOMAIN evicted[l] ELSE IF l = k THEN R ELSE {}
          IN /\ bufs'[l] = Restored(l, D)
             /\ store'[l] = LeftStore(l, D)
             /\ evicted'[l] = IF l < k THEN EmptyBag ELSE evicted[l]
  BY <1>2
<1>3. ASSUME NEW l \in Layers
      PROVE  /\ Buffer(bufs'[l], maxLen, Held, Mine) /\ Ranged(evicted'[l], total)
             /\ DOMAIN store'[l] \subseteq DOMAIN evicted'[l] /\ AllCopies(store'[l], Mine)
  <2> DEFINE D == IF l < k THEN DOMAIN evicted[l] ELSE IF l = k THEN R ELSE {}
  <2>1. /\ bufs'[l] = Restored(l, D) /\ store'[l] = LeftStore(l, D)
        /\ evicted'[l] = IF l < k THEN EmptyBag ELSE evicted[l]
    BY <1>2
  <2>2. l < k => D = DOMAIN evicted[l]
    OBVIOUS
  <2> HIDE DEF D
  <2>3. Buffer(bufs'[l], maxLen, Held, Mine)
    BY <2>1, RestoredIs
  <2>4. DOMAIN store'[l] = DOMAIN store[l] \ D /\ AllCopies(store'[l], Mine)
    <3>1. /\ DOMAIN LeftStore(l, D) = DOMAIN store[l] \ D
          /\ AllCopies(LeftStore(l, D), Mine)
      BY LeftStoreIs
    <3>2. QED
      BY <2>1, <3>1
  <2>5. DOMAIN store[l] \subseteq DOMAIN evicted[l] /\ Ranged(evicted[l], total)
    BY DEF DInv
  <2>6. CASE l < k
    BY <2>1, <2>2, <2>3, <2>4, <2>5, <2>6, EmptyBagIs DEF Ranged
  <2>7. CASE ~ (l < k)
    BY <2>1, <2>3, <2>4, <2>5, <2>7
  <2>8. QED
    BY <2>6, <2>7
<1>4. QED
  BY <1>1, <1>3, SameNumbers DEF DInv

-----------------------------------------------------------------------------
(* Evicting keeps DInv.                                                    *)

LEMMA BagUnionIs ==
  ASSUME NEW B, NEW C
  PROVE  /\ DOMAIN (B (+) C) = DOMAIN B \cup DOMAIN C
         /\ \A r \in DOMAIN B \ DOMAIN C : (B (+) C)[r] = B[r] + 0
         /\ \A r \in DOMAIN C \ DOMAIN B : (B (+) C)[r] = 0 + C[r]
         /\ \A r \in DOMAIN B \cap DOMAIN C : (B (+) C)[r] = B[r] + C[r]
  BY DEF (+)

LEMMA UnionRanged ==
  ASSUME NEW B, NEW C, NEW n, Ranged(B, n), Ranged(C, n) PROVE Ranged(B (+) C, n)
<1>1. ASSUME NEW r \in DOMAIN (B (+) C)
      PROVE r \in Ranges /\ r[2] <= n /\ (B (+) C)[r] \in Nat
  <2> DEFINE U == B (+) C
  <2>1. /\ r \in DOMAIN B \/ r \in DOMAIN C
        /\ r \in DOMAIN B => r \in Ranges /\ r[2] <= n /\ B[r] \in Nat
        /\ r \in DOMAIN C => r \in Ranges /\ r[2] <= n /\ C[r] \in Nat
    BY BagUnionIs DEF Ranged
  <2>2. /\ r \in DOMAIN B \ DOMAIN C => U[r] = B[r] + 0
        /\ r \in DOMAIN C \ DOMAIN B => U[r] = 0 + C[r]
        /\ r \in DOMAIN B \cap DOMAIN C => U[r] = B[r] + C[r]
    BY DEF (+)
  <2> HIDE DEF U
  <2>3. U[r] \in Nat
    BY <2>1, <2>2
  <2>4. QED
    BY <2>1, <2>3 DEF U
<1>2. QED
  BY <1>1 DEF Ranged

\* What _evict_block copies of a buffer.
LEMMA CopiedIs ==
  ASSUME DInv, taken, NEW l \in Layers, NEW B, Ranged(B, total)
  PROVE  /\ DOMAIN Copied(l, B) = DOMAIN store[l] \cup DOMAIN B
         /\ AllCopies(Copied(l, B), Mine)
<1>1. DOMAIN Copied(l, B) = DOMAIN store[l] \cup DOMAIN B
  BY DEF Copied, BagToSet
<1>2. /\ bufs[l] \in Seq(Cells) /\ Len(bufs[l]) \in maxLen .. MaxCap /\ Len(bufs[l]) \in Nat
      /\ bufs[l] \in [1 .. Len(bufs[l]) -> Cells] /\ \A p \in 1 .. Held : bufs[l][p] = Mine
      /\ total \in Nat /\ maxLen \in Nat /\ total <= maxLen
  BY LenProperties, Sizes DEF DInv, Buffer, Sized, MaxCap
<1>3. ASSUME NEW r \in DOMAIN B PROVE Copy(Copied(l, B)[r], r, Mine)
  <2>1. r[1] \in Nat /\ r[2] \in Nat /\ r[1] < r[2] /\ r[2] <= total
    BY Sizes DEF Ranged, Ranges
  <2> DEFINE x == SubSeq(bufs[l], r[1] + 1, r[2])
  <2>2. Copied(l, B)[r] = x
    BY DEF Copied, BagToSet
  <2>3. r[1] + 1 \in Int /\ r[2] \in Int /\ \A i \in r[1] + 1 .. r[2] : bufs[l][i] \in Cells
    <3> DEFINE a == r[1]  z == r[2]  n == Len(bufs[l])
    <3>1. a \in Nat /\ z \in Nat /\ z <= total /\ total <= maxLen /\ n \in Nat /\ maxLen <= n
          /\ total \in Nat /\ maxLen \in Nat
      BY <1>2, <2>1
    <3>2. bufs[l] \in [1 .. n -> Cells]
      BY <1>2
    <3> HIDE DEF a, z, n
    <3>3. a + 1 \in Int /\ z \in Int /\ \A i \in a + 1 .. z : i \in 1 .. n
      BY <3>1
    <3>4. QED
      BY <3>2, <3>3 DEF a, z
  <2>4. /\ x \in Seq(Cells) /\ Len(x) = r[2] - r[1]
        /\ \A i \in 1 .. r[2] - r[1] : x[i] = bufs[l][r[1] + i]
    BY <2>1, <2>3, SubSeqProperties
  <2>5. x \in [1 .. r[2] - r[1] -> Cells]
    BY <2>4, LenProperties
  <2>6. ASSUME ~ DirtyRestart, NEW p \in 1 .. r[2] - r[1] PROVE x[p] = Mine
    <3>0. Held = total
      BY <2>6 DEF Held
    <3>1. r[1] + p \in 1 .. Held
      <4> DEFINE a == r[1]  z == r[2]
      <4>1. a \in Nat /\ z \in Nat /\ z <= total /\ p \in 1 .. z - a /\ total \in Nat
        BY <1>2, <2>1
      <4> HIDE DEF a, z
      <4>2. a + p \in 1 .. total
        BY <4>1
      <4>3. QED
        BY <3>0, <4>2 DEF a
    <3>2. QED
      BY <1>2, <2>4, <3>1
  <2>7. QED
    BY <2>2, <2>5, <2>6 DEF Copy
<1>4. ASSUME NEW r \in DOMAIN store[l], r \notin DOMAIN B PROVE Copy(Copied(l, B)[r], r, Mine)
  <2>1. Copied(l, B)[r] = store[l][r]
    BY <1>4 DEF Copied, BagToSet
  <2>2. QED
    BY <2>1 DEF DInv, AllCopies
<1>5. QED
  BY <1>1, <1>3, <1>4 DEF AllCopies

LEMMA EvictKeeps ==
  ASSUME DInv, taken, NEW B, NEW R, NEW upto, Ranged(B, total), Ranged(R, total),
         Evict(B, upto, R), UNCHANGED <<kind, conv, seqLen, taken, total, maxLen, bufs>>,
         queue' \in Seq(0 .. NBlocks - 1)
  PROVE  DInv'
<1> DEFINE Of(l) == IF l <= upto THEN B (+) R ELSE B
<1>1. ASSUME NEW l \in Layers PROVE Ranged(Of(l), total)
  BY UnionRanged
<1>2. \A l \in Layers : store'[l] = Copied(l, Of(l)) /\ evicted'[l] = evicted[l] (+) Of(l)
  BY DEF Evict
<1> HIDE DEF Of
<1>3. ASSUME NEW l \in Layers
      PROVE  /\ Buffer(bufs'[l], maxLen, Held, Mine) /\ Ranged(evicted'[l], total)
             /\ DOMAIN store'[l] \subseteq DOMAIN evicted'[l] /\ AllCopies(store'[l], Mine)
  <2>1. Ranged(evicted[l], total) /\ DOMAIN store[l] \subseteq DOMAIN evicted[l]
    BY DEF DInv
  <2>2. Ranged(evicted'[l], total)
    BY <1>1, <1>2, <2>1, UnionRanged
  <2>3. DOMAIN evicted'[l] = DOMAIN evicted[l] \cup DOMAIN Of(l)
    BY <1>2, BagUnionIs
  <2>4. DOMAIN store'[l] = DOMAIN store[l] \cup DOMAIN Of(l) /\ AllCopies(store'[l], Mine)
    BY <1>1, <1>2, CopiedIs
  <2>5. Buffer(bufs'[l], maxLen, Held, Mine)
    BY DEF DInv
  <2>6. QED
    BY <2>1, <2>2, <2>3, <2>4, <2>5
<1>4. QED
  BY <1>3, SameNumbers DEF DInv

LEMMA BagOfIs ==
  ASSUME DInv, NEW V \in SUBSET (0 .. NBlocks - 1)
  PROVE  /\ DOMAIN BagOf(V) = {RangeOf(bid) : bid \in V}
         /\ \A r \in DOMAIN BagOf(V) : BagOf(V)[r] = 1
         /\ Ranged(BagOf(V), total)
<1>1. /\ DOMAIN BagOf(V) = {RangeOf(bid) : bid \in V}
      /\ \A r \in DOMAIN BagOf(V) : BagOf(V)[r] = 1
  BY DEF BagOf, SetToBag
<1>2. \A bid \in V : RangeOf(bid) \in Ranges /\ RangeOf(bid)[2] <= total
  BY RangeIs DEF DInv
<1>3. QED
  BY <1>1, <1>2 DEF Ranged

LEMMA NoBag == Ranged(EmptyBag, total)
  BY EmptyBagIs DEF Ranged

LEMMA EvictColdKeeps == ASSUME DInv, EvictCold PROVE DInv'
<1>1. /\ UNCHANGED <<kind, conv, seqLen, taken, total, maxLen, bufs, queue>> /\ taken
      /\ queue' \in Seq(0 .. NBlocks - 1)
  BY DEF EvictCold, Pressed, loopVars, DInv
<1>2. PICK V \in Going : Evict(BagOf(V), 0, EmptyBag)
  BY DEF EvictCold
<1>3. V \in SUBSET (0 .. NBlocks - 1)
  BY DEF Going, Candidates
<1>4. QED
  BY <1>1, <1>2, <1>3, BagOfIs, NoBag, EvictKeeps

LEMMA EvictColdFailsKeeps == ASSUME DInv, EvictColdFails PROVE DInv'
<1>1. /\ UNCHANGED <<kind, conv, seqLen, taken, total, maxLen, bufs, queue>> /\ taken
      /\ queue' \in Seq(0 .. NBlocks - 1)
  BY DEF EvictColdFails, Pressed, loopVars, DInv
<1>2. PICK V \in Going, l \in 0 .. NLayers - 1, b \in Candidates :
        Evict(BagOf(V), l, BagOf({b}))
  BY DEF EvictColdFails
<1>3. V \in SUBSET (0 .. NBlocks - 1) /\ {b} \in SUBSET (0 .. NBlocks - 1)
  BY DEF Going, Candidates
<1>4. Ranged(BagOf(V), total) /\ Ranged(BagOf({b}), total)
  BY <1>3, BagOfIs
<1>5. QED
  BY <1>1, <1>2, <1>4, EvictKeeps

LEMMA FifoBagIs ==
  ASSUME DInv, NEW I \in SUBSET (1 .. Len(queue))
  PROVE  /\ DOMAIN FifoBag(I) = {RangeOf(queue[i]) : i \in I}
         /\ Ranged(FifoBag(I), total)
<1>1. /\ DOMAIN FifoBag(I) = {RangeOf(queue[i]) : i \in I}
      /\ \A r \in DOMAIN FifoBag(I) :
           FifoBag(I)[r] = Cardinality({i \in I : RangeOf(queue[i]) = r})
  BY DEF FifoBag
<1>2. Len(queue) \in Nat /\ \A i \in I : queue[i] \in 0 .. NBlocks - 1
  BY LenProperties, ElementOfSeq DEF DInv
<1>3. \A i \in I : RangeOf(queue[i]) \in Ranges /\ RangeOf(queue[i])[2] <= total
  BY <1>2, RangeIs DEF DInv
<1>4. ASSUME NEW r PROVE Cardinality({i \in I : RangeOf(queue[i]) = r}) \in Nat
  <2>1. IsFiniteSet(1 .. Len(queue))
    <3>1. 1 \in Int /\ Len(queue) \in Int
      BY <1>2
    <3>2. QED
      BY <3>1, FS_Interval
  <2> DEFINE J == {i \in I : RangeOf(queue[i]) = r}
  <2>2. J \in SUBSET (1 .. Len(queue))
    OBVIOUS
  <2> HIDE DEF J
  <2>3. IsFiniteSet(J)
    BY <2>1, <2>2, FS_Subset
  <2>4. Cardinality(J) \in Nat
    BY <2>3, FS_CardinalityType
  <2>5. QED
    BY <2>4 DEF J
<1> DEFINE F == FifoBag(I)
<1>5. /\ DOMAIN F = {RangeOf(queue[i]) : i \in I}
      /\ \A r \in DOMAIN F : F[r] = Cardinality({i \in I : RangeOf(queue[i]) = r})
  BY <1>1
<1> HIDE DEF F
<1>6. ASSUME NEW r \in DOMAIN F PROVE r \in Ranges /\ r[2] <= total /\ F[r] \in Nat
  <2>1. PICK i \in I : r = RangeOf(queue[i])
    BY <1>5
  <2>2. r \in Ranges /\ r[2] <= total
    BY <1>3, <2>1
  <2>3. F[r] = Cardinality({j \in I : RangeOf(queue[j]) = r})
    BY <1>5
  <2>4. F[r] \in Nat
    BY <1>4, <2>3
  <2>5. QED
    BY <2>2, <2>4
<1>7. Ranged(F, total)
  BY <1>6 DEF Ranged
<1>8. QED
  BY <1>1, <1>7 DEF F

LEMMA QueueLeft ==
  ASSUME DInv, NEW j \in 0 .. Len(queue)
  PROVE  /\ SubSeq(queue, j + 1, Len(queue)) \in Seq(0 .. NBlocks - 1)
         /\ Len(SubSeq(queue, j + 1, Len(queue))) = Len(queue) - j
         /\ \A i \in 1 .. Len(queue) - j : SubSeq(queue, j + 1, Len(queue))[i] = queue[j + i]
<1>1. Len(queue) \in Nat /\ \A i \in j + 1 .. Len(queue) : queue[i] \in 0 .. NBlocks - 1
  <2>1. Len(queue) \in Nat /\ \A i \in 1 .. Len(queue) : queue[i] \in 0 .. NBlocks - 1
    BY LenProperties, ElementOfSeq DEF DInv
  <2>2. \A i \in j + 1 .. Len(queue) : i \in 1 .. Len(queue)
    BY <2>1
  <2>3. QED
    BY <2>1, <2>2
<1>2. j + 1 \in Int /\ Len(queue) \in Int /\ j \in Nat
  BY <1>1
<1>3. QED
  BY <1>1, <1>2, SubSeqProperties

LEMMA EvictFifoKeeps == ASSUME DInv, EvictFifo PROVE DInv'
<1>1. UNCHANGED <<kind, conv, seqLen, taken, total, maxLen, bufs>> /\ taken
  BY DEF EvictFifo, Pressed, loopVars
<1>2. PICK j \in 0 .. Len(queue) :
        /\ Evict(FifoBag(PoppedOf(j)), 0, EmptyBag)
        /\ queue' = SubSeq(queue, j + 1, Len(queue))
  BY DEF EvictFifo
<1>3. PoppedOf(j) \in SUBSET (1 .. Len(queue))
  BY LenProperties DEF PoppedOf, DInv
<1>4. QED
  BY <1>1, <1>2, <1>3, FifoBagIs, NoBag, EvictKeeps, QueueLeft

LEMMA EvictFifoFailsKeeps == ASSUME DInv, EvictFifoFails PROVE DInv'
<1>1. UNCHANGED <<kind, conv, seqLen, taken, total, maxLen, bufs>> /\ taken
  BY DEF EvictFifoFails, Pressed, loopVars
<1>2. PICK l \in 0 .. NLayers - 1, j \in 1 .. Len(queue) :
        /\ Evict(FifoBag(PoppedOf(j - 1)), l, FifoBag({j}))
        /\ queue' = SubSeq(queue, j + 1, Len(queue))
  BY DEF EvictFifoFails
<1>3. PoppedOf(j - 1) \in SUBSET (1 .. Len(queue)) /\ {j} \in SUBSET (1 .. Len(queue))
      /\ j \in 0 .. Len(queue)
  BY LenProperties DEF PoppedOf, DInv
<1>4. Ranged(FifoBag(PoppedOf(j - 1)), total) /\ Ranged(FifoBag({j}), total)
  BY <1>3, FifoBagIs
<1>5. QED
  BY <1>1, <1>2, <1>3, <1>4, EvictKeeps, QueueLeft

-----------------------------------------------------------------------------
(* The loop, and DInv throughout.                                          *)

LEMMA ForwardKeeps == ASSUME DInv, Forward PROVE DInv'
<1>1. UNCHANGED <<kind, conv, taken, total, maxLen, bufs, evicted, store, queue>>
  BY DEF Forward, dramVars
<1>2. Sized' /\ seqLen' > seqLen
  BY <1>1, Sizes DEF DInv, Sized, Forward
<1>3. Held' = Held /\ Mine' = Mine /\ NBlocks' = NBlocks
  BY <1>1 DEF Held, Mine, NBlocks
<1>4. QED
  BY <1>1, <1>2, <1>3 DEF DInv

LEMMA RestartKeeps == ASSUME DInv, Restart PROVE DInv'
<1>1. /\ UNCHANGED <<kind, total, maxLen, bufs, evicted, store, queue>>
      /\ conv' = conv + 1 /\ taken' = FALSE
      /\ DirtyRestart \/ \A l \in Layers : evicted[l] = EmptyBag
  BY DEF Restart, dramVars
<1>2. Sized'
  <2>1. taken' \in BOOLEAN /\ (taken' => total' > 0)
    BY <1>1
  <2>2. conv \in Nat /\ conv' \in Nat /\ conv' + 1 <= MaxConv
    BY <1>1, Sizes DEF DInv, Sized, Restart
  <2>3. /\ kind \in Kinds /\ maxLen \in 1 .. MaxCap /\ total <= maxLen
        /\ seqLen \in 0 .. MaxTokens /\ total \in 0 .. seqLen
    BY DEF DInv, Sized
  <2>4. seqLen' \in 0 .. MaxTokens /\ total \in 0 .. seqLen'
    BY <2>3, Sizes DEF Restart
  <2>5. QED
    BY <1>1, <2>1, <2>2, <2>3, <2>4 DEF Sized
<1>3. Held' = 0 /\ NBlocks' = NBlocks
  BY <1>1 DEF Held, NBlocks
<1>4. ASSUME NEW l \in Layers PROVE Buffer(bufs'[l], maxLen', Held', Mine')
  BY <1>1, <1>3 DEF DInv, Buffer
<1>5. ASSUME NEW l \in Layers PROVE AllCopies(store'[l], Mine')
  <2>1. CASE DirtyRestart
    BY <1>1, <2>1 DEF DInv, AllCopies, Copy
  <2>2. CASE evicted[l] = EmptyBag
    BY <1>1, <2>2, EmptyBagIs DEF DInv, AllCopies
  <2>3. QED
    BY <1>1, <2>1, <2>2
<1>6. QED
  BY <1>1, <1>2, <1>3, <1>4, <1>5 DEF DInv

LEMMA InitKeeps == Init => DInv
<1> SUFFICES ASSUME Init PROVE DInv
  OBVIOUS
<1>0. MaxCap \in Nat /\ MaxTokens <= MaxCap
  BY Sizes DEF MaxCap
<1>1. Sized
  <2>1. taken = FALSE
    BY DEF Init
  <2>2. taken \in BOOLEAN /\ (taken => total > 0)
    BY <2>1
  <2>3. kind \in Kinds /\ conv = 0 /\ seqLen = 0 /\ total = 0 /\ maxLen = FirstLen
    BY DEF Init
  <2>4. QED
    BY <1>0, <2>2, <2>3, Sizes DEF Sized
<1>2. Held = 0 /\ FirstLen \in maxLen .. MaxCap /\ FirstLen \in Nat
  BY <1>0, Sizes DEF Init, Held
<1>3. ASSUME NEW l \in Layers
      PROVE  /\ Buffer(bufs[l], maxLen, Held, Mine) /\ Ranged(evicted[l], total)
             /\ DOMAIN store[l] \subseteq DOMAIN evicted[l] /\ AllCopies(store[l], Mine)
  <2>1. bufs[l] = [p \in 1 .. FirstLen |-> 0] /\ evicted[l] = EmptyBag /\ store[l] = << >>
    BY DEF Init
  <2>2. bufs[l] \in [1 .. FirstLen -> Cells]
    BY <2>1, Sizes DEF Cells
  <2>3. bufs[l] \in Seq(Cells) /\ Len(bufs[l]) = FirstLen
    BY <1>2, <2>2, FunSeq
  <2>4. Buffer(bufs[l], maxLen, Held, Mine)
    BY <1>2, <2>3 DEF Buffer
  <2>5. DOMAIN store[l] = {}
    BY <2>1
  <2>6. QED
    BY <2>1, <2>4, <2>5, EmptyBagIs DEF Ranged, AllCopies
<1>4. queue \in Seq(0 .. NBlocks - 1)
  BY EmptySeq DEF Init
<1>5. QED
  BY <1>1, <1>3, <1>4 DEF DInv

LEMMA NextKeeps == DInv /\ [Next]_vars => DInv'
<1> SUFFICES ASSUME DInv, [Next]_vars PROVE DInv'
  OBVIOUS
<1>1. CASE UNCHANGED vars
  BY <1>1 DEF vars, DInv, Sized, Held, Mine, NBlocks
<1>2. CASE Next
  BY <1>2, ForwardKeeps, RestartKeeps, IngestKeeps, AppendTokenKeeps, GrowFailsKeeps,
     BuildKeeps, BuildFailsKeeps, EvictColdKeeps, EvictColdFailsKeeps, EvictFifoKeeps,
     EvictFifoFailsKeeps DEF Next
<1>3. QED
  BY <1>1, <1>2

LEMMA SpecKeeps == Spec => []DInv
  BY InitKeeps, NextKeeps, PTL DEF Spec

\* TypeOK: whichever allocations fail, the buffers have the room max_seq_len
\* claims, a copy in DRAM has the size of its range, and the queue names blocks
\* there are.
THEOREM TypeCorrect == Spec => []TypeOK
<1>1. ASSUME DInv PROVE TypeOK
  <2>1. ASSUME NEW l \in Layers
        PROVE  /\ Len(bufs[l]) \in maxLen .. MaxCap
               /\ \A p \in 1 .. Len(bufs[l]) : bufs[l][p] \in Cells
               /\ BagToSet(evicted[l]) \subseteq Ranges
               /\ \A r \in DOMAIN store[l] : store[l][r] \in [1 .. r[2] - r[1] -> Cells]
    BY <1>1, ElementOfSeq DEF DInv, Buffer, Ranged, AllCopies, Copy, BagToSet
  <2>2. \A i \in 1 .. Len(queue) : queue[i] \in 0 .. NBlocks - 1
    BY <1>1, ElementOfSeq DEF DInv
  <2>3. QED
    BY <1>1, <2>1, <2>2, Sizes DEF DInv, Sized, TypeOK
<1>2. QED
  BY <1>1, SpecKeeps, PTL

-----------------------------------------------------------------------------
(* The accounts.                                                           *)

\* A list of evicted ranges as it should be, and what may be added to any.
Lists(B) == /\ \A r \in DOMAIN B : B[r] = 1 /\ ~ Sink(BlockOf(r))
            /\ \A r, q \in DOMAIN B : BlockOf(r) = BlockOf(q) => r = q
Unlisted(B) == Lists(B) /\ \A r \in DOMAIN B : BlockOf(r) \notin EvictedBids
Apart(B, C) == \A r \in DOMAIN B, q \in DOMAIN C : BlockOf(r) # BlockOf(q)

\* The queue names every block once.
QueueOnce == /\ \A i, j \in 1 .. Len(queue) : i < j => queue[i] < queue[j]
             /\ kind = "fifo" /\ ~ taken => queue = << >>

AInv == DInv /\ QueueOnce /\ \A l \in Layers : Lists(evicted[l])

LEMMA QueueInt ==
  ASSUME DInv
  PROVE  /\ NBlocks \in Nat /\ queue \in Seq(Int) /\ Len(queue) \in Nat
         /\ \A i \in 1 .. Len(queue) : queue[i] \in Int /\ queue[i] < NBlocks
<1>1. NBlocks \in Nat
  <2>1. total \in Nat
    BY Sizes DEF DInv, Sized
  <2>2. QED
    BY <2>1, CeilIs, Sizes DEF NBlocks
<1> DEFINE n == NBlocks
<1>2. queue \in Seq(0 .. n - 1)
  BY DEF DInv
<1>3. n \in Nat
  BY <1>1
<1> HIDE DEF n
<1>4. (0 .. n - 1) \subseteq Int /\ \A k \in 0 .. n - 1 : k < n
  BY <1>3
<1>5. Len(queue) \in Nat /\ \A i \in 1 .. Len(queue) : queue[i] \in 0 .. n - 1
  BY <1>2, LenProperties, ElementOfSeq
<1>6. \A i \in 1 .. Len(queue) : queue[i] \in Int /\ queue[i] < n
  BY <1>4, <1>5
<1>7. queue \in Seq(Int)
  BY <1>2, <1>4, SeqMonotonic
<1>8. QED
  BY <1>1, <1>5, <1>6, <1>7 DEF n

LEMMA UnionLists ==
  ASSUME NEW B, NEW C, Lists(B), Lists(C), Apart(B, C) PROVE Lists(B (+) C)
<1> DEFINE U == B (+) C
<1>1. DOMAIN U = DOMAIN B \cup DOMAIN C
  BY DEF (+)
<1>2. DOMAIN B \cap DOMAIN C = {}
  BY DEF Apart
<1>3. ASSUME NEW r \in DOMAIN U PROVE U[r] = 1 /\ ~ Sink(BlockOf(r))
  <2>1. CASE r \in DOMAIN B
    <3>1. B[r] = 1 /\ ~ Sink(BlockOf(r)) /\ r \notin DOMAIN C
      BY <1>2, <2>1 DEF Lists
    <3>2. U[r] = B[r] + 0
      BY <2>1, <3>1 DEF (+)
    <3>3. QED
      BY <3>1, <3>2
  <2>2. CASE r \in DOMAIN C
    <3>1. C[r] = 1 /\ ~ Sink(BlockOf(r)) /\ r \notin DOMAIN B
      BY <1>2, <2>2 DEF Lists
    <3>2. U[r] = 0 + C[r]
      BY <2>2, <3>1 DEF (+)
    <3>3. QED
      BY <3>1, <3>2
  <2>3. QED
    BY <1>1, <2>1, <2>2
<1> HIDE DEF U
<1>4. ASSUME NEW r \in DOMAIN U, NEW q \in DOMAIN U, BlockOf(r) = BlockOf(q) PROVE r = q
  BY <1>1, <1>4 DEF Lists, Apart
<1>5. Lists(U)
  BY <1>3, <1>4 DEF Lists
<1>6. QED
  BY <1>5 DEF U

LEMMA EmptyLists == Unlisted(EmptyBag) /\ Lists(EmptyBag) /\ \A B : Apart(B, EmptyBag)
  BY EmptyBagIs DEF Unlisted, Lists, Apart

LEMMA ListedApart ==
  ASSUME NEW B, Unlisted(B), NEW l \in Layers PROVE Apart(evicted[l], B)
<1>1. \A r \in DOMAIN evicted[l] : BlockOf(r) \in EvictedBids
  BY DEF EvictedBids, BagToSet
<1>2. QED
  BY <1>1 DEF Apart, Unlisted

LEMMA EvictLists ==
  ASSUME AInv, NEW B, NEW R, NEW upto, Unlisted(B), Unlisted(R), Apart(B, R), Evict(B, upto, R)
  PROVE  \A l \in Layers : Lists(evicted'[l])
<1> SUFFICES ASSUME NEW l \in Layers PROVE Lists(evicted'[l])
  OBVIOUS
<1>1. Lists(evicted[l]) /\ Apart(evicted[l], B) /\ Apart(evicted[l], R)
  BY ListedApart DEF AInv
<1>2. CASE l <= upto
  <2>1. evicted'[l] = evicted[l] (+) (B (+) R)
    BY <1>2 DEF Evict
  <2>2. Lists(B (+) R)
    BY UnionLists DEF Unlisted
  <2>3. Apart(evicted[l], B (+) R)
    <3>1. DOMAIN (B (+) R) = DOMAIN B \cup DOMAIN R
      BY DEF (+)
    <3>2. QED
      BY <1>1, <3>1 DEF Apart
  <2>4. Lists(evicted[l] (+) (B (+) R))
    BY <1>1, <2>2, <2>3, UnionLists
  <2>5. QED
    BY <2>1, <2>4
<1>3. CASE ~ (l <= upto)
  <2>1. evicted'[l] = evicted[l] (+) B
    BY <1>3 DEF Evict
  <2>2. Lists(evicted[l] (+) B)
    BY <1>1, UnionLists DEF Unlisted
  <2>3. QED
    BY <2>1, <2>2
<1>4. QED
  BY <1>2, <1>3

LEMMA BagOfUnlisted ==
  ASSUME DInv, NEW V \in SUBSET Candidates
  PROVE  /\ Unlisted(BagOf(V))
         /\ \A r \in DOMAIN BagOf(V) : BlockOf(r) \in V /\ r = RangeOf(BlockOf(r))
<1>1. V \in SUBSET (0 .. NBlocks - 1)
  BY DEF Candidates
<1>2. /\ DOMAIN BagOf(V) = {RangeOf(bid) : bid \in V}
      /\ \A r \in DOMAIN BagOf(V) : BagOf(V)[r] = 1
  BY <1>1, BagOfIs
<1>3. \A bid \in V : BlockOf(RangeOf(bid)) = bid
  BY <1>1, RangeIs DEF DInv
<1>4. \A r \in DOMAIN BagOf(V) : BlockOf(r) \in V /\ r = RangeOf(BlockOf(r))
  BY <1>2, <1>3
<1>5. \A bid \in V : ~ Sink(bid) /\ bid \notin EvictedBids
  BY DEF Candidates
<1>6. QED
  BY <1>2, <1>4, <1>5 DEF Unlisted, Lists

LEMMA EvictColdLists == ASSUME AInv, EvictCold PROVE AInv'
<1>1. PICK V \in Going : Evict(BagOf(V), 0, EmptyBag)
  BY DEF EvictCold
<1>2. V \in SUBSET Candidates
  BY DEF Going
<1>3. \A l \in Layers : Lists(evicted'[l])
  BY <1>1, <1>2, BagOfUnlisted, EmptyLists, EvictLists DEF AInv
<1>4. DInv' /\ QueueOnce'
  BY EvictColdKeeps DEF AInv, EvictCold, QueueOnce, loopVars
<1>5. QED
  BY <1>3, <1>4 DEF AInv

LEMMA EvictColdFailsLists == ASSUME AInv, EvictColdFails PROVE AInv'
<1>1. PICK V \in Going, l \in 0 .. NLayers - 1 : \E b \in Candidates \ V :
        Evict(BagOf(V), l, BagOf({b}))
  BY DEF EvictColdFails
<1> PICK b \in Candidates \ V : Evict(BagOf(V), l, BagOf({b}))
  BY <1>1
<1>2. V \in SUBSET Candidates /\ {b} \in SUBSET Candidates
  BY DEF Going
<1>3. Unlisted(BagOf(V)) /\ Unlisted(BagOf({b})) /\ Apart(BagOf(V), BagOf({b}))
  <2>1. /\ Unlisted(BagOf(V)) /\ Unlisted(BagOf({b}))
        /\ \A r \in DOMAIN BagOf(V) : BlockOf(r) \in V
        /\ \A r \in DOMAIN BagOf({b}) : BlockOf(r) \in {b}
    BY <1>2, BagOfUnlisted DEF AInv
  <2>2. QED
    BY <2>1 DEF Apart
<1>4. \A k \in Layers : Lists(evicted'[k])
  BY <1>3, EvictLists
<1>5. DInv' /\ QueueOnce'
  BY EvictColdFailsKeeps DEF AInv, EvictColdFails, QueueOnce, loopVars
<1>6. QED
  BY <1>4, <1>5 DEF AInv

\* Of entries of the queue that name no listed block and no sink.
LEMMA FifoBagUnlisted ==
  ASSUME AInv, NEW I \in SUBSET (1 .. Len(queue)),
         \A i \in I : queue[i] \notin EvictedBids /\ ~ Sink(queue[i])
  PROVE  /\ Unlisted(FifoBag(I))
         /\ \A r \in DOMAIN FifoBag(I) : \E i \in I : BlockOf(r) = queue[i]
<1>1. /\ DOMAIN FifoBag(I) = {RangeOf(queue[i]) : i \in I}
      /\ \A r \in DOMAIN FifoBag(I) :
           FifoBag(I)[r] = Cardinality({i \in I : RangeOf(queue[i]) = r})
  BY DEF FifoBag
<1>2. Len(queue) \in Nat /\ \A i \in I : queue[i] \in 0 .. NBlocks - 1
  BY LenProperties, ElementOfSeq DEF AInv, DInv
<1>3. \A i \in I : BlockOf(RangeOf(queue[i])) = queue[i]
  BY <1>2, RangeIs DEF AInv, DInv
<1>4. ASSUME NEW i \in I, NEW j \in I, queue[i] = queue[j] PROVE i = j
  <2>1. i \in Nat /\ j \in Nat /\ (i < j => queue[i] < queue[j]) /\ (j < i => queue[j] < queue[i])
    BY <1>2 DEF AInv, QueueOnce
  <2>2. queue[i] \in Int /\ queue[j] \in Int
    BY QueueInt DEF AInv
  <2>3. QED
    BY <1>4, <2>1, <2>2
<1>5. ASSUME NEW r \in DOMAIN FifoBag(I)
      PROVE  FifoBag(I)[r] = 1 /\ ~ Sink(BlockOf(r)) /\ BlockOf(r) \notin EvictedBids
             /\ \E i \in I : BlockOf(r) = queue[i]
  <2>1. PICK i \in I : r = RangeOf(queue[i])
    BY <1>1
  <2>2. BlockOf(r) = queue[i]
    BY <1>3, <2>1
  <2>3. {k \in I : RangeOf(queue[k]) = r} = {i}
    <3>1. ASSUME NEW k \in I, RangeOf(queue[k]) = r PROVE k = i
      <4>1. BlockOf(RangeOf(queue[k])) = queue[k]
        BY <1>3
      <4>2. queue[k] = queue[i]
        BY <1>3, <2>1, <2>2, <3>1, <4>1
      <4>3. QED
        BY <1>4, <4>2
    <3>2. QED
      BY <2>1, <3>1
  <2>4. FifoBag(I)[r] = 1
    BY <1>1, <2>3, FS_Singleton
  <2>5. QED
    BY <2>2, <2>4
<1>6. ASSUME NEW r \in DOMAIN FifoBag(I), NEW q \in DOMAIN FifoBag(I), BlockOf(r) = BlockOf(q)
      PROVE  r = q
  BY <1>1, <1>3, <1>6
<1>7. QED
  BY <1>5, <1>6 DEF Unlisted, Lists

LEMMA QueueLeftOnce ==
  ASSUME AInv, taken, NEW j \in 0 .. Len(queue), queue' = SubSeq(queue, j + 1, Len(queue)),
         UNCHANGED <<kind, taken>>
  PROVE  QueueOnce'
<1>1. /\ Len(queue') = Len(queue) - j /\ Len(queue) \in Nat /\ j \in Nat
      /\ \A i \in 1 .. Len(queue) - j : queue'[i] = queue[j + i]
  BY QueueLeft, LenProperties DEF AInv, DInv
<1>2. ASSUME NEW i \in 1 .. Len(queue'), NEW k \in 1 .. Len(queue'), i < k
      PROVE  queue'[i] < queue'[k]
  <2>1. j + i \in 1 .. Len(queue) /\ j + k \in 1 .. Len(queue) /\ j + i < j + k
    BY <1>1, <1>2
  <2>2. queue[j + i] < queue[j + k]
    BY <2>1 DEF AInv, QueueOnce
  <2>3. QED
    BY <1>1, <2>2
<1>3. QED
  BY <1>2 DEF QueueOnce

LEMMA EvictFifoLists == ASSUME AInv, EvictFifo PROVE AInv'
<1>1. PICK j \in 0 .. Len(queue) :
        /\ Evict(FifoBag(PoppedOf(j)), 0, EmptyBag)
        /\ queue' = SubSeq(queue, j + 1, Len(queue))
  BY DEF EvictFifo
<1>2. PoppedOf(j) \in SUBSET (1 .. Len(queue))
  BY LenProperties DEF PoppedOf, AInv, DInv
<1>3. Unlisted(FifoBag(PoppedOf(j)))
  <2>1. \A i \in PoppedOf(j) : queue[i] \notin EvictedBids /\ ~ Sink(queue[i])
    BY DEF PoppedOf
  <2>2. QED
    BY <1>2, <2>1, FifoBagUnlisted
<1>4. \A l \in Layers : Lists(evicted'[l])
  BY <1>1, <1>3, EmptyLists, EvictLists
<1>5. taken /\ UNCHANGED <<kind, taken>>
  BY DEF EvictFifo, Pressed, loopVars
<1>6. QueueOnce'
  BY <1>1, <1>5, QueueLeftOnce
<1>7. DInv'
  BY EvictFifoKeeps DEF AInv
<1>8. QED
  BY <1>4, <1>6, <1>7 DEF AInv

LEMMA EvictFifoFailsLists == ASSUME AInv, EvictFifoFails PROVE AInv'
<1>1. PICK l \in 0 .. NLayers - 1, j \in 1 .. Len(queue) :
        /\ j \in PoppedOf(j)
        /\ Evict(FifoBag(PoppedOf(j - 1)), l, FifoBag({j}))
        /\ queue' = SubSeq(queue, j + 1, Len(queue))
  BY DEF EvictFifoFails
<1>2. Len(queue) \in Nat /\ j \in Nat /\ j \in 0 .. Len(queue)
  BY LenProperties DEF AInv, DInv
<1>3. PoppedOf(j - 1) \in SUBSET (1 .. Len(queue)) /\ {j} \in SUBSET (1 .. Len(queue))
  BY <1>2 DEF PoppedOf
<1>4. /\ Unlisted(FifoBag(PoppedOf(j - 1))) /\ Unlisted(FifoBag({j}))
      /\ \A r \in DOMAIN FifoBag(PoppedOf(j - 1)) : \E i \in PoppedOf(j - 1) : BlockOf(r) = queue[i]
      /\ \A r \in DOMAIN FifoBag({j}) : \E i \in {j} : BlockOf(r) = queue[i]
  <2>1. \A i \in PoppedOf(j - 1) : queue[i] \notin EvictedBids /\ ~ Sink(queue[i])
    BY DEF PoppedOf
  <2>2. \A i \in {j} : queue[i] \notin EvictedBids /\ ~ Sink(queue[i])
    BY <1>1 DEF PoppedOf
  <2>3. QED
    BY <1>3, <2>1, <2>2, FifoBagUnlisted
<1>5. \A i \in PoppedOf(j - 1) : queue[i] # queue[j]
  <2> SUFFICES ASSUME NEW i \in PoppedOf(j - 1) PROVE queue[i] # queue[j]
    OBVIOUS
  <2>1. i \in 1 .. Len(queue) /\ j \in 1 .. Len(queue) /\ i < j
    BY <1>2, <1>3 DEF PoppedOf
  <2>2. queue[i] < queue[j]
    BY <2>1 DEF AInv, QueueOnce
  <2>3. queue[i] \in Int /\ queue[j] \in Int
    BY <2>1, QueueInt DEF AInv
  <2>4. QED
    BY <2>2, <2>3
<1>6. Apart(FifoBag(PoppedOf(j - 1)), FifoBag({j}))
  BY <1>4, <1>5 DEF Apart
<1>7. \A k \in Layers : Lists(evicted'[k])
  BY <1>1, <1>4, <1>6, EvictLists
<1>8. taken /\ UNCHANGED <<kind, taken>>
  BY DEF EvictFifoFails, Pressed, loopVars
<1>9. QueueOnce'
  BY <1>1, <1>2, <1>8, QueueLeftOnce
<1>10. DInv'
  BY EvictFifoFailsKeeps DEF AInv
<1>11. QED
  BY <1>7, <1>9, <1>10 DEF AInv

LEMMA IngestLists == ASSUME AInv, Ingest, "fifo" \notin IngestAny PROVE AInv'
<1>1. DInv' /\ evicted' = evicted
  BY IngestKeeps DEF AInv, Ingest, dramVars
<1>2. QueueOnce'
  <2>1. CASE kind = "fifo"
    <3> DEFINE n == Ceil(seqLen, BlockSize)
               f == [i \in 1 .. n |-> i - 1]
    <3>1. queue = << >>
      BY <2>1 DEF AInv, QueueOnce, Ingest, MayIngest
    <3>2. n \in Nat
      <4>1. seqLen \in Nat
        BY Sizes DEF AInv, DInv, Sized
      <4>2. QED
        BY <4>1, CeilIs, Sizes
    <3> HIDE DEF n
    <3>3. f \in [1 .. n -> Int]
      BY <3>2
    <3>4. f \in Seq(Int) /\ Len(f) = n
      BY <3>2, <3>3, FunSeq
    <3>5. queue' = f
      <4>1. queue' = queue \o f
        BY <2>1 DEF Ingest, n
      <4>2. QED
        BY <3>1, <3>4, <4>1, ConcatEmptySeq
    <3>6. ASSUME NEW i \in 1 .. n, NEW j \in 1 .. n, i < j PROVE f[i] < f[j]
      BY <3>2, <3>6
    <3>7. taken' = TRUE
      BY DEF Ingest
    <3> HIDE DEF f
    <3>8. QED
      BY <3>4, <3>5, <3>6, <3>7 DEF QueueOnce
  <2>2. CASE kind # "fifo"
    BY <2>2 DEF AInv, QueueOnce, Ingest, loopVars
  <2>3. QED
    BY <2>1, <2>2
<1>3. QED
  BY <1>1, <1>2 DEF AInv

LEMMA AppendTokenLists == ASSUME AInv, AppendToken PROVE AInv'
<1>1. DInv' /\ evicted' = evicted /\ UNCHANGED <<kind, taken>> /\ taken
  BY AppendTokenKeeps DEF AInv, AppendToken, MayAppend, dramVars, loopVars
<1>2. QueueOnce'
  <2>1. CASE kind = "fifo" /\ total % BlockSize = 0
    <3> DEFINE b == total \div BlockSize
    <3>1. total \in Nat
      BY Sizes DEF AInv, DInv, Sized
    <3>2. b = NBlocks /\ NBlocks \in Nat
      BY <2>1, <3>1, LastBlock, CeilIs, Sizes DEF NBlocks
    <3>3. queue' = Append(queue, b)
      BY <2>1 DEF AppendToken
    <3> HIDE DEF b
    <3>4. Len(queue) \in Nat /\ \A i \in 1 .. Len(queue) : queue[i] \in Int /\ queue[i] < NBlocks
      BY QueueInt DEF AInv
    <3>5. queue \in Seq(Int)
      BY QueueInt DEF AInv
    <3>6. /\ Len(queue') = Len(queue) + 1 /\ queue'[Len(queue) + 1] = b
          /\ \A i \in 1 .. Len(queue) : queue'[i] = queue[i]
      BY <3>2, <3>3, <3>5
    <3>7. ASSUME NEW i \in 1 .. Len(queue'), NEW j \in 1 .. Len(queue'), i < j
          PROVE  queue'[i] < queue'[j]
      <4>1. i \in 1 .. Len(queue) /\ (j \in 1 .. Len(queue) \/ j = Len(queue) + 1)
        BY <3>4, <3>6, <3>7
      <4>2. CASE j \in 1 .. Len(queue)
        BY <3>6, <3>7, <4>1, <4>2 DEF AInv, QueueOnce
      <4>3. CASE j = Len(queue) + 1
        <5>1. queue'[i] = queue[i] /\ queue'[j] = b /\ queue[i] < NBlocks
          BY <3>4, <3>6, <4>1, <4>3
        <5>2. QED
          BY <3>2, <5>1
      <4>4. QED
        BY <4>1, <4>2, <4>3
    <3>8. QED
      BY <1>1, <3>7 DEF QueueOnce
  <2>2. CASE ~ (kind = "fifo" /\ total % BlockSize = 0)
    BY <1>1, <2>2 DEF AInv, QueueOnce, AppendToken
  <2>3. QED
    BY <2>1, <2>2
<1>3. QED
  BY <1>1, <1>2 DEF AInv

LEMMA BuildLists == ASSUME AInv, Build PROVE AInv'
<1>1. DInv' /\ QueueOnce'
  BY BuildKeeps DEF AInv, Build, QueueOnce, loopVars
<1>2. \A l \in Layers : Lists(evicted'[l])
  BY EmptyLists DEF Build
<1>3. QED
  BY <1>1, <1>2 DEF AInv

LEMMA BuildFailsLists == ASSUME AInv, BuildFails PROVE AInv'
<1>1. DInv' /\ QueueOnce'
  BY BuildFailsKeeps DEF AInv, BuildFails, QueueOnce, loopVars
<1>2. \A l \in Layers : evicted'[l] = EmptyBag \/ evicted'[l] = evicted[l]
  BY DEF BuildFails
<1>3. QED
  BY <1>1, <1>2, EmptyLists DEF AInv

LEMMA NextLists == ASSUME "fifo" \notin IngestAny PROVE AInv /\ [Next]_vars => AInv'
<1> SUFFICES ASSUME AInv, [Next]_vars PROVE AInv'
  OBVIOUS
<1>1. CASE UNCHANGED vars
  <2>1. DInv'
    BY <1>1, NextKeeps DEF AInv
  <2>2. QED
    BY <1>1, <2>1 DEF vars, AInv, QueueOnce
<1>2. CASE Forward
  BY <1>2, ForwardKeeps DEF AInv, Forward, QueueOnce, dramVars
<1>3. CASE Restart
  BY <1>3, RestartKeeps DEF AInv, Restart, QueueOnce, dramVars
<1>4. CASE GrowFails
  BY <1>4, GrowFailsKeeps DEF AInv, GrowFails, QueueOnce, loopVars, dramVars
<1>5. QED
  BY <1>1, <1>2, <1>3, <1>4, IngestLists, AppendTokenLists, BuildLists, BuildFailsLists,
     EvictColdLists, EvictColdFailsLists, EvictFifoLists, EvictFifoFailsLists DEF Next

LEMMA InitLists == Init => AInv
<1> SUFFICES ASSUME Init PROVE AInv
  OBVIOUS
<1>1. DInv
  BY InitKeeps
<1>2. QueueOnce
  BY EmptySeq DEF Init, QueueOnce
<1>3. \A l \in Layers : Lists(evicted[l])
  BY EmptyLists DEF Init
<1>4. QED
  BY <1>1, <1>2, <1>3 DEF AInv

\* Accounts: gpu_kv_bytes subtracts every evicted block once and no sink, in
\* every layer, also when an eviction or a restore broke off between two layers,
\* and no copy stays in DRAM that is not listed.  A FastFIFOManager whose
\* ingest_step is called twice lists blocks twice, hence the hypothesis.
THEOREM AccountsTheorem == ASSUME "fifo" \notin IngestAny PROVE Spec => []Accounts
<1>1. ASSUME AInv PROVE Accounts
  BY <1>1 DEF AInv, DInv, Lists, Accounts, BagToSet
<1>2. QED
  BY <1>1, InitLists, NextLists, PTL DEF Spec

-----------------------------------------------------------------------------
(* What is built.                                                          *)

\* A new prompt finds no block listed as evicted.
KInv == DInv /\ ~ DirtyRestart
Kept == [l \in Layers |-> Built(l)]

LEMMA KeptIs ==
  KInv => /\ Kept = [l \in Layers |-> Log!Upto(Held)]
          /\ Held \in Nat /\ Held <= seqLen /\ seqLen \in Nat
<1> SUFFICES ASSUME KInv
             PROVE  /\ Kept = [l \in Layers |-> Log!Upto(Held)]
                    /\ Held \in Nat /\ Held <= seqLen /\ seqLen \in Nat
  OBVIOUS
<1>1. Held \in Nat /\ Held <= seqLen /\ seqLen \in Nat
  BY Sizes DEF KInv, DInv, Sized, Held
<1>2. ASSUME NEW l \in Layers PROVE Built(l) = Log!Upto(Held)
  <2>1. CASE taken
    <3> DEFINE b == Restored(l, BagToSet(evicted[l]))
    <3>1. \A p \in 1 .. Held : b[p] = Mine
      BY RestoredIs DEF KInv, Buffer
    <3>2. Built(l) = [p \in 1 .. total |-> IF b[p] = Mine THEN p ELSE 0]
      BY <2>1 DEF Built
    <3> HIDE DEF b
    <3>3. Held = total
      BY <2>1 DEF Held, KInv
    <3>4. QED
      BY <3>1, <3>2, <3>3 DEF Log!Upto
  <2>2. CASE ~ taken
    <3>1. Built(l) = << >> /\ Held = 0
      BY <2>2 DEF Built, Held
    <3>2. Log!Upto(0) = << >>
      BY DEF Log!Upto
    <3>3. QED
      BY <3>1, <3>2
  <2>3. QED
    BY <2>1, <2>2
<1>3. QED
  BY <1>1, <1>2 DEF Kept

LEMMA UptoLen == ASSUME NEW n \in Nat PROVE Len(Log!Upto(n)) = n
  BY DEF Log!Upto

LEMMA InitLog == KInv /\ Init => Log!LogInit
<1> SUFFICES ASSUME KInv, Init PROVE Log!LogInit
  OBVIOUS
<1>1. Held = 0
  BY DEF Init, Held
<1>2. Log!Upto(0) = << >>
  BY DEF Log!Upto
<1>3. Kept = [l \in Layers |-> << >>]
  BY <1>1, <1>2, KeptIs
<1>4. QED
  BY <1>3 DEF Init, Kept, Log!LogInit

\* A call of the manager: what is held of the conversation does not get less.
LEMMA CallHolds ==
  ASSUME KInv, Next, ~ Forward, ~ Restart
  PROVE  UNCHANGED <<conv, seqLen>> /\ Held <= Held'
<1>1. CASE Ingest
  BY <1>1, Sizes DEF Ingest, KInv, DInv, Sized, Held, loopVars
<1>2. CASE AppendToken
  BY <1>2, Sizes DEF AppendToken, KInv, DInv, Sized, Held, loopVars
<1>3. CASE UNCHANGED <<conv, seqLen, taken, total>>
  BY <1>3, KeptIs DEF Held
<1>4. CASE GrowFails \/ Build \/ BuildFails
  BY <1>3, <1>4 DEF GrowFails, Build, BuildFails, loopVars
<1>5. CASE EvictCold \/ EvictColdFails \/ EvictFifo \/ EvictFifoFails
  BY <1>3, <1>5 DEF EvictCold, EvictColdFails, EvictFifo, EvictFifoFails, loopVars
<1>6. QED
  BY <1>1, <1>2, <1>4, <1>5 DEF Next

LEMMA StepLog ==
  ASSUME KInv, KInv', [Next]_vars
  PROVE  [Log!LogForward \/ Log!LogAbsorb \/ Log!LogRestart]_(Log!logVars)
<1>1. /\ Kept = [l \in Layers |-> Log!Upto(Held)]
      /\ Held \in Nat /\ Held <= seqLen /\ seqLen \in Nat
  BY KeptIs
<1>2. (/\ Kept = [l \in Layers |-> Log!Upto(Held)]
       /\ Held \in Nat /\ Held <= seqLen /\ seqLen \in Nat)'
  BY KeptIs, PTL
<1>3. CASE UNCHANGED vars
  <2>1. Kept' = Kept
    BY <1>1, <1>2, <1>3 DEF vars, Held
  <2>2. QED
    BY <1>3, <2>1 DEF vars, Log!logVars, Kept
<1>4. CASE Forward
  <2>1. Held = seqLen /\ Held' = Held /\ conv' = conv /\ seqLen' \in Nat /\ seqLen' > seqLen
    BY <1>4, <1>1, Sizes DEF Forward, KInv, DInv, Sized, Held
  <2>2. Kept = [l \in Layers |-> Log!Upto(seqLen)] /\ Kept' = Kept
    BY <1>1, <1>2, <2>1
  <2>3. Log!LogForward
    BY <2>1, <2>2 DEF Kept, Log!LogForward
  <2>4. QED
    BY <2>3
<1>5. CASE Restart
  <2>1. Held' = 0 /\ conv' = conv + 1 /\ seqLen' \in Nat
    BY <1>2, <1>5 DEF Restart, Held
  <2>2. Log!Upto(0) = << >>
    BY DEF Log!Upto
  <2>3. Kept' = [l \in Layers |-> << >>]
    BY <1>2, <2>1, <2>2
  <2>4. Log!LogRestart
    BY <2>1, <2>3 DEF Kept, Log!LogRestart
  <2>5. QED
    BY <2>4
<1>6. CASE Next /\ ~ Forward /\ ~ Restart
  <2>1. UNCHANGED <<conv, seqLen>> /\ Held <= Held'
    BY <1>6, CallHolds
  <2>2. ASSUME NEW l \in Layers
        PROVE  \E n \in Len(Kept[l]) .. seqLen : Kept'[l] = Log!Upto(n)
    <3>1. Kept[l] = Log!Upto(Held) /\ Len(Kept[l]) = Held /\ Kept'[l] = Log!Upto(Held')
      BY <1>1, <1>2, UptoLen
    <3>2. Held' \in Held .. seqLen
      BY <1>1, <1>2, <2>1
    <3>3. QED
      BY <3>1, <3>2
  <2>3. DOMAIN Kept' = Layers
    BY DEF Kept
  <2>4. Log!LogAbsorb
    BY <2>1, <2>2, <2>3, Zenon DEF Kept, Log!LogAbsorb
  <2>5. QED
    BY <2>4
<1>7. QED
  BY <1>3, <1>4, <1>5, <1>6

\* As long as a new prompt comes when nothing is listed as evicted:
\* build_past_kv returns exactly the tokens taken in, whatever was evicted,
\* grown and restored, and whatever broke off half way (KeepsLog).
THEOREM KeepsLogTheorem ==
  ASSUME ~ DirtyRestart PROVE Spec => KeepsLog
<1>1. DInv => KInv
  BY DEF KInv
<1>2. KInv /\ Init => Log!LogInit
  BY InitLog
<1>3. KInv /\ KInv' /\ [Next]_vars
        => [Log!LogForward \/ Log!LogAbsorb \/ Log!LogRestart]_(Log!logVars)
  BY StepLog
<1>4. QED
  BY <1>1, <1>2, <1>3, SpecKeeps, PTL DEF Spec, KeepsLog, Log!LogSpec

-----------------------------------------------------------------------------
(* Making room.                                                            *)

LEMMA ImageFinite ==
  ASSUME NEW f, IsFiniteSet(DOMAIN f)
  PROVE  IsFiniteSet({f[x] : x \in DOMAIN f})
         /\ Cardinality({f[x] : x \in DOMAIN f}) <= Cardinality(DOMAIN f)
<1> DEFINE S == DOMAIN f
           T == {f[x] : x \in DOMAIN f}
<1>1. \A M, X, Y : (M \in [X -> Y] /\ \A t \in Y : \E s \in X : M[s] = t) => M \in Surjection(X, Y)
  BY DEF Surjection
<1>2. [x \in S |-> f[x]] \in [S -> T]
  OBVIOUS
<1>3. \A t \in T : \E s \in S : [x \in S |-> f[x]][s] = t
  OBVIOUS
<1>4. [x \in S |-> f[x]] \in Surjection(S, T)
  BY <1>1, <1>2, <1>3
<1>5. IsFiniteSet(T) /\ Cardinality(T) <= Cardinality(S)
  BY <1>4, FS_Surjection
<1>6. QED
  BY <1>5

LEMMA CopiesFinite == ASSUME NEW B, NEW n, Ranged(B, n) PROVE IsFiniteSet(Copies(B))
<1> DEFINE f == [r \in DOMAIN B |-> {r} \X (1 .. B[r])]
<1>1. IsFiniteSet(DOMAIN f)
  <2>1. 0 \in Int /\ MaxTokens \in Int
    BY Sizes
  <2>2. IsFiniteSet(0 .. MaxTokens)
    BY <2>1, FS_Interval
  <2>3. IsFiniteSet((0 .. MaxTokens) \X (0 .. MaxTokens))
    BY <2>2, FS_Product
  <2>4. DOMAIN f \in SUBSET ((0 .. MaxTokens) \X (0 .. MaxTokens))
    BY DEF Ranged, Ranges
  <2>5. QED
    BY <2>3, <2>4, FS_Subset
<1>2. ASSUME NEW r \in DOMAIN B PROVE IsFiniteSet({r} \X (1 .. B[r]))
  <2>1. 1 \in Int /\ B[r] \in Int
    BY DEF Ranged
  <2>2. IsFiniteSet(1 .. B[r]) /\ IsFiniteSet({r})
    BY <2>1, FS_Interval, FS_Singleton
  <2>3. QED
    BY <2>2, FS_Product
<1>3. IsFiniteSet({f[r] : r \in DOMAIN f})
  BY <1>1, ImageFinite
<1>4. \A T \in {f[r] : r \in DOMAIN f} : IsFiniteSet(T)
  BY <1>2
<1>5. IsFiniteSet(UNION {f[r] : r \in DOMAIN f})
  BY <1>3, <1>4, FS_UNION
<1>6. Copies(B) = UNION {f[r] : r \in DOMAIN f}
  BY DEF Copies, BagToSet
<1>7. QED
  BY <1>5, <1>6

LEMMA LayersFinite == IsFiniteSet(Layers) /\ Cardinality(Layers) = NLayers /\ 1 \in Layers
<1>1. 1 \in Int /\ NLayers \in Int /\ NLayers > 0
  BY Sizes
<1>2. IsFiniteSet(1 .. NLayers) /\ Cardinality(1 .. NLayers) = NLayers
  <2>1. /\ IsFiniteSet(1 .. NLayers)
        /\ Cardinality(1 .. NLayers) = IF 1 > NLayers THEN 0 ELSE NLayers - 1 + 1
    BY <1>1, FS_Interval
  <2>2. QED
    BY <1>1, <2>1
<1>3. QED
  BY <1>1, <1>2 DEF Layers

LEMMA ListedFinite == ASSUME DInv PROVE IsFiniteSet(Listed)
<1> DEFINE f == [l \in Layers |-> {l} \X Copies(evicted[l])]
<1>1. ASSUME NEW l \in Layers PROVE IsFiniteSet({l} \X Copies(evicted[l]))
  <2>1. IsFiniteSet(Copies(evicted[l])) /\ IsFiniteSet({l})
    BY CopiesFinite, FS_Singleton DEF DInv
  <2>2. QED
    BY <2>1, FS_Product
<1>2. IsFiniteSet({f[l] : l \in DOMAIN f})
  BY ImageFinite, LayersFinite
<1>3. \A T \in {f[l] : l \in DOMAIN f} : IsFiniteSet(T)
  BY <1>1
<1>4. IsFiniteSet(UNION {f[l] : l \in DOMAIN f})
  BY <1>2, <1>3, FS_UNION
<1>5. Listed = UNION {f[l] : l \in DOMAIN f}
  BY DEF Listed
<1>6. QED
  BY <1>4, <1>5

LEMMA CopiesUnion ==
  ASSUME NEW B, NEW C, NEW U, U = B (+) C, DOMAIN B \cap DOMAIN C = {},
         \A r \in DOMAIN B : B[r] \in Nat, \A r \in DOMAIN C : C[r] = 1
  PROVE  Copies(U) = Copies(B) \cup ((DOMAIN C) \X {1})
<1>1. DOMAIN U = DOMAIN B \cup DOMAIN C
  BY DEF (+)
<1>2. \A r \in DOMAIN B : U[r] = B[r]
  <2> SUFFICES ASSUME NEW r \in DOMAIN B PROVE U[r] = B[r]
    OBVIOUS
  <2>1. U[r] = B[r] + 0
    BY DEF (+)
  <2>2. QED
    BY <2>1
<1>3. \A r \in DOMAIN C : U[r] = 1
  <2> SUFFICES ASSUME NEW r \in DOMAIN C PROVE U[r] = 1
    OBVIOUS
  <2>1. U[r] = 0 + C[r]
    BY DEF (+)
  <2>2. QED
    BY <2>1
<1>4. \A X : Copies(X) = UNION {{r} \X (1 .. X[r]) : r \in DOMAIN X}
  BY DEF Copies, BagToSet
<1>5. (1 .. 1) = {1}
  OBVIOUS
<1>6. \A x : x \in Copies(U) <=> x \in Copies(B) \cup ((DOMAIN C) \X {1})
  <2> SUFFICES ASSUME NEW x PROVE x \in Copies(U) <=> x \in Copies(B) \cup ((DOMAIN C) \X {1})
    OBVIOUS
  <2>1. x \in Copies(U) <=> \E r \in DOMAIN U : x \in {r} \X (1 .. U[r])
    BY <1>4
  <2>2. x \in Copies(B) <=> \E r \in DOMAIN B : x \in {r} \X (1 .. B[r])
    BY <1>4
  <2>3. x \in (DOMAIN C) \X {1} <=> \E r \in DOMAIN C : x \in {r} \X {1}
    <3>1. ASSUME x \in (DOMAIN C) \X {1} PROVE \E r \in DOMAIN C : x \in {r} \X {1}
      <4>1. PICK r \in DOMAIN C, i \in {1} : x = <<r, i>>
        BY <3>1
      <4>2. <<r, i>> \in {r} \X {1}
        OBVIOUS
      <4>3. QED
        BY <4>1, <4>2
    <3>2. ASSUME NEW r \in DOMAIN C, x \in {r} \X {1} PROVE x \in (DOMAIN C) \X {1}
      <4>1. PICK q \in {r}, i \in {1} : x = <<q, i>>
        BY <3>2
      <4>2. <<q, i>> \in (DOMAIN C) \X {1}
        OBVIOUS
      <4>3. QED
        BY <4>1, <4>2
    <3>3. QED
      BY <3>1, <3>2
  <2>4. \A r \in DOMAIN B : {r} \X (1 .. U[r]) = {r} \X (1 .. B[r])
    BY <1>2
  <2>5. \A r \in DOMAIN C : {r} \X (1 .. U[r]) = {r} \X {1}
    BY <1>3, <1>5
  <2>6. QED
    BY <1>1, <2>1, <2>2, <2>3, <2>4, <2>5
<1>7. QED
  BY <1>6

\* Evicting V gives up the GPU memory of a block of every layer for each.
LEMMA RoomMade ==
  ASSUME DInv, DInv', NEW V \in SUBSET Candidates, Evict(BagOf(V), 0, EmptyBag), total' = total
  PROVE  /\ OnGpu \in Int /\ Cardinality(V) \in Nat
         /\ OnGpu' = OnGpu - Cardinality(V) * NLayers
<1> DEFINE D == {RangeOf(bid) : bid \in V}
           New == Layers \X (D \X {1})
<1>1. V \in SUBSET (0 .. NBlocks - 1) /\ NBlocks \in Nat /\ NBlocks' = NBlocks
  BY QueueInt DEF Candidates, NBlocks
<1>2. /\ DOMAIN BagOf(V) = D /\ \A r \in D : BagOf(V)[r] = 1 /\ BlockOf(r) \notin EvictedBids
      /\ \A bid \in V : BlockOf(RangeOf(bid)) = bid
  BY <1>1, BagOfIs, BagOfUnlisted, RangeIs DEF DInv, Unlisted
<1>3. IsFiniteSet(V) /\ Cardinality(V) \in Nat
  <2>1. IsFiniteSet(0 .. NBlocks - 1)
    <3>1. 0 \in Int /\ NBlocks - 1 \in Int
      BY <1>1
    <3>2. QED
      BY <3>1, FS_Interval
  <2>2. QED
    BY <1>1, <2>1, FS_Subset, FS_CardinalityType
<1>4. IsFiniteSet(D) /\ Cardinality(D) = Cardinality(V)
  <2> DEFINE f == [bid \in V |-> RangeOf(bid)]
             g == [r \in D |-> BlockOf(r)]
  <2>1. /\ IsFiniteSet({f[x] : x \in DOMAIN f})
        /\ Cardinality({f[x] : x \in DOMAIN f}) <= Cardinality(DOMAIN f)
    BY <1>3, ImageFinite
  <2>2. {f[x] : x \in DOMAIN f} = D /\ DOMAIN f = V
    OBVIOUS
  <2>3. /\ IsFiniteSet({g[x] : x \in DOMAIN g})
        /\ Cardinality({g[x] : x \in DOMAIN g}) <= Cardinality(DOMAIN g)
    BY <2>1, <2>2, ImageFinite
  <2>4. {g[x] : x \in DOMAIN g} = V /\ DOMAIN g = D
    <3>1. \A bid \in V : RangeOf(bid) \in D /\ g[RangeOf(bid)] = bid
      BY <1>2
    <3>2. \A r \in D : g[r] \in V
      BY <1>2
    <3>3. DOMAIN g = D
      OBVIOUS
    <3> HIDE DEF g, D
    <3>4. QED
      BY <3>1, <3>2, <3>3
  <2>5. Cardinality(D) \in Nat /\ Cardinality(D) <= Cardinality(V) /\ Cardinality(V) <= Cardinality(D)
    BY <2>1, <2>2, <2>3, <2>4, FS_CardinalityType
  <2>6. QED
    BY <1>3, <2>1, <2>2, <2>5
<1>5. IsFiniteSet(New) /\ Cardinality(New) = Cardinality(V) * NLayers
  <2>1. IsFiniteSet({1}) /\ Cardinality({1}) = 1
    BY FS_Singleton
  <2>2. IsFiniteSet(D \X {1}) /\ Cardinality(D \X {1}) = Cardinality(D) * 1
    BY <1>4, <2>1, FS_Product
  <2>3. IsFiniteSet(New) /\ Cardinality(New) = NLayers * Cardinality(D \X {1})
    BY <2>2, LayersFinite, FS_Product
  <2> HIDE DEF New, D
  <2>4. QED
    BY <1>3, <1>4, <2>2, <2>3, Sizes
<1>6. ASSUME NEW l \in Layers
      PROVE  /\ Copies(evicted'[l]) = Copies(evicted[l]) \cup (D \X {1})
             /\ Copies(evicted[l]) \cap (D \X {1}) = {}
  <2>1. evicted'[l] = evicted[l] (+) BagOf(V)
    <3>1. l > 0
      BY Sizes DEF Layers
    <3>2. ~ (l <= 0)
      BY <3>1, Sizes DEF Layers
    <3>3. QED
      BY <3>2 DEF Evict
  <2>2. \A r \in DOMAIN evicted[l] : BlockOf(r) \in EvictedBids /\ evicted[l][r] \in Nat
    BY DEF EvictedBids, BagToSet, DInv, Ranged
  <2>3. DOMAIN evicted[l] \cap D = {}
    BY <1>2, <2>2
  <2>4. Copies(evicted'[l]) = Copies(evicted[l]) \cup (D \X {1})
    <3>1. DOMAIN BagOf(V) = D /\ \A r \in DOMAIN BagOf(V) : BagOf(V)[r] = 1
      BY <1>2
    <3>2. /\ DOMAIN evicted[l] \cap DOMAIN BagOf(V) = {}
          /\ \A r \in DOMAIN evicted[l] : evicted[l][r] \in Nat
      BY <2>2, <2>3, <3>1
    <3> HIDE DEF D
    <3>3. Copies(evicted'[l]) = Copies(evicted[l]) \cup ((DOMAIN BagOf(V)) \X {1})
      BY <2>1, <3>1, <3>2, CopiesUnion
    <3>4. QED
      BY <3>1, <3>3
  <2>5. \A x \in Copies(evicted[l]) : x[1] \in DOMAIN evicted[l]
    BY DEF Copies, BagToSet
  <2>6. \A x \in D \X {1} : x[1] \in D
    OBVIOUS
  <2>7. QED
    BY <2>3, <2>4, <2>5, <2>6
<1>7. Listed' = Listed \cup New /\ Listed \cap New = {}
  <2> DEFINE E == D \X {1}
  <2>1. \A x : x \in Listed <=> \E l \in Layers : x \in {l} \X Copies(evicted[l])
    BY DEF Listed
  <2>2. \A x : x \in Listed' <=> \E l \in Layers : x \in {l} \X Copies(evicted'[l])
    BY DEF Listed
  <2>3. \A x : x \in New <=> \E l \in Layers : x \in {l} \X E
    OBVIOUS
  <2>4. \A l \in Layers : /\ Copies(evicted'[l]) = Copies(evicted[l]) \cup E
                          /\ Copies(evicted[l]) \cap E = {}
    BY <1>6
  <2> HIDE DEF E, New, D
  <2>5. ASSUME NEW x PROVE x \in Listed' <=> x \in Listed \cup New
    BY <2>1, <2>2, <2>3, <2>4
  <2>6. ASSUME NEW x \in Listed, x \in New PROVE FALSE
    <3>1. PICK l \in Layers : x \in {l} \X Copies(evicted[l])
      BY <2>1
    <3>2. PICK k \in Layers : x \in {k} \X E
      BY <2>3, <2>6
    <3>3. x[1] = l /\ x[1] = k /\ x[2] \in Copies(evicted[l]) /\ x[2] \in E
      BY <3>1, <3>2
    <3>4. QED
      BY <2>4, <3>3
  <2>7. QED
    BY <2>5, <2>6
<1>8. IsFiniteSet(Listed) /\ Cardinality(Listed) \in Nat
  BY ListedFinite, FS_CardinalityType
<1>9. Cardinality(Listed') = Cardinality(Listed) + Cardinality(V) * NLayers
  <2> HIDE DEF New
  <2>1. Cardinality(Listed \cup New)
          = Cardinality(Listed) + Cardinality(New) - Cardinality(Listed \cap New)
    BY <1>5, <1>8, FS_Union
  <2>2. Cardinality(Listed \cap New) = 0
    BY <1>7, FS_EmptySet
  <2>3. Cardinality(New) \in Nat
    BY <1>5, FS_CardinalityType
  <2>4. QED
    BY <1>5, <1>7, <1>8, <2>1, <2>2, <2>3
<1> HIDE DEF New, D
<1>10. NBlocks * NLayers \in Int /\ Cardinality(V) * NLayers \in Int
  BY <1>1, <1>3, Sizes
<1>11. QED
  BY <1>1, <1>3, <1>8, <1>9, <1>10 DEF OnGpu

LEMMA EvictColdRoom == ASSUME DInv, DInv', EvictCold PROVE MadeRoom
<1>1. PICK V \in Going : Stops(V) /\ Evict(BagOf(V), 0, EmptyBag)
  BY DEF EvictCold
<1>2. V \in SUBSET Candidates /\ total' = total /\ NBlocks' = NBlocks
  BY DEF Going, EvictCold, NBlocks
<1>3. OnGpu \in Int /\ Cardinality(V) \in Nat /\ OnGpu' = OnGpu - Cardinality(V) * NLayers
  BY <1>1, <1>2, RoomMade
<1>4. CASE V = Candidates
  <2> SUFFICES ASSUME NEW bid \in 0 .. NBlocks - 1, ~ Sink(bid) PROVE bid \in EvictedBids'
    BY DEF MadeRoom
  <2>1. \A l \in Layers : DOMAIN evicted'[l] = DOMAIN evicted[l] \cup DOMAIN BagOf(V)
    <3> SUFFICES ASSUME NEW l \in Layers
                 PROVE  DOMAIN evicted'[l] = DOMAIN evicted[l] \cup DOMAIN BagOf(V)
      OBVIOUS
    <3>1. ~ (l <= 0)
      BY Sizes DEF Layers
    <3>2. evicted'[l] = evicted[l] (+) BagOf(V)
      BY <1>1, <3>1 DEF Evict
    <3>3. QED
      BY <3>2, BagUnionIs
  <2>2. CASE bid \in EvictedBids
    BY <2>1, <2>2 DEF EvictedBids, BagToSet
  <2>3. CASE bid \notin EvictedBids
    <3>1. bid \in V
      BY <1>2, <1>4, <2>3 DEF Candidates
    <3>2. RangeOf(bid) \in DOMAIN BagOf(V) /\ BlockOf(RangeOf(bid)) = bid
      BY <1>2, <3>1, BagOfIs, RangeIs DEF DInv, Candidates
    <3>3. RangeOf(bid) \in DOMAIN evicted'[1] /\ 1 \in Layers
      BY <2>1, <3>2, LayersFinite
    <3>4. QED
      BY <3>2, <3>3 DEF EvictedBids, BagToSet
  <2>4. QED
    BY <2>2, <2>3
<1>5. CASE Cardinality(V) = MaxEvict
  <2>1. OnGpu' = OnGpu - MaxEvict * NLayers
    BY <1>3, <1>5
  <2>2. OnGpu - MaxEvict * NLayers \in Int
    BY <1>3, Sizes
  <2>3. QED
    BY <2>1, <2>2 DEF MadeRoom
<1>6. CASE AtMost(Cardinality(V), 85)
  BY <1>3, <1>6 DEF AtMost, MadeRoom
<1>7. QED
  BY <1>1, <1>4, <1>5, <1>6 DEF Stops

\* ScoredMakesRoom: for any number of layers, budget and max_evict, a schedule
\* of FastKVCacheManager that saw the mark exceeded ends below it, or evicted
\* max_evict blocks of every layer, or left no block to evict.
THEOREM ScoredMakesRoomTheorem == Spec => ScoredMakesRoom
<1>1. DInv /\ DInv' /\ [Next]_vars => [EvictCold => MadeRoom]_vars
  BY EvictColdRoom
<1>2. QED
  BY <1>1, SpecKeeps, PTL DEF Spec, ScoredMakesRoom
=============================================================================
