---------------------------- MODULE PagedKVProof ----------------------------
(***************************************************************************)
(* For any number of layers, any sizes, budget and faults, KVCacheManager   *)
(* keeps its sinks on the GPU and the C manager informed; and when no       *)
(* allocation on the GPU fails, its eviction follows the attention, and     *)
(* what either manager would build is the log of the tokens it took in.     *)
(*                                                                         *)
(* The first invariant speaks of one block at a time.  A block is Fine if   *)
(* it is a record, flagged as a sink if it holds sink tokens, on the GPU if *)
(* so flagged, where the C manager was told, and not without data on the    *)
(* GPU.  Each movement keeps a block Fine, and each call moves blocks.      *)
(*                                                                         *)
(* The second, DInv, speaks of the data.  A block is Sound if the copy in   *)
(* the tier that counts holds its tokens, a row of blocks is a Row if its   *)
(* blocks follow one another, and no two blocks of a table share an         *)
(* identifier, which is what keeps a file from being another block's.       *)
(***************************************************************************)
EXTENDS PagedKV, SequenceTheorems, FiniteSetTheorems, TLAPS

Fields == {"id", "start", "count", "tier", "gpu", "dram", "saved", "sink", "access", "told"}
Rec(b) == DOMAIN b = Fields /\ b = [f \in Fields |-> b[f]]
Fine(b) ==
  /\ Rec(b) /\ b.access \in Nat
  /\ b.start < SinkTokens => b.sink
  /\ b.sink => b.tier = "GPU"
  /\ \/ b.sink \/ b.told = b.tier
     \/ "promote" \in Faults /\ b.tier = "DRAM" /\ b.told = "SSD"
  /\ "scored" \notin AllocMayFail /\ b.tier = "GPU" => b.gpu # NoData

\* Rows of Fine blocks, and tables of such rows.
FineRow(bs)  == \E S : bs \in Seq(S) /\ \A b \in S : Fine(b)
FineTable(t) == /\ t = [l \in Layers |-> t[l]]
                /\ \A l \in Layers : FineRow(t[l])

IInv == seqLen \in Nat /\ (kind = "scored" => FineTable(blocks))

USE PagedConstantsOK DEF PagedConstantsOK

-----------------------------------------------------------------------------
(* Movements of one block.                                                 *)

LEMMA DemotedFine == ASSUME NEW b, Fine(b), ~ b.sink PROVE Fine(Demoted(b))
  BY DEF Fine, Rec, Fields, Demoted, NoData

LEMMA PromotedFine == ASSUME NEW b, Fine(b) PROVE Fine(Promoted(b))
  BY DEF Fine, Rec, Fields, Promoted, Loaded, NoData, NoFile

LEMMA PromotionFailedFine ==
  ASSUME NEW b, Fine(b), "promote" \in Faults PROVE Fine(PromotionFailed(b))
  BY DEF Fine, Rec, Fields, PromotionFailed, Loaded, NoData, NoFile

LEMMA HalfLoadedFine == ASSUME NEW b, Fine(b) PROVE Fine(HalfLoaded(b))
  BY DEF Fine, Rec, Fields, HalfLoaded, NoData, NoFile

LEMMA SavedFine == ASSUME NEW b, Fine(b), ~ b.sink PROVE Fine(Saved(b))
  BY DEF Fine, Rec, Fields, Saved, NoData

LEMMA WithTokenFine == ASSUME NEW b, Fine(b) PROVE Fine(WithToken(b))
<1>1. 1 \in Slots
  BY DEF Slots
<1>2. WithToken(b).gpu = [s \in Slots |-> IF s = b.count + 1 THEN seqLen ELSE b.gpu[s]]
  BY DEF Fine, Rec, Fields, WithToken
<1>3. WithToken(b).gpu # NoData
  BY <1>1, <1>2 DEF NoData
<1>4. Rec(WithToken(b))
  BY DEF Fine, Rec, Fields, WithToken
<1>5. /\ WithToken(b).start = b.start /\ WithToken(b).tier = b.tier
      /\ WithToken(b).told = b.told /\ WithToken(b).sink = b.sink
      /\ WithToken(b).access = b.access
  BY DEF Fine, Rec, Fields, WithToken
<1>6. QED
  BY <1>3, <1>4, <1>5 DEF Fine

LEMMA NewBlockFine ==
  ASSUME NEW id, NEW pos, NEW n, NEW data, kind = "scored", data # NoData
  PROVE  Fine(NewBlock(id, pos, n, data))
  BY DEF Fine, Rec, Fields, NewBlock, NoData

\* What the scored manager leaves of a block whose tensor it could not get.
LEMMA UnallocatedFine ==
  ASSUME NEW b, Fine(b), "scored" \in AllocMayFail PROVE Fine([b EXCEPT !.gpu = NoData])
  BY DEF Fine, Rec, Fields, NoData

-----------------------------------------------------------------------------
(* Rows.                                                                   *)

\* A row is a sequence, and its blocks are Fine.
LEMMA RowElim ==
  ASSUME NEW bs, FineRow(bs)
  PROVE  /\ Len(bs) \in Nat /\ DOMAIN bs = 1 .. Len(bs)
         /\ bs = [i \in 1 .. Len(bs) |-> bs[i]]
         /\ \A i \in 1 .. Len(bs) : Fine(bs[i])
<1>1. PICK S : bs \in Seq(S) /\ \A b \in S : Fine(b)
  BY DEF FineRow
<1>2. QED
  BY <1>1

\* A sequence of Fine blocks is a row.
LEMMA RowIntro ==
  ASSUME NEW n \in Nat, NEW bs, bs = [i \in 1 .. n |-> bs[i]],
         \A i \in 1 .. n : Fine(bs[i])
  PROVE  FineRow(bs) /\ Len(bs) = n
<1> DEFINE S == {bs[i] : i \in 1 .. n}
<1>1. bs \in [1 .. n -> S]
  OBVIOUS
<1> HIDE DEF S
<1>2. bs \in Seq(S) /\ Len(bs) = n
  <2>1. bs \in Seq(S)
    BY <1>1
  <2>2. DOMAIN bs = 1 .. n /\ DOMAIN bs = 1 .. Len(bs) /\ Len(bs) \in Nat
    BY <1>1, <2>1, LenProperties
  <2>3. QED
    BY <2>1, <2>2
<1>3. \A b \in S : Fine(b)
  BY DEF S
<1>4. QED
  BY <1>2, <1>3 DEF FineRow

LEMMA RowConcat ==
  ASSUME NEW bs, NEW cs, FineRow(bs), FineRow(cs) PROVE FineRow(bs \o cs)
<1>1. PICK S : bs \in Seq(S) /\ \A b \in S : Fine(b)
  BY DEF FineRow
<1>2. PICK T : cs \in Seq(T) /\ \A b \in T : Fine(b)
  BY DEF FineRow
<1>3. bs \in Seq(S \cup T) /\ cs \in Seq(S \cup T)
  BY <1>1, <1>2
<1>4. bs \o cs \in Seq(S \cup T)
  BY <1>3, ConcatProperties
<1>5. QED
  BY <1>1, <1>2, <1>4 DEF FineRow

LEMMA RowLenConcat ==
  ASSUME NEW bs, NEW cs, FineRow(bs), FineRow(cs)
  PROVE  Len(bs \o cs) = Len(bs) + Len(cs)
<1>1. PICK S : bs \in Seq(S) /\ \A b \in S : Fine(b)
  BY DEF FineRow
<1>2. PICK T : cs \in Seq(T) /\ \A b \in T : Fine(b)
  BY DEF FineRow
<1>3. bs \in Seq(S \cup T) /\ cs \in Seq(S \cup T)
  BY <1>1, <1>2
<1>4. QED
  BY <1>3, ConcatProperties

\* One block of a row exchanged for another.
LEMMA RowExcept ==
  ASSUME NEW bs, FineRow(bs), NEW i \in 1 .. Len(bs), NEW c, Fine(c)
  PROVE  FineRow([bs EXCEPT ![i] = c]) /\ Len([bs EXCEPT ![i] = c]) = Len(bs)
<1> DEFINE cs == [bs EXCEPT ![i] = c]
<1>1. /\ Len(bs) \in Nat /\ DOMAIN bs = 1 .. Len(bs)
      /\ \A j \in 1 .. Len(bs) : Fine(bs[j])
  BY RowElim
<1>2. /\ cs = [j \in 1 .. Len(bs) |-> cs[j]]
      /\ \A j \in 1 .. Len(bs) : Fine(cs[j])
  BY <1>1
<1> HIDE DEF cs
<1>3. FineRow(cs) /\ Len(cs) = Len(bs)
  BY <1>1, <1>2, RowIntro
<1>4. QED
  BY <1>3 DEF cs

\* A prefix of a row.
LEMMA RowPrefix ==
  ASSUME NEW bs, FineRow(bs), NEW n \in 0 .. Len(bs)
  PROVE  FineRow(SubSeq(bs, 1, n)) /\ Len(SubSeq(bs, 1, n)) = n
<1>1. PICK S : bs \in Seq(S) /\ \A b \in S : Fine(b)
  BY DEF FineRow
<1>2. SubSeq(bs, 1, n) \in Seq(S) /\ Len(SubSeq(bs, 1, n)) = n
  BY <1>1, SubSeqProperties
<1>3. QED
  BY <1>1, <1>2 DEF FineRow

-----------------------------------------------------------------------------
(* Tables.                                                                 *)

\* A table with the shape of a Fine one, all of whose blocks are Fine.
LEMMA TableIntro ==
  ASSUME NEW t, FineTable(t), NEW r,
         r = [l \in Layers |-> [i \in 1 .. Len(t[l]) |-> r[l][i]]],
         \A l \in Layers : \A i \in 1 .. Len(t[l]) : Fine(r[l][i])
  PROVE  FineTable(r) /\ \A l \in Layers : Len(r[l]) = Len(t[l])
<1>1. ASSUME NEW l \in Layers PROVE FineRow(r[l]) /\ Len(r[l]) = Len(t[l])
  <2>1. Len(t[l]) \in Nat
    BY RowElim DEF FineTable
  <2>2. r[l] = [i \in 1 .. Len(t[l]) |-> r[l][i]]
    OBVIOUS
  <2>3. QED
    BY <2>1, <2>2, RowIntro
<1>2. QED
  BY <1>1 DEF FineTable

\* The movements, applied to some blocks of a table.
LEMMA DemotedTable ==
  ASSUME NEW t, FineTable(t), NEW X, \A x \in X \cap Places(t) : ~ At(t, x).sink
  PROVE  /\ FineTable(Changed(t, X, Demoted))
         /\ \A l \in Layers : Len(Changed(t, X, Demoted)[l]) = Len(t[l])
<1> DEFINE r == Changed(t, X, Demoted)
<1>1. r = [l \in Layers |-> [i \in 1 .. Len(t[l]) |-> r[l][i]]]
  BY DEF Changed
<1>2. ASSUME NEW l \in Layers, NEW i \in 1 .. Len(t[l]) PROVE Fine(r[l][i])
  <2>1. Fine(t[l][i])
    BY RowElim DEF FineTable
  <2>2. <<l, i>> \in Places(t) /\ At(t, <<l, i>>) = t[l][i]
    BY DEF Places, At
  <2>3. r[l][i] = IF <<l, i>> \in X THEN Demoted(t[l][i]) ELSE t[l][i]
    BY DEF Changed
  <2>4. QED
    BY <2>1, <2>2, <2>3, DemotedFine
<1>3. QED
  BY <1>1, <1>2, TableIntro

LEMMA SavedTable ==
  ASSUME NEW t, FineTable(t), NEW X, \A x \in X \cap Places(t) : ~ At(t, x).sink
  PROVE  /\ FineTable(Changed(t, X, Saved))
         /\ \A l \in Layers : Len(Changed(t, X, Saved)[l]) = Len(t[l])
<1> DEFINE r == Changed(t, X, Saved)
<1>1. r = [l \in Layers |-> [i \in 1 .. Len(t[l]) |-> r[l][i]]]
  BY DEF Changed
<1>2. ASSUME NEW l \in Layers, NEW i \in 1 .. Len(t[l]) PROVE Fine(r[l][i])
  <2>1. Fine(t[l][i])
    BY RowElim DEF FineTable
  <2>2. <<l, i>> \in Places(t) /\ At(t, <<l, i>>) = t[l][i]
    BY DEF Places, At
  <2>3. r[l][i] = IF <<l, i>> \in X THEN Saved(t[l][i]) ELSE t[l][i]
    BY DEF Changed
  <2>4. QED
    BY <2>1, <2>2, <2>3, SavedFine
<1>3. QED
  BY <1>1, <1>2, TableIntro

LEMMA PromotedTable ==
  ASSUME NEW t, FineTable(t), NEW X
  PROVE  /\ FineTable(Changed(t, X, Promoted))
         /\ \A l \in Layers : Len(Changed(t, X, Promoted)[l]) = Len(t[l])
<1> DEFINE r == Changed(t, X, Promoted)
<1>1. r = [l \in Layers |-> [i \in 1 .. Len(t[l]) |-> r[l][i]]]
  BY DEF Changed
<1>2. ASSUME NEW l \in Layers, NEW i \in 1 .. Len(t[l]) PROVE Fine(r[l][i])
  <2>1. Fine(t[l][i])
    BY RowElim DEF FineTable
  <2>2. r[l][i] = IF <<l, i>> \in X THEN Promoted(t[l][i]) ELSE t[l][i]
    BY DEF Changed
  <2>3. QED
    BY <2>1, <2>2, PromotedFine
<1>3. QED
  BY <1>1, <1>2, TableIntro

LEMMA PromotionFailedTable ==
  ASSUME NEW t, FineTable(t), NEW X, "promote" \in Faults
  PROVE  /\ FineTable(Changed(t, X, PromotionFailed))
         /\ \A l \in Layers : Len(Changed(t, X, PromotionFailed)[l]) = Len(t[l])
<1> DEFINE r == Changed(t, X, PromotionFailed)
<1>1. r = [l \in Layers |-> [i \in 1 .. Len(t[l]) |-> r[l][i]]]
  BY DEF Changed
<1>2. ASSUME NEW l \in Layers, NEW i \in 1 .. Len(t[l]) PROVE Fine(r[l][i])
  <2>1. Fine(t[l][i])
    BY RowElim DEF FineTable
  <2>2. r[l][i] = IF <<l, i>> \in X THEN PromotionFailed(t[l][i]) ELSE t[l][i]
    BY DEF Changed
  <2>3. QED
    BY <2>1, <2>2, PromotionFailedFine
<1>3. QED
  BY <1>1, <1>2, TableIntro

LEMMA HalfLoadedTable ==
  ASSUME NEW t, FineTable(t), NEW X
  PROVE  /\ FineTable(Changed(t, X, HalfLoaded))
         /\ \A l \in Layers : Len(Changed(t, X, HalfLoaded)[l]) = Len(t[l])
<1> DEFINE r == Changed(t, X, HalfLoaded)
<1>1. r = [l \in Layers |-> [i \in 1 .. Len(t[l]) |-> r[l][i]]]
  BY DEF Changed
<1>2. ASSUME NEW l \in Layers, NEW i \in 1 .. Len(t[l]) PROVE Fine(r[l][i])
  <2>1. Fine(t[l][i])
    BY RowElim DEF FineTable
  <2>2. r[l][i] = IF <<l, i>> \in X THEN HalfLoaded(t[l][i]) ELSE t[l][i]
    BY DEF Changed
  <2>3. QED
    BY <2>1, <2>2, HalfLoadedFine
<1>3. QED
  BY <1>1, <1>2, TableIntro

\* A table is finite, and what is counted in it a number.
LEMMA PlacesFinite ==
  ASSUME NEW t, FineTable(t) PROVE IsFiniteSet(Places(t))
<1> DEFINE f == [l \in Layers |-> {l} \X (1 .. Len(t[l]))]
           F == {{l} \X (1 .. Len(t[l])) : l \in Layers}
<1>1. IsFiniteSet(Layers)
  BY FS_Interval DEF Layers
<1>2. f \in Surjection(Layers, F)
  <2>1. \A l \in Layers : f[l] \in F
    OBVIOUS
  <2>2. \A y \in F : \E l \in Layers : f[l] = y
    OBVIOUS
  <2>3. f \in [Layers -> F]
    <3> HIDE DEF F
    <3> QED
      BY <2>1
  <2>4. QED
    <3> HIDE DEF f, F
    <3> QED
      BY <2>2, <2>3 DEF Surjection
<1>3. IsFiniteSet(F)
  BY <1>1, <1>2, FS_Surjection
<1>4. ASSUME NEW l \in Layers PROVE IsFiniteSet({l} \X (1 .. Len(t[l])))
  <2>1. Len(t[l]) \in Nat
    BY RowElim DEF FineTable
  <2>2. IsFiniteSet(1 .. Len(t[l])) /\ IsFiniteSet({l})
    <3> HIDE DEF f, F
    <3>1. \A n \in Nat : IsFiniteSet(1 .. n)
      BY FS_Interval
    <3>2. IsFiniteSet({l})
      BY FS_Singleton
    <3>3. QED
      BY <2>1, <3>1, <3>2
  <2>3. QED
    BY <2>2, FS_Product
<1>5. QED
  BY <1>3, <1>4, FS_UNION DEF Places

LEMMA OnFinite ==
  ASSUME NEW t, FineTable(t), NEW tier PROVE IsFiniteSet(On(t, tier))
  BY PlacesFinite, FS_Subset DEF On

LEMMA OnGpuNat == ASSUME FineTable(blocks) PROVE OnGpu \in Nat
  BY OnFinite, FS_CardinalityType DEF OnGpu

LEMMA ManagedNat ==
  ASSUME NEW bs, FineRow(bs) PROVE Managed(bs) \in Nat
<1> DEFINE T == {x \in (1 .. Len(bs)) \X Slots : x[2] <= bs[x[1]].count}
<1>1. Len(bs) \in Nat
  BY RowElim
<1>2. IsFiniteSet(1 .. Len(bs)) /\ IsFiniteSet(Slots)
  BY <1>1, FS_Interval DEF Slots
<1>3. IsFiniteSet((1 .. Len(bs)) \X Slots)
  BY <1>2, FS_Product
<1>4. Cardinality(T) \in Nat
  BY <1>3, FS_Subset, FS_CardinalityType
<1>5. Managed(bs) = Cardinality(T)
  BY <1>1 DEF Managed, Before
<1>6. QED
  BY <1>4, <1>5

-----------------------------------------------------------------------------
(* Taking tokens in.                                                       *)

LEMMA NewBlocksNat ==
  ASSUME NEW l \in Layers, FineTable(blocks), seqLen \in Nat PROVE NewBlocks[l] \in Nat
<1>1. Managed(blocks[l]) \in Nat
  BY ManagedNat DEF FineTable
<1>2. CASE seqLen <= Managed(blocks[l])
  BY <1>2 DEF NewBlocks
<1>3. CASE ~ seqLen <= Managed(blocks[l])
  <2>1. seqLen - Managed(blocks[l]) + BlockSize - 1 \in Nat
    BY <1>1, <1>3
  <2>2. \A a \in Nat, b \in Nat \ {0} : a \div b \in Nat
    OBVIOUS
  <2>3. QED
    BY <1>3, <2>1, <2>2 DEF NewBlocks
<1>4. QED
  BY <1>2, <1>3

LEMMA ExtendedRow ==
  ASSUME NEW l \in Layers, FineTable(blocks), kind = "scored", NEW k \in Nat, NEW id
  PROVE  FineRow(Extended(l, k, id)) /\ Len(Extended(l, k, id)) = Len(blocks[l]) + k
<1> DEFINE old == Managed(blocks[l])
           Pos(j) == old + (j - 1) * BlockSize
           Size(j) == IF seqLen - Pos(j) < BlockSize THEN seqLen - Pos(j) ELSE BlockSize
           Fresh(j) == NewBlock(id + j - 1, Pos(j), Size(j), Filled(Pos(j), Size(j)))
           new == [j \in 1 .. k |-> Fresh(j)]
<1>1. \A pos, n : Filled(pos, n) # NoData
  BY DEF Filled, NoData, Slots
<1>2. \A j \in 1 .. k : Fine(Fresh(j))
  BY <1>1, NewBlockFine
<1>3. FineRow(new) /\ Len(new) = k
  <2> HIDE DEF Fresh
  <2>1. new = [j \in 1 .. k |-> new[j]] /\ \A j \in 1 .. k : Fine(new[j])
    BY <1>2
  <2> HIDE DEF new
  <2>2. QED
    BY <2>1, RowIntro
<1>4. Extended(l, k, id) = blocks[l] \o new
  BY DEF Extended
<1>5. FineRow(blocks[l])
  BY DEF FineTable
<1> HIDE DEF new
<1>6. Len(blocks[l] \o new) = Len(blocks[l]) + Len(new)
  BY <1>3, <1>5, RowLenConcat
<1>7. QED
  BY <1>3, <1>4, <1>5, <1>6, RowConcat

LEMMA LastUnallocatedRow ==
  ASSUME NEW bs, FineRow(bs), Len(bs) # 0, kind = "scored", "scored" \in AllocMayFail
  PROVE  FineRow(LastUnallocated(bs))
<1> DEFINE n == Len(bs)
           c == [bs[n] EXCEPT !.gpu = NoData]
<1>1. n \in 1 .. Len(bs) /\ DOMAIN bs = 1 .. Len(bs) /\ Fine(bs[n])
  BY RowElim
<1>2. LastUnallocated(bs) = [bs EXCEPT ![n] = c]
  BY <1>1 DEF LastUnallocated
<1>3. Fine(c)
  BY <1>1, UnallocatedFine
<1> HIDE DEF n, c
<1>4. FineRow([bs EXCEPT ![n] = c])
  BY <1>1, <1>3, RowExcept
<1>5. QED
  BY <1>2, <1>4

LEMMA RowAppend ==
  ASSUME NEW bs, FineRow(bs), NEW c, Fine(c)
  PROVE  FineRow(Append(bs, c)) /\ Len(Append(bs, c)) = Len(bs) + 1
<1>1. PICK S : bs \in Seq(S) /\ \A b \in S : Fine(b)
  BY DEF FineRow
<1>2. bs \in Seq(S \cup {c}) /\ \A b \in S \cup {c} : Fine(b)
  BY <1>1
<1>3. Append(bs, c) \in Seq(S \cup {c}) /\ Len(Append(bs, c)) = Len(bs) + 1
  BY <1>2, AppendProperties
<1>4. QED
  BY <1>2, <1>3 DEF FineRow

LEMMA AppendedRow ==
  ASSUME NEW l \in Layers, FineTable(blocks), kind = "scored", seqLen \in Nat, NEW id
  PROVE  FineRow(Appended(l, id)) /\ Len(Appended(l, id)) = Len(blocks[l]) + Appending[l]
<1> DEFINE bs == blocks[l]
<1>1. FineRow(bs) /\ Len(bs) \in Nat /\ DOMAIN bs = 1 .. Len(bs)
  BY RowElim DEF FineTable
<1>2. CASE ~ Behind(l)
  <2>1. Appended(l, id) = blocks[l] /\ Appending[l] = 0
    BY <1>2 DEF Appended, Appending
  <2>2. QED
    BY <1>1, <2>1
<1>3. CASE Behind(l) /\ HasRoom(l)
  <2> DEFINE n == Len(bs)
             c == WithToken(Promoted(bs[n]))
  <2>1. n \in 1 .. Len(bs)
    <3>1. bs # << >>
      BY <1>3 DEF HasRoom
    <3>2. PICK S : bs \in Seq(S)
      BY <1>1 DEF FineRow
    <3>3. QED
      BY <1>1, <3>1, <3>2, EmptySeq
  <2>2. Fine(c)
    BY <1>1, <2>1, RowElim, PromotedFine, WithTokenFine
  <2>3. Appended(l, id) = [bs EXCEPT ![n] = c]
    BY <1>3 DEF Appended, HasRoom
  <2>4. Appending[l] = 0
    BY <1>3 DEF Appending, HasRoom
  <2> HIDE DEF n, c, bs
  <2>5. FineRow([bs EXCEPT ![n] = c]) /\ Len([bs EXCEPT ![n] = c]) = Len(bs)
    BY <1>1, <2>1, <2>2, RowExcept
  <2>6. QED
    BY <1>1, <2>3, <2>4, <2>5 DEF bs
<1>4. CASE Behind(l) /\ ~ HasRoom(l) /\ bs = << >>
  <2>1. Appended(l, id) = Extended(l, NewBlocks[l], id) /\ Appending[l] = NewBlocks[l]
    BY <1>4 DEF Appended, Appending
  <2>2. QED
    BY <2>1, NewBlocksNat, ExtendedRow
<1>5. CASE Behind(l) /\ ~ HasRoom(l) /\ bs # << >>
  <2> DEFINE d == [s \in Slots |-> IF s = 1 THEN seqLen ELSE 0]
             c == NewBlock(id, Managed(bs), 1, d)
  <2>1. d # NoData
    BY DEF NoData, Slots
  <2>2. Fine(c)
    <3> HIDE DEF d
    <3> QED
      BY <2>1, NewBlockFine
  <2>3. Appended(l, id) = Append(bs, c) /\ Appending[l] = 1
    BY <1>5 DEF Appended, Appending, Opened
  <2> HIDE DEF c, bs
  <2>4. QED
    BY <1>1, <2>2, <2>3, RowAppend DEF bs
<1>6. QED
  BY <1>2, <1>3, <1>4, <1>5

LEMMA ForwardFine == ASSUME IInv, Forward PROVE IInv'
  <1>1. seqLen' \in Nat
    BY DEF IInv, Forward
  <1>2. QED
    BY <1>1 DEF IInv, Forward

LEMMA IngestFine == ASSUME IInv, Ingest PROVE IInv'
<1>1. seqLen' \in Nat /\ kind' = kind
  BY DEF IInv, Ingest
<1>2. ASSUME kind = "scored" PROVE FineTable(blocks')
  <2>1. ASSUME NEW l \in Layers
        PROVE  FineRow(Extended(l, NewBlocks[l], FirstId(l, NewBlocks)))
    BY <1>2, ExtendedRow, NewBlocksNat DEF IInv
  <2>2. QED
    BY <2>1 DEF Ingest, FineTable
<1>3. QED
  BY <1>1, <1>2 DEF IInv

\* A call that fails in layer l: the layers before it are done, those after not.
LEMMA IngestFailsSplit ==
  ASSUME IngestFails
  PROVE  \E l \in Layers : \E k \in 1 .. NewBlocks[l] : \E id :
           /\ blocks' = [m \in Layers |-> blocks'[m]]
           /\ blocks'[l] = LastUnallocated(Extended(l, k, id))
           /\ \A m \in Layers : /\ m < l => \E i : blocks'[m] = Extended(m, NewBlocks[m], i)
                                /\ m > l => blocks'[m] = blocks[m]
<1> DEFINE Done(m) == Extended(m, NewBlocks[m], FirstId(m, NewBlocks))
           Id(l) == FirstId(l, NewBlocks)
<1>1. PICK l \in Layers : \E k \in 1 .. NewBlocks[l] :
        blocks' = [m \in Layers |-> CASE m < l -> Done(m)
                                      [] m = l -> LastUnallocated(Extended(l, k, Id(l)))
                                      [] m > l -> blocks[m]]
  BY DEF IngestFails
<1>2. PICK k \in 1 .. NewBlocks[l] :
        blocks' = [m \in Layers |-> CASE m < l -> Done(m)
                                      [] m = l -> LastUnallocated(Extended(l, k, Id(l)))
                                      [] m > l -> blocks[m]]
  BY <1>1
<1> DEFINE F(m) == CASE m < l -> Done(m)
                     [] m = l -> LastUnallocated(Extended(l, k, Id(l)))
                     [] m > l -> blocks[m]
<1>3. blocks' = [m \in Layers |-> F(m)]
  BY <1>2, Zenon
<1>4. blocks' = [m \in Layers |-> blocks'[m]] /\ \A m \in Layers : blocks'[m] = F(m)
  <2> HIDE DEF F
  <2> QED
    BY <1>3
<1>5. Layers \subseteq Int
  BY DEF Layers
<1>6. \A m \in Layers : \E i : Done(m) = Extended(m, NewBlocks[m], i)
  OBVIOUS
<1> HIDE DEF Done, Id
<1>7. /\ blocks'[l] = LastUnallocated(Extended(l, k, Id(l)))
      /\ \A m \in Layers : /\ m < l => blocks'[m] = Done(m)
                           /\ m > l => blocks'[m] = blocks[m]
  BY <1>4, <1>5
<1>8. QED
  BY <1>4, <1>6, <1>7

LEMMA IngestFailsFine == ASSUME IInv, IngestFails PROVE IInv'
<1>1. seqLen' \in Nat /\ kind' = kind
  BY DEF IInv, IngestFails
<1>2. ASSUME kind = "scored" PROVE FineTable(blocks')
  <2>1. PICK l \in Layers : \E k \in 1 .. NewBlocks[l] : \E id :
          /\ blocks' = [m \in Layers |-> blocks'[m]]
          /\ blocks'[l] = LastUnallocated(Extended(l, k, id))
          /\ \A m \in Layers : /\ m < l => \E i : blocks'[m] = Extended(m, NewBlocks[m], i)
                               /\ m > l => blocks'[m] = blocks[m]
    BY IngestFailsSplit
  <2>2. ASSUME NEW m \in Layers
        PROVE  FineRow(blocks[m]) /\ \A i : FineRow(Extended(m, NewBlocks[m], i))
    BY <1>2, ExtendedRow, NewBlocksNat DEF IInv, FineTable
  <2>3. ASSUME NEW k \in 1 .. NewBlocks[l], NEW id
        PROVE  FineRow(LastUnallocated(Extended(l, k, id)))
    <3> DEFINE e == Extended(l, k, id)
    <3>1. k \in Nat /\ k # 0
      BY <1>2, NewBlocksNat DEF IInv
    <3>2. FineRow(e) /\ Len(e) = Len(blocks[l]) + k
      BY <1>2, <3>1, ExtendedRow DEF IInv
    <3>3. Len(blocks[l]) \in Nat
      BY <1>2, RowElim DEF IInv, FineTable
    <3>4. "scored" \in AllocMayFail
      BY <1>2 DEF IngestFails
    <3> HIDE DEF e
    <3>5. Len(e) # 0
      BY <3>1, <3>2, <3>3
    <3>6. FineRow(LastUnallocated(e))
      BY <1>2, <3>2, <3>4, <3>5, LastUnallocatedRow
    <3>7. QED
      BY <3>6 DEF e
  <2>4. ASSUME NEW m \in Layers PROVE FineRow(blocks'[m])
    <3>1. m < l \/ m = l \/ m > l
      BY DEF Layers
    <3>2. QED
      BY <2>1, <2>2, <2>3, <3>1
  <2>5. QED
    BY <2>1, <2>4 DEF FineTable
<1>3. QED
  BY <1>1, <1>2 DEF IInv

LEMMA AppendTokenFine == ASSUME IInv, AppendToken PROVE IInv'
<1>1. seqLen' \in Nat /\ kind' = kind
  BY DEF IInv, AppendToken
<1>2. ASSUME kind = "scored" PROVE FineTable(blocks')
  <2>1. ASSUME NEW l \in Layers PROVE FineRow(Appended(l, FirstId(l, Appending)))
    BY <1>2, AppendedRow DEF IInv
  <2>2. QED
    BY <2>1 DEF AppendToken, FineTable
<1>3. QED
  BY <1>1, <1>2 DEF IInv

\* What a failing append_token leaves of a layer is a row still.
LEMMA AppendLeftFine ==
  ASSUME FineTable(blocks), kind = "scored", seqLen \in Nat, NEW l \in Layers, NEW id,
         NEW left \in AppendLeft(l, id)
  PROVE  FineRow(left[1])
<1> DEFINE bs == blocks[l]
           n == Len(bs)
<1>1. FineRow(bs) /\ n \in Nat
  BY RowElim DEF FineTable
<1>2. ASSUME HasRoom(l), NEW c, left = <<[bs EXCEPT ![n] = c], 0>>,
             \/ c = Promoted(bs[n]) \/ c = HalfLoaded(bs[n]) \/ c = bs[n]
             \/ "promote" \in Faults /\ c = PromotionFailed(bs[n])
      PROVE  FineRow(left[1])
  <2>1. n \in 1 .. Len(bs)
    <3>1. bs # << >>
      BY <1>2 DEF HasRoom
    <3>2. PICK S : bs \in Seq(S)
      BY <1>1 DEF FineRow
    <3>3. QED
      BY <1>1, <3>1, <3>2, EmptySeq
  <2>2. Fine(c)
    <3>1. Fine(bs[n])
      BY <1>1, <2>1, RowElim
    <3> HIDE DEF bs, n
    <3>2. QED
      BY <1>2, <3>1, PromotedFine, PromotionFailedFine, HalfLoadedFine
  <2>3. left[1] = [bs EXCEPT ![n] = c]
    BY <1>2
  <2> HIDE DEF bs, n
  <2>4. QED
    BY <1>1, <2>1, <2>2, <2>3, RowExcept
<1>3. ASSUME NEW k \in 1 .. Appending[l], "scored" \in AllocMayFail,
             left = <<LastUnallocated(SubSeq(Appended(l, id), 1, n + k)), k>>
      PROVE  FineRow(left[1])
  <2> DEFINE e == Appended(l, id)
             f == SubSeq(e, 1, n + k)
  <2>1. FineRow(e) /\ Len(e) = n + Appending[l]
    BY AppendedRow
  <2>2. Appending[l] \in Nat
    BY NewBlocksNat DEF Appending
  <2>3. left[1] = LastUnallocated(f)
    BY <1>3
  <2> HIDE DEF e, n
  <2>4. n + k \in 0 .. Len(e) /\ n + k # 0
    BY <1>1, <2>1, <2>2
  <2>5. FineRow(f) /\ Len(f) = n + k
    <3> DEFINE q == n + k
    <3> HIDE DEF q
    <3>1. FineRow(SubSeq(e, 1, q)) /\ Len(SubSeq(e, 1, q)) = q
      BY <2>1, <2>4, RowPrefix DEF q
    <3>2. QED
      BY <3>1 DEF q
  <2> HIDE DEF f
  <2>6. QED
    BY <1>3, <2>3, <2>4, <2>5, LastUnallocatedRow
<1>4. \/ HasRoom(l) /\ left = <<[bs EXCEPT ![n] = Promoted(bs[n])], 0>>
      \/ HasRoom(l) /\ left = <<[bs EXCEPT ![n] = HalfLoaded(bs[n])], 0>>
      \/ HasRoom(l) /\ left = <<[bs EXCEPT ![n] = bs[n]], 0>>
      \/ /\ HasRoom(l) /\ "promote" \in Faults
         /\ left = <<[bs EXCEPT ![n] = PromotionFailed(bs[n])], 0>>
      \/ /\ "scored" \in AllocMayFail
         /\ \E k \in 1 .. Appending[l] :
              left = <<LastUnallocated(SubSeq(Appended(l, id), 1, n + k)), k>>
  BY Zenon DEF AppendLeft, Unwritable
<1>5. QED
  BY <1>2, <1>3, <1>4

LEMMA AppendTokenFailsSplit ==
  ASSUME AppendTokenFails
  PROVE  \E l \in Layers : \E id : \E left \in AppendLeft(l, id) :
           /\ blocks' = [m \in Layers |-> blocks'[m]]
           /\ blocks'[l] = left[1]
           /\ \A m \in Layers : /\ m < l => \E i : blocks'[m] = Appended(m, i)
                                /\ m > l => blocks'[m] = blocks[m]
<1> DEFINE Done(m) == Appended(m, FirstId(m, Appending))
<1>1. PICK l \in Layers : \E left \in AppendLeft(l, FirstId(l, Appending)) :
        blocks' = [m \in Layers |-> CASE m < l -> Done(m)
                                      [] m = l -> left[1]
                                      [] m > l -> blocks[m]]
  BY DEF AppendTokenFails
<1>2. PICK left : /\ left \in AppendLeft(l, FirstId(l, Appending))
                  /\ blocks' = [m \in Layers |-> CASE m < l -> Done(m)
                                                [] m = l -> left[1]
                                                [] m > l -> blocks[m]]
  BY <1>1
<1> DEFINE F(m) == CASE m < l -> Done(m)
                     [] m = l -> left[1]
                     [] m > l -> blocks[m]
<1>3. blocks' = [m \in Layers |-> F(m)]
  BY <1>2, Zenon
<1>4. blocks' = [m \in Layers |-> blocks'[m]] /\ \A m \in Layers : blocks'[m] = F(m)
  <2> HIDE DEF F
  <2> QED
    BY <1>3
<1>5. Layers \subseteq Int
  BY DEF Layers
<1>6. \A m \in Layers : \E i : Done(m) = Appended(m, i)
  OBVIOUS
<1>7. /\ blocks'[l] = left[1]
      /\ \A m \in Layers : /\ m < l => blocks'[m] = Done(m)
                           /\ m > l => blocks'[m] = blocks[m]
  <2> HIDE DEF Done
  <2> QED
    BY <1>4, <1>5
<1>8. \E id : left \in AppendLeft(l, id)
  BY <1>2, Zenon
<1> HIDE DEF Done
<1>9. QED
  BY <1>4, <1>6, <1>7, <1>8

LEMMA AppendTokenFailsFine == ASSUME IInv, AppendTokenFails PROVE IInv'
<1>1. seqLen' \in Nat /\ kind' = kind
  BY DEF IInv, AppendTokenFails
<1>2. ASSUME kind = "scored" PROVE FineTable(blocks')
  <2>1. PICK l \in Layers : \E id : \E left \in AppendLeft(l, id) :
          /\ blocks' = [m \in Layers |-> blocks'[m]]
          /\ blocks'[l] = left[1]
          /\ \A m \in Layers : /\ m < l => \E i : blocks'[m] = Appended(m, i)
                               /\ m > l => blocks'[m] = blocks[m]
    BY AppendTokenFailsSplit
  <2>2. ASSUME NEW m \in Layers
        PROVE  FineRow(blocks[m]) /\ \A i : FineRow(Appended(m, i))
    BY <1>2, AppendedRow DEF IInv, FineTable
  <2>3. FineRow(blocks'[l])
    BY <1>2, <2>1, AppendLeftFine DEF IInv
  <2>4. ASSUME NEW m \in Layers PROVE FineRow(blocks'[m])
    <3>1. m < l \/ m = l \/ m > l
      BY DEF Layers
    <3>2. QED
      BY <2>1, <2>2, <2>3, <3>1
  <2>5. QED
    BY <2>1, <2>4 DEF FineTable
<1>3. QED
  BY <1>1, <1>2 DEF IInv

-----------------------------------------------------------------------------
(* Reading, reporting, scheduling.                                         *)

LEMMA BuildFine == ASSUME IInv, Build PROVE IInv'
  BY PromotedTable DEF IInv, Build

LEMMA BuildFailsFine == ASSUME IInv, BuildFails PROVE IInv'
<1>1. seqLen' \in Nat /\ kind' = kind
  BY DEF IInv, BuildFails
<1>2. ASSUME kind = "scored" PROVE FineTable(blocks')
  <2>1. PICK x :
          blocks' = Changed(Changed(blocks, {y \in OffGpu : Earlier(y, x)}, Promoted),
                            {x}, PromotionFailed)
    BY DEF BuildFails
  <2>2. FineTable(Changed(blocks, {y \in OffGpu : Earlier(y, x)}, Promoted))
    BY <1>2, PromotedTable DEF IInv
  <2>3. "promote" \in Faults
    BY DEF BuildFails
  <2>4. QED
    BY <2>1, <2>2, <2>3, PromotionFailedTable
<1>3. QED
  BY <1>1, <1>2 DEF IInv

LEMMA BuildFailsLoadingFine == ASSUME IInv, BuildFailsLoading PROVE IInv'
<1>1. seqLen' \in Nat /\ kind' = kind
  BY DEF IInv, BuildFailsLoading
<1>2. ASSUME kind = "scored" PROVE FineTable(blocks')
  <2>1. PICK x : \E X :
          blocks' = Changed(Changed(blocks, {y \in OffGpu : Earlier(y, x)}, Promoted),
                            X, HalfLoaded)
    BY DEF BuildFailsLoading
  <2>2. FineTable(Changed(blocks, {y \in OffGpu : Earlier(y, x)}, Promoted))
    BY <1>2, PromotedTable DEF IInv
  <2>3. QED
    BY <2>1, <2>2, HalfLoadedTable
<1>3. QED
  BY <1>1, <1>2 DEF IInv

LEMMA ReportAttentionFine ==
  ASSUME IInv, NEW l \in Layers, ReportAttention(l) PROVE IInv'
<1>1. seqLen' \in Nat /\ kind' = kind
  BY DEF IInv, ReportAttention
<1>2. ASSUME kind = "scored" PROVE FineTable(blocks')
  <2> DEFINE bs == blocks[l]
             cs == [i \in 1 .. Len(bs) |-> [bs[i] EXCEPT !.access = @ + 1]]
  <2>1. FineRow(bs) /\ Len(bs) \in Nat /\ \A i \in 1 .. Len(bs) : Fine(bs[i])
    BY <1>2, RowElim DEF IInv, FineTable
  <2>2. \A b : Fine(b) => Fine([b EXCEPT !.access = @ + 1])
    BY DEF Fine, Rec, Fields
  <2>3. FineRow(cs)
    <3>1. cs = [i \in 1 .. Len(bs) |-> cs[i]] /\ \A i \in 1 .. Len(bs) : Fine(cs[i])
      BY <2>1, <2>2
    <3> HIDE DEF cs, bs
    <3>2. QED
      BY <2>1, <3>1, RowIntro
  <2>4. blocks' = [blocks EXCEPT ![l] = cs]
    BY DEF ReportAttention
  <2> HIDE DEF cs, bs
  <2>5. QED
    BY <1>2, <2>3, <2>4 DEF IInv, FineTable
<1>3. QED
  BY <1>1, <1>2 DEF IInv

\* The eviction takes blocks that are no sinks, and only under pressure.
LEMMA VictimsEvictable ==
  ASSUME FineTable(blocks), kind = "scored"
  PROVE  /\ Victims \subseteq Evictable
         /\ Victims = {} \/ (Victims = ColdestGpu /\ ~ 100 * OnGpu < 60 * Budget)
<1>1. OnGpu \in Nat
  BY OnGpuNat
<1>2. CASE 100 * OnGpu <= 85 * Budget
  <2>1. ~ 100 * OnGpu > 85 * Budget
    BY <1>1, <1>2
  <2>2. Victims = {}
    BY <1>2, <2>1 DEF Victims
  <2>3. QED
    BY <2>2
<1>3. CASE ~ 100 * OnGpu <= 85 * Budget
  <2>1. 100 * OnGpu > 85 * Budget /\ ~ 100 * OnGpu < 60 * Budget
    BY <1>1, <1>3
  <2>2. Victims = ColdestGpu
    BY <1>3, <2>1 DEF Victims
  <2>3. ColdestGpu \subseteq Evictable
    BY DEF ColdestGpu, Firsts
  <2>4. QED
    BY <2>1, <2>2, <2>3
<1>4. QED
  BY <1>2, <1>3

LEMMA EvictedTable ==
  ASSUME FineTable(blocks), kind = "scored"
  PROVE  FineTable(Evicted) /\ \A l \in Layers : Len(Evicted[l]) = Len(blocks[l])
<1>1. \A x \in Victims \cap Places(blocks) : ~ At(blocks, x).sink
  BY VictimsEvictable DEF Evictable
<1>2. QED
  BY <1>1, DemotedTable DEF Evicted

LEMMA SpilledInDram ==
  ASSUME NEW t
  PROVE  \A x \in Spilled(t) : x \in Places(t) /\ At(t, x).tier = "DRAM" /\ ~ At(t, x).sink
<1>1. Spilled(t) \subseteq Spillable(t)
  BY DEF Spilled, Firsts
<1>2. QED
  BY <1>1 DEF Spillable, On

LEMMA SpilledTable ==
  ASSUME NEW t, FineTable(t), NEW S, S \subseteq Spilled(t)
  PROVE  /\ FineTable(Changed(t, S, Saved))
         /\ \A l \in Layers : Len(Changed(t, S, Saved)[l]) = Len(t[l])
<1>1. \A x \in S \cap Places(t) : ~ At(t, x).sink
  BY SpilledInDram
<1>2. QED
  BY <1>1, SavedTable

LEMMA ScheduleFine == ASSUME IInv, Schedule PROVE IInv'
<1>1. seqLen' \in Nat /\ kind' = kind
  BY DEF IInv, Schedule
<1>2. ASSUME kind = "scored" PROVE FineTable(blocks')
  <2> DEFINE S == Spilled(Evicted)
             t2 == Changed(Evicted, S, Saved)
  <2>1. blocks' = Changed(t2, Warm(t2), Promoted)
    BY DEF Schedule
  <2>2. FineTable(t2)
    BY <1>2, EvictedTable, SpilledTable DEF IInv
  <2> HIDE DEF t2
  <2>3. QED
    BY <2>1, <2>2, PromotedTable
<1>3. QED
  BY <1>1, <1>2 DEF IInv

LEMMA ScheduleFailsDemotingFine == ASSUME IInv, ScheduleFailsDemoting PROVE IInv'
<1>1. seqLen' \in Nat /\ kind' = kind
  BY DEF IInv, ScheduleFailsDemoting
<1>2. ASSUME kind = "scored" PROVE FineTable(blocks')
  <2>1. PICK x : blocks' = Changed(blocks, {y \in Victims : Sooner(y, x)}, Demoted)
    BY DEF ScheduleFailsDemoting
  <2> DEFINE E == {y \in Victims : Sooner(y, x)}
  <2>2. \A y \in E \cap Places(blocks) : ~ At(blocks, y).sink
    BY <1>2, VictimsEvictable DEF Evictable, IInv
  <2>3. blocks' = Changed(blocks, E, Demoted)
    BY <2>1
  <2> HIDE DEF E
  <2>4. QED
    BY <1>2, <2>2, <2>3, DemotedTable DEF IInv
<1>3. QED
  BY <1>1, <1>2 DEF IInv

LEMMA ScheduleFailsSavingFine == ASSUME IInv, ScheduleFailsSaving PROVE IInv'
<1>1. seqLen' \in Nat /\ kind' = kind
  BY DEF IInv, ScheduleFailsSaving
<1>2. ASSUME kind = "scored" PROVE FineTable(blocks')
  <2>1. PICK x \in Spilled(Evicted) :
          blocks' = Changed(Evicted, {y \in Spilled(Evicted) : Colder(y, x)}, Saved)
    BY DEF ScheduleFailsSaving
  <2>2. QED
    BY <1>2, <2>1, EvictedTable, SpilledTable DEF IInv
<1>3. QED
  BY <1>1, <1>2 DEF IInv

LEMMA ScheduleFailsPromotingFine == ASSUME IInv, ScheduleFailsPromoting PROVE IInv'
<1>1. seqLen' \in Nat /\ kind' = kind
  BY DEF IInv, ScheduleFailsPromoting
<1>2. ASSUME kind = "scored" PROVE FineTable(blocks')
  <2> DEFINE S == Spilled(Evicted)
             t2 == Changed(Evicted, S, Saved)
  <2>1. PICK x \in Warm(t2) :
          blocks' = Changed(t2, {y \in Warm(t2) : Warmer(y, x)}, Promoted)
    BY DEF ScheduleFailsPromoting
  <2>2. FineTable(t2)
    BY <1>2, EvictedTable, SpilledTable DEF IInv
  <2> HIDE DEF t2
  <2>3. QED
    BY <2>1, <2>2, PromotedTable
<1>3. QED
  BY <1>1, <1>2 DEF IInv

-----------------------------------------------------------------------------
(* The invariant, and what follows from it.                                *)

LEMMA InitFine == Init => IInv
<1> SUFFICES ASSUME Init PROVE IInv
  OBVIOUS
<1>1. FineRow(<< >>)
  <2> DEFINE e == [i \in 1 .. 0 |-> i]
  <2>1. e = << >> /\ e = [i \in 1 .. 0 |-> e[i]] /\ \A i \in 1 .. 0 : Fine(e[i])
    OBVIOUS
  <2> HIDE DEF e
  <2>2. FineRow(e)
    BY <2>1, RowIntro
  <2>3. QED
    BY <2>1, <2>2
<1>2. FineTable(blocks)
  BY <1>1 DEF Init, FineTable
<1>3. QED
  BY <1>2 DEF Init, IInv

LEMMA NextFine == IInv /\ [Next]_vars => IInv'
<1> SUFFICES ASSUME IInv, [Next]_vars PROVE IInv'
  OBVIOUS
<1>1. CASE UNCHANGED vars
  BY <1>1 DEF IInv, vars
<1>2. CASE Next
  BY <1>2, ForwardFine, IngestFine, IngestFailsFine, AppendTokenFine, AppendTokenFailsFine,
     BuildFine, BuildFailsFine, BuildFailsLoadingFine, ReportAttentionFine,
     ScheduleFine, ScheduleFailsDemotingFine, ScheduleFailsSavingFine, ScheduleFailsPromotingFine DEF Next
<1>3. QED
  BY <1>1, <1>2

LEMMA SpecFine == Spec => []IInv
  BY InitFine, NextFine, PTL DEF Spec

\* For every table, block size, budget and fault: the block of a sink token
\* never leaves the GPU tier (SinksStay).
THEOREM SinksStayTheorem == Spec => []SinksStay
<1>1. IInv => SinksStay
  <2> SUFFICES ASSUME IInv, kind = "scored", NEW l \in Layers, NEW i \in 1 .. Len(blocks[l])
               PROVE  blocks[l][i].start < SinkTokens => blocks[l][i].tier = "GPU"
    BY DEF SinksStay
  <2>1. Fine(blocks[l][i])
    BY RowElim DEF IInv, FineTable
  <2>2. QED
    BY <2>1 DEF Fine
<1>2. QED
  BY <1>1, SpecFine, PTL

\* The C manager's tier of a block is the block's own (TierMirrored).
THEOREM TierMirroredTheorem == Spec => []TierMirrored
<1>1. IInv => TierMirrored
  <2> SUFFICES ASSUME IInv, kind = "scored", NEW l \in Layers, NEW i \in 1 .. Len(blocks[l])
               PROVE  LET b == blocks[l][i]
                      IN \/ b.sink \/ b.told = b.tier
                         \/ "promote" \in Faults /\ b.tier = "DRAM" /\ b.told = "SSD"
    BY DEF TierMirrored
  <2>1. Fine(blocks[l][i])
    BY RowElim DEF IInv, FineTable
  <2>2. QED
    BY <2>1 DEF Fine
<1>2. QED
  BY <1>1, SpecFine, PTL
-----------------------------------------------------------------------------
(* The order of the eviction.                                              *)

\* Every block on the GPU in t is there still in r.
Stays(t, r) == \A l \in Layers : \A i \in 1 .. Len(t[l]) :
                 t[l][i].tier = "GPU" => r[l][i].tier = "GPU"

LEMMA PromotedStays ==
  ASSUME NEW b, Fine(b), b.tier = "GPU"
  PROVE  Promoted(b) = b /\ PromotionFailed(b) = b /\ HalfLoaded(b) = b
  BY DEF Promoted, PromotionFailed, HalfLoaded

LEMMA ExtendedStays ==
  ASSUME NEW l \in Layers, FineTable(blocks), kind = "scored", NEW k \in Nat, NEW id,
         NEW i \in 1 .. Len(blocks[l])
  PROVE  Extended(l, k, id)[i] = blocks[l][i]
<1> DEFINE old == Managed(blocks[l])
           Pos(j) == old + (j - 1) * BlockSize
           Size(j) == IF seqLen - Pos(j) < BlockSize THEN seqLen - Pos(j) ELSE BlockSize
           Fresh(j) == NewBlock(id + j - 1, Pos(j), Size(j), Filled(Pos(j), Size(j)))
           new == [j \in 1 .. k |-> Fresh(j)]
           S == {Fresh(j) : j \in 1 .. k}
<1>1. Extended(l, k, id) = blocks[l] \o new
  BY DEF Extended
<1>2. PICK T : blocks[l] \in Seq(T)
  BY DEF FineTable, FineRow
<1>3. new \in Seq(S)
  <2> HIDE DEF Fresh
  <2>1. new \in [1 .. k -> S]
    OBVIOUS
  <2> HIDE DEF new, S
  <2>2. QED
    BY <2>1
<1> HIDE DEF new, S
<1>4. blocks[l] \in Seq(S \cup T) /\ new \in Seq(S \cup T)
  BY <1>2, <1>3
<1>5. (blocks[l] \o new)[i] = blocks[l][i]
  BY <1>4, ConcatProperties
<1>6. QED
  BY <1>1, <1>5

LEMMA AppendedStays ==
  ASSUME NEW l \in Layers, FineTable(blocks), kind = "scored", seqLen \in Nat, NEW id,
         NEW i \in 1 .. Len(blocks[l]), blocks[l][i].tier = "GPU"
  PROVE  Appended(l, id)[i].tier = "GPU"
<1> DEFINE bs == blocks[l]
           n == Len(bs)
<1>1. /\ FineRow(bs) /\ n \in Nat /\ DOMAIN bs = 1 .. n
      /\ Fine(bs[i])
  BY RowElim DEF FineTable
<1>2. CASE ~ Behind(l)
  <2>1. Appended(l, id) = bs
    BY <1>2 DEF Appended
  <2>2. QED
    BY <2>1
<1>3. CASE Behind(l) /\ HasRoom(l)
  <2>1. Appended(l, id) = [bs EXCEPT ![n] = WithToken(Promoted(bs[n]))]
    BY <1>3 DEF Appended, HasRoom
  <2>2. WithToken(Promoted(bs[i])).tier = "GPU"
    BY <1>1, PromotedStays DEF WithToken, Fine, Rec, Fields
  <2> HIDE DEF bs
  <2>3. QED
    BY <1>1, <2>1, <2>2 DEF bs
<1>4. CASE Behind(l) /\ ~ HasRoom(l) /\ bs = << >>
  BY <1>4
<1>5. CASE Behind(l) /\ ~ HasRoom(l) /\ bs # << >>
  <2> DEFINE c == NewBlock(id, Managed(bs), 1, [s \in Slots |-> IF s = 1 THEN seqLen ELSE 0])
  <2>1. Appended(l, id) = Append(bs, c)
    BY <1>5 DEF Appended, Opened
  <2>2. PICK T : bs \in Seq(T)
    BY <1>1 DEF FineRow
  <2> HIDE DEF bs, c
  <2>3. bs \in Seq(T \cup {c})
    BY <2>2
  <2>4. Append(bs, c)[i] = bs[i]
    BY <2>3, AppendProperties DEF bs
  <2>5. QED
    BY <2>1, <2>4 DEF bs
<1>6. QED
  BY <1>2, <1>3, <1>4, <1>5

LEMMA ForwardStays == ASSUME Forward PROVE Stays(blocks, blocks')
  BY DEF Forward, Stays

LEMMA IngestStays == ASSUME IInv, kind = "scored", Ingest PROVE Stays(blocks, blocks')
<1>1. ASSUME NEW l \in Layers PROVE \E id : blocks'[l] = Extended(l, NewBlocks[l], id)
  BY DEF Ingest
<1>2. \A l \in Layers : NewBlocks[l] \in Nat
  BY NewBlocksNat DEF IInv
<1>3. \A l \in Layers : \A i \in 1 .. Len(blocks[l]) : blocks'[l][i] = blocks[l][i]
  <2> SUFFICES ASSUME NEW l \in Layers, NEW i \in 1 .. Len(blocks[l])
               PROVE  blocks'[l][i] = blocks[l][i]
    OBVIOUS
  <2>1. PICK id : blocks'[l] = Extended(l, NewBlocks[l], id)
    BY <1>1
  <2>2. Extended(l, NewBlocks[l], id)[i] = blocks[l][i]
    BY <1>2, ExtendedStays DEF IInv
  <2>3. QED
    BY <2>1, <2>2
<1>4. QED
  BY <1>3, Zenon DEF Stays

LEMMA AppendTokenStays ==
  ASSUME IInv, kind = "scored", AppendToken PROVE Stays(blocks, blocks')
<1>1. ASSUME NEW l \in Layers PROVE \E id : blocks'[l] = Appended(l, id)
  BY DEF AppendToken
<1>2. QED
  BY <1>1, AppendedStays DEF IInv, Stays

LEMMA AppendTokenFailsStays ==
  ASSUME IInv, kind = "scored", "scored" \notin AllocMayFail, AppendTokenFails
  PROVE  Stays(blocks, blocks')
<1>1. PICK l \in Layers : \E id : \E left \in AppendLeft(l, id) :
        /\ blocks' = [m \in Layers |-> blocks'[m]]
        /\ blocks'[l] = left[1]
        /\ \A m \in Layers : /\ m < l => \E i : blocks'[m] = Appended(m, i)
                             /\ m > l => blocks'[m] = blocks[m]
  BY AppendTokenFailsSplit
<1>2. ASSUME NEW i \in 1 .. Len(blocks[l]), blocks[l][i].tier = "GPU"
      PROVE  blocks'[l][i].tier = "GPU"
  <2> DEFINE bs == blocks[l]
             n == Len(bs)
  <2>1. DOMAIN bs = 1 .. n /\ Fine(bs[i])
    BY RowElim DEF IInv, FineTable
  <2>2. \/ blocks'[l] = [bs EXCEPT ![n] = Promoted(bs[n])]
        \/ blocks'[l] = [bs EXCEPT ![n] = PromotionFailed(bs[n])]
        \/ blocks'[l] = [bs EXCEPT ![n] = HalfLoaded(bs[n])]
        \/ blocks'[l] = [bs EXCEPT ![n] = bs[n]]
    <3> DEFINE c == [bs EXCEPT ![n] = Promoted(bs[n])]
               d == [bs EXCEPT ![n] = PromotionFailed(bs[n])]
               e == [bs EXCEPT ![n] = HalfLoaded(bs[n])]
               f == [bs EXCEPT ![n] = bs[n]]
    <3>1. ASSUME NEW id, NEW left \in AppendLeft(l, id)
          PROVE  left = <<c, 0>> \/ left = <<d, 0>> \/ left = <<e, 0>> \/ left = <<f, 0>>
      BY <3>1, Zenon DEF AppendLeft
    <3> HIDE DEF c, d, e, f
    <3>2. blocks'[l] = c \/ blocks'[l] = d \/ blocks'[l] = e \/ blocks'[l] = f
      BY <1>1, <3>1
    <3>3. QED
      BY <3>2 DEF c, d, e, f
  <2>3. Promoted(bs[i]) = bs[i] /\ PromotionFailed(bs[i]) = bs[i] /\ HalfLoaded(bs[i]) = bs[i]
    BY <1>2, <2>1, PromotedStays
  <2> HIDE DEF bs
  <2>4. QED
    BY <1>2, <2>1, <2>2, <2>3 DEF bs
<1>3. ASSUME NEW m \in Layers, NEW i \in 1 .. Len(blocks[m]), blocks[m][i].tier = "GPU"
      PROVE  blocks'[m][i].tier = "GPU"
  <2>1. m < l \/ m = l \/ m > l
    BY DEF Layers
  <2>2. CASE m < l
    BY <1>1, <1>3, <2>2, AppendedStays DEF IInv
  <2>3. QED
    BY <1>1, <1>2, <1>3, <2>1, <2>2
<1>4. QED
  BY <1>3 DEF Stays

LEMMA PromotedTableStays ==
  ASSUME NEW t, FineTable(t), NEW X
  PROVE  /\ Stays(t, Changed(t, X, Promoted))
         /\ Stays(t, Changed(t, X, PromotionFailed))
         /\ Stays(t, Changed(t, X, HalfLoaded))
<1> SUFFICES ASSUME NEW l \in Layers, NEW i \in 1 .. Len(t[l]), t[l][i].tier = "GPU"
             PROVE  /\ Changed(t, X, Promoted)[l][i].tier = "GPU"
                    /\ Changed(t, X, PromotionFailed)[l][i].tier = "GPU"
                    /\ Changed(t, X, HalfLoaded)[l][i].tier = "GPU"
  BY Zenon DEF Stays
<1>1. Fine(t[l][i])
  BY RowElim DEF FineTable
<1>2. /\ Promoted(t[l][i]) = t[l][i] /\ PromotionFailed(t[l][i]) = t[l][i]
      /\ HalfLoaded(t[l][i]) = t[l][i]
  BY <1>1, PromotedStays
<1>3. /\ Changed(t, X, Promoted)[l][i] =
           IF <<l, i>> \in X THEN Promoted(t[l][i]) ELSE t[l][i]
      /\ Changed(t, X, PromotionFailed)[l][i] =
           IF <<l, i>> \in X THEN PromotionFailed(t[l][i]) ELSE t[l][i]
      /\ Changed(t, X, HalfLoaded)[l][i] =
           IF <<l, i>> \in X THEN HalfLoaded(t[l][i]) ELSE t[l][i]
  BY DEF Changed
<1>4. QED
  BY <1>2, <1>3

LEMMA BuildStays ==
  ASSUME IInv, kind = "scored", Build PROVE Stays(blocks, blocks')
  BY PromotedTableStays DEF IInv, Build

LEMMA BuildFailsStays ==
  ASSUME IInv, kind = "scored", BuildFails PROVE Stays(blocks, blocks')
<1>1. PICK x :
        blocks' = Changed(Changed(blocks, {y \in OffGpu : Earlier(y, x)}, Promoted),
                          {x}, PromotionFailed)
  BY DEF BuildFails
<1> DEFINE t == Changed(blocks, {y \in OffGpu : Earlier(y, x)}, Promoted)
<1>2. FineTable(t) /\ \A l \in Layers : Len(t[l]) = Len(blocks[l])
  BY PromotedTable DEF IInv
<1>3. Stays(blocks, t)
  BY PromotedTableStays DEF IInv
<1>4. blocks' = Changed(t, {x}, PromotionFailed)
  BY <1>1
<1> HIDE DEF t
<1>5. Stays(t, blocks')
  BY <1>2, <1>4, PromotedTableStays
<1>6. QED
  BY <1>2, <1>3, <1>5 DEF Stays

LEMMA BuildFailsLoadingStays ==
  ASSUME IInv, kind = "scored", BuildFailsLoading PROVE Stays(blocks, blocks')
<1>1. PICK x : \E X :
        blocks' = Changed(Changed(blocks, {y \in OffGpu : Earlier(y, x)}, Promoted),
                          X, HalfLoaded)
  BY DEF BuildFailsLoading
<1> DEFINE t == Changed(blocks, {y \in OffGpu : Earlier(y, x)}, Promoted)
<1>2. FineTable(t) /\ \A l \in Layers : Len(t[l]) = Len(blocks[l])
  BY PromotedTable DEF IInv
<1>3. Stays(blocks, t)
  BY PromotedTableStays DEF IInv
<1>4. PICK X : blocks' = Changed(t, X, HalfLoaded)
  BY <1>1
<1> HIDE DEF t
<1>5. Stays(t, blocks')
  BY <1>2, <1>4, PromotedTableStays
<1>6. QED
  BY <1>2, <1>3, <1>5 DEF Stays

LEMMA ReportAttentionStays ==
  ASSUME IInv, NEW l \in Layers, ReportAttention(l) PROVE Stays(blocks, blocks')
<1> SUFFICES ASSUME NEW m \in Layers, NEW i \in 1 .. Len(blocks[m]), blocks[m][i].tier = "GPU"
             PROVE  blocks'[m][i].tier = "GPU"
  BY DEF Stays
<1>1. kind = "scored" /\ FineTable(blocks)
  BY DEF ReportAttention, IInv
<1>2. Fine(blocks[m][i])
  BY <1>1, RowElim DEF FineTable
<1>3. CASE m = l
  <2>1. blocks'[m][i] = [blocks[m][i] EXCEPT !.access = @ + 1]
    BY <1>1, <1>3 DEF ReportAttention, FineTable
  <2>2. QED
    BY <1>2, <2>1 DEF Fine, Rec, Fields
<1>4. CASE m # l
  BY <1>1, <1>4 DEF ReportAttention, FineTable
<1>5. QED
  BY <1>3, <1>4
LEMMA FineAt ==
  ASSUME NEW t, FineTable(t), NEW x \in Places(t) PROVE Fine(At(t, x))
<1>1. PICK l \in Layers : \E i \in 1 .. Len(t[l]) : x = <<l, i>>
  BY DEF Places
<1>2. \A i \in 1 .. Len(t[l]) : Fine(t[l][i])
  BY RowElim DEF FineTable
<1>3. QED
  BY <1>1, <1>2 DEF At

\* A block with a colder or equal one among the first k in a finite order is
\* among them: the coldest candidates go first.
LEMMA ColdestFirst ==
  ASSUME FineTable(blocks), NEW x \in ColdestGpu, NEW y \in Evictable \ ColdestGpu
  PROVE  At(blocks, x).access <= At(blocks, y).access
<1> DEFINE k == Least(Excess, MaxEvict)
           Below(z) == {w \in Evictable : Colder(w, z)}
<1>1. k \in Int
  <2>1. OnGpu \in Nat
    BY OnGpuNat
  <2>2. (70 * Budget) \div 100 \in Int
    OBVIOUS
  <2>3. Excess \in Int
    BY <2>1, <2>2 DEF Excess
  <2>4. QED
    BY <2>3 DEF Least
<1>2. Evictable \subseteq Places(blocks) /\ x \in Evictable
  BY DEF Evictable, On, ColdestGpu, Firsts
<1>3. \A z \in Evictable : At(blocks, z).access \in Nat
  <2> SUFFICES ASSUME NEW z \in Evictable PROVE At(blocks, z).access \in Nat
    OBVIOUS
  <2>1. Fine(At(blocks, z))
    BY <1>2, FineAt
  <2>2. QED
    BY <2>1 DEF Fine
<1>4. ASSUME ~ At(blocks, x).access <= At(blocks, y).access PROVE FALSE
  <2>1. At(blocks, y).access < At(blocks, x).access
    BY <1>2, <1>3, <1>4
  <2>2. Below(y) \subseteq Below(x)
    <3> SUFFICES ASSUME NEW w \in Evictable, Colder(w, y) PROVE Colder(w, x)
      OBVIOUS
    <3>1. At(blocks, w).access <= At(blocks, y).access
      BY <1>3 DEF Colder
    <3>2. At(blocks, w).access < At(blocks, x).access
      BY <1>2, <1>3, <2>1, <3>1
    <3>3. QED
      BY <3>2 DEF Colder
  <2>3. IsFiniteSet(Below(x))
    <3>1. Below(x) \subseteq On(blocks, "GPU")
      BY DEF Evictable
    <3>2. QED
      BY <3>1, OnFinite, FS_Subset
  <2>4. Cardinality(Below(y)) <= Cardinality(Below(x)) /\ Cardinality(Below(x)) \in Nat
        /\ Cardinality(Below(y)) \in Nat
    <3> HIDE DEF Below
    <3>1. IsFiniteSet(Below(y))
      BY <2>2, <2>3, FS_Subset
    <3>2. QED
      BY <2>2, <2>3, <3>1, FS_Subset, FS_CardinalityType
  <2>5. Cardinality(Below(x)) < k
    BY DEF ColdestGpu, Firsts
  <2>6. ~ Cardinality(Below(y)) < k
    BY DEF ColdestGpu, Firsts
  <2> HIDE DEF Below, k
  <2>7. QED
    BY <1>1, <2>4, <2>5, <2>6
<1>5. QED
  BY <1>4

\* The tables the three passes of schedule go through, block by block.
LEMMA DemotedAt ==
  ASSUME NEW t, NEW X, NEW x \in Places(t)
  PROVE  /\ x \in X => At(Changed(t, X, Demoted), x) = Demoted(At(t, x))
         /\ x \notin X => At(Changed(t, X, Demoted), x) = At(t, x)
<1>1. PICK l \in Layers : \E i \in 1 .. Len(t[l]) : x = <<l, i>>
  BY DEF Places
<1>2. QED
  BY <1>1 DEF At, Changed

LEMMA SavedAt ==
  ASSUME NEW t, NEW X, NEW x \in Places(t)
  PROVE  /\ x \in X => At(Changed(t, X, Saved), x) = Saved(At(t, x))
         /\ x \notin X => At(Changed(t, X, Saved), x) = At(t, x)
<1>1. PICK l \in Layers : \E i \in 1 .. Len(t[l]) : x = <<l, i>>
  BY DEF Places
<1>2. QED
  BY <1>1 DEF At, Changed

LEMMA PromotedAt ==
  ASSUME NEW t, NEW X, NEW x \in Places(t)
  PROVE  /\ x \in X => At(Changed(t, X, Promoted), x) = Promoted(At(t, x))
         /\ x \notin X => At(Changed(t, X, Promoted), x) = At(t, x)
<1>1. PICK l \in Layers : \E i \in 1 .. Len(t[l]) : x = <<l, i>>
  BY DEF Places
<1>2. QED
  BY <1>1 DEF At, Changed

LEMMA SamePlaces ==
  ASSUME NEW t, NEW r, \A l \in Layers : Len(r[l]) = Len(t[l]) PROVE Places(r) = Places(t)
  BY DEF Places

\* What is on the GPU after an eviction and a spill, and what no longer is.
LEMMA EvictionOrder ==
  ASSUME FineTable(blocks), kind = "scored", "scored" \notin AllocMayFail,
         NEW S, S \subseteq Spilled(Evicted), NEW x \in Places(blocks), NEW y \in Places(blocks),
         At(blocks, x).tier = "GPU", At(Changed(Evicted, S, Saved), x).tier # "GPU"
  PROVE  /\ x \in Victims
         /\ ~ At(blocks, y).sink /\ At(Changed(Evicted, S, Saved), y).tier = "GPU"
            => At(blocks, x).access <= At(blocks, y).access
<1> DEFINE t1 == Evicted
           t2 == Changed(t1, S, Saved)
<1>1. FineTable(t1) /\ Places(t1) = Places(blocks)
  BY EvictedTable, SamePlaces
<1>2. \A z \in Places(blocks) :
        /\ z \in Victims => At(t1, z) = Demoted(At(blocks, z))
        /\ z \notin Victims => At(t1, z) = At(blocks, z)
        /\ z \in S => At(t2, z) = Saved(At(t1, z))
        /\ z \notin S => At(t2, z) = At(t1, z)
  <2> SUFFICES ASSUME NEW z \in Places(blocks)
               PROVE  /\ z \in Victims => At(t1, z) = Demoted(At(blocks, z))
                      /\ z \notin Victims => At(t1, z) = At(blocks, z)
                      /\ z \in S => At(t2, z) = Saved(At(t1, z))
                      /\ z \notin S => At(t2, z) = At(t1, z)
    BY Zenon
  <2>1. /\ z \in Victims => At(t1, z) = Demoted(At(blocks, z))
        /\ z \notin Victims => At(t1, z) = At(blocks, z)
    BY DemotedAt, Zenon DEF Evicted
  <2> HIDE DEF t1
  <2>2. /\ z \in S => At(t2, z) = Saved(At(t1, z))
        /\ z \notin S => At(t2, z) = At(t1, z)
    BY <1>1, SavedAt, Zenon
  <2>3. QED
    BY <2>1, <2>2, Zenon
<1>3. \A z \in S : At(t1, z).tier = "DRAM"
  BY SpilledInDram
<1>4. \A z \in Places(blocks) : Fine(At(blocks, z)) /\ Fine(At(t1, z))
  BY <1>1, FineAt
<1> HIDE DEF t1, t2
<1>5. x \in Victims
  <2>1. ASSUME x \notin Victims PROVE FALSE
    <3>1. At(t1, x) = At(blocks, x)
      BY <1>2, <2>1
    <3>2. x \notin S
      BY <1>3, <3>1
    <3>3. At(t2, x) = At(blocks, x)
      BY <1>2, <3>1, <3>2
    <3>4. QED
      BY <3>3 DEF t1, t2
  <2>2. QED
    BY <2>1
<1>6. ASSUME ~ At(blocks, y).sink, At(t2, y).tier = "GPU"
      PROVE  y \in Evictable /\ y \notin Victims
  <2>1. y \notin S
    <3>1. ASSUME y \in S PROVE FALSE
      <4>1. At(t2, y) = Saved(At(t1, y))
        BY <1>2, <3>1
      <4>2. At(t2, y).tier = "SSD"
        BY <1>4, <4>1 DEF Saved, Fine, Rec, Fields
      <4>3. QED
        BY <1>6, <4>2
    <3>2. QED
      BY <3>1
  <2>2. At(t1, y).tier = "GPU"
    BY <1>2, <1>6, <2>1
  <2>3. y \notin Victims
    <3>1. ASSUME y \in Victims PROVE FALSE
      <4>1. At(blocks, y).tier = "GPU" /\ At(blocks, y).gpu # NoData
        BY <1>4, <3>1, VictimsEvictable DEF Evictable, On, Fine
      <4>2. At(t1, y) = Demoted(At(blocks, y)) /\ Fine(At(blocks, y))
        BY <1>2, <1>4, <3>1
      <4>3. \A b : Fine(b) /\ b.tier = "GPU" /\ b.gpu # NoData => Demoted(b).tier = "DRAM"
        BY DEF Demoted, Fine, Rec, Fields
      <4>4. QED
        BY <2>2, <4>1, <4>2, <4>3
    <3>2. QED
      BY <3>1
  <2>4. At(blocks, y).tier = "GPU" /\ At(blocks, y).gpu # NoData
    BY <1>2, <1>4, <2>2, <2>3 DEF Fine
  <2>5. y \in Evictable
    BY <1>6, <2>4 DEF Evictable, On, Phantoms
  <2>6. QED
    BY <2>3, <2>5
<1>7. Victims = ColdestGpu
  BY <1>5, VictimsEvictable
<1>8. QED
  BY <1>5, <1>6, <1>7, ColdestFirst DEF t1, t2

\* Under the pressure that evicts, schedule promotes nothing.
LEMMA WarmOrVictims ==
  ASSUME FineTable(blocks), kind = "scored", NEW t, Victims # {} PROVE Warm(t) = {}
  BY VictimsEvictable DEF Warm

\* The step property of ColdGoFirst.
ColdStep ==
  kind = "scored" =>
    \A x, y \in Places(blocks) :
      /\ At(blocks, x).tier = "GPU" /\ At(blocks', x).tier # "GPU"
      /\ At(blocks', y).tier = "GPU" /\ ~ At(blocks, y).sink
      => At(blocks, x).access <= At(blocks, y).access

LEMMA StaysCold == ASSUME Stays(blocks, blocks') PROVE ColdStep
<1>1. \A x \in Places(blocks) : At(blocks, x).tier = "GPU" => At(blocks', x).tier = "GPU"
  <2> SUFFICES ASSUME NEW x \in Places(blocks), At(blocks, x).tier = "GPU"
               PROVE  At(blocks', x).tier = "GPU"
    OBVIOUS
  <2>1. PICK l \in Layers : \E i \in 1 .. Len(blocks[l]) : x = <<l, i>>
    BY DEF Places
  <2>2. QED
    BY <2>1 DEF At, Stays
<1>2. QED
  BY <1>1 DEF ColdStep

\* An eviction, a spill of S and a promotion of W, of which schedule completes
\* some or all.
LEMMA ScheduledCold ==
  ASSUME IInv, "scored" \notin AllocMayFail, NEW S, S \subseteq Spilled(Evicted),
         NEW W, W \subseteq Warm(Changed(Evicted, S, Saved)),
         \/ blocks' = Changed(Changed(Evicted, S, Saved), W, Promoted)
         \/ blocks' = Changed(Evicted, S, Saved)
  PROVE  ColdStep
<1> SUFFICES ASSUME kind = "scored", NEW x \in Places(blocks), NEW y \in Places(blocks),
                    At(blocks, x).tier = "GPU", At(blocks', x).tier # "GPU",
                    At(blocks', y).tier = "GPU", ~ At(blocks, y).sink
             PROVE  At(blocks, x).access <= At(blocks, y).access
  BY Zenon DEF ColdStep
<1> DEFINE t2 == Changed(Evicted, S, Saved)
<1>1. FineTable(blocks)
  BY DEF IInv
<1>2. FineTable(t2) /\ Places(t2) = Places(blocks)
  BY <1>1, EvictedTable, SpilledTable, SamePlaces
<1>3. \A z \in Places(blocks) :
        \/ At(blocks', z) = At(t2, z)
        \/ z \in W /\ At(blocks', z) = Promoted(At(t2, z))
  <2> SUFFICES ASSUME NEW z \in Places(blocks)
               PROVE  \/ At(blocks', z) = At(t2, z)
                      \/ z \in W /\ At(blocks', z) = Promoted(At(t2, z))
    OBVIOUS
  <2>1. blocks' = Changed(t2, W, Promoted) \/ blocks' = t2
    OBVIOUS
  <2> HIDE DEF t2
  <2>2. /\ z \in W => At(Changed(t2, W, Promoted), z) = Promoted(At(t2, z))
        /\ z \notin W => At(Changed(t2, W, Promoted), z) = At(t2, z)
    BY <1>2, PromotedAt, Zenon
  <2>3. QED
    BY <2>1, <2>2
<1> HIDE DEF t2
<1>4. At(t2, x).tier # "GPU"
  <2>1. Fine(At(t2, x))
    BY <1>2, FineAt
  <2>2. QED
    BY <1>3, <2>1, PromotedStays
<1>5. x \in Victims
  BY <1>1, <1>4, EvictionOrder DEF t2
<1>6. W = {}
  BY <1>1, <1>5, WarmOrVictims DEF t2
<1>7. At(t2, y).tier = "GPU"
  BY <1>3, <1>6
<1>8. QED
  BY <1>1, <1>4, <1>7, EvictionOrder DEF t2

\* An eviction that stops at the victim v has taken those before it.
LEMMA StoppedCold ==
  ASSUME IInv, "scored" \notin AllocMayFail, ScheduleFailsDemoting PROVE ColdStep
<1> SUFFICES ASSUME kind = "scored", NEW x \in Places(blocks), NEW y \in Places(blocks),
                    At(blocks, x).tier = "GPU", At(blocks', x).tier # "GPU",
                    At(blocks', y).tier = "GPU", ~ At(blocks, y).sink
             PROVE  At(blocks, x).access <= At(blocks, y).access
  BY Zenon DEF ColdStep
<1>1. FineTable(blocks)
  BY DEF IInv
<1>2. PICK v \in Victims : blocks' = Changed(blocks, {z \in Victims : Sooner(z, v)}, Demoted)
  BY DEF ScheduleFailsDemoting
<1> DEFINE E == {z \in Victims : Sooner(z, v)}
<1>3. E \subseteq Victims /\ blocks' = Changed(blocks, E, Demoted)
      /\ \A z \in Victims : z \in E <=> Colder(z, v)
  BY <1>2 DEF Sooner
<1> HIDE DEF E
<1>4. \A z \in Places(blocks) : /\ z \in E => At(blocks', z) = Demoted(At(blocks, z))
                                /\ z \notin E => At(blocks', z) = At(blocks, z)
  BY <1>3, DemotedAt, Zenon
<1>5. Victims = ColdestGpu /\ Victims \subseteq Evictable /\ Evictable \subseteq Places(blocks)
  BY <1>1, <1>2, VictimsEvictable DEF Evictable, On
<1>6. \A z \in Places(blocks) : Fine(At(blocks, z)) /\ At(blocks, z).access \in Nat
  BY <1>1, FineAt DEF Fine
<1>7. x \in E
  BY <1>4
<1>8. y \notin E
  <2>1. ASSUME y \in E PROVE FALSE
    <3>1. At(blocks, y).tier = "GPU" /\ At(blocks, y).gpu # NoData
      BY <1>3, <1>5, <1>6, <2>1 DEF Evictable, On, Fine
    <3>2. \A b : Fine(b) /\ b.tier = "GPU" /\ b.gpu # NoData => Demoted(b).tier = "DRAM"
      BY DEF Demoted, Fine, Rec, Fields
    <3>3. QED
      BY <1>4, <1>6, <2>1, <3>1, <3>2
  <2>2. QED
    BY <2>1
<1>9. y \in Evictable
  <2>1. At(blocks, y).tier = "GPU" /\ At(blocks, y).gpu # NoData
    BY <1>4, <1>6, <1>8 DEF Fine
  <2>2. QED
    BY <2>1 DEF Evictable, On, Phantoms
<1>10. CASE y \notin ColdestGpu
  BY <1>1, <1>3, <1>5, <1>7, <1>9, <1>10, ColdestFirst
<1>11. CASE y \in ColdestGpu
  <2>1. Colder(x, v) /\ ~ Colder(y, v)
    BY <1>3, <1>5, <1>7, <1>8, <1>11
  <2>2. v \in Places(blocks)
    BY <1>5
  <2>3. At(blocks, x).access <= At(blocks, v).access
    BY <1>6, <2>1, <2>2 DEF Colder
  <2>4. At(blocks, v).access <= At(blocks, y).access
    BY <1>6, <2>1, <2>2 DEF Colder
  <2>5. QED
    BY <1>6, <2>2, <2>3, <2>4
<1>12. QED
  BY <1>10, <1>11

\* For every table, budget and fault, as long as the GPU has room for the
\* blocks it is asked for: no call takes a block off the GPU and leaves a
\* colder one that is no sink (ColdGoFirst).
THEOREM ColdGoFirstTheorem ==
  ASSUME "scored" \notin AllocMayFail PROVE Spec => ColdGoFirst
<1>1. IInv /\ [Next]_vars => [ColdStep]_vars
  <2> SUFFICES ASSUME IInv, Next, kind = "scored" PROVE ColdStep
    BY DEF ColdStep
  <2>1. CASE Forward
    BY <2>1, ForwardStays, StaysCold
  <2>2. CASE Ingest
    BY <2>2, IngestStays, StaysCold
  <2>3. CASE IngestFails
    BY <2>3 DEF IngestFails
  <2>4. CASE AppendToken
    BY <2>4, AppendTokenStays, StaysCold
  <2>5. CASE AppendTokenFails
    BY <2>5, AppendTokenFailsStays, StaysCold
  <2>6. CASE Build
    BY <2>6, BuildStays, StaysCold
  <2>7. CASE BuildFails
    BY <2>7, BuildFailsStays, StaysCold
  <2>8. CASE \E l \in Layers : ReportAttention(l)
    BY <2>8, ReportAttentionStays, StaysCold
  <2>9. CASE Schedule
    BY <2>9, ScheduledCold DEF Schedule
  <2>10. CASE ScheduleFailsSaving
    <3>1. PICK x \in Spilled(Evicted) :
            blocks' = Changed(Evicted, {y \in Spilled(Evicted) : Colder(y, x)}, Saved)
      BY <2>10 DEF ScheduleFailsSaving
    <3>2. QED
      BY <3>1, ScheduledCold
  <2>11. CASE ScheduleFailsPromoting
    <3> DEFINE t2 == Changed(Evicted, Spilled(Evicted), Saved)
    <3>1. PICK x \in Warm(t2) :
            blocks' = Changed(t2, {y \in Warm(t2) : Warmer(y, x)}, Promoted)
      BY <2>11 DEF ScheduleFailsPromoting
    <3>2. QED
      BY <3>1, ScheduledCold
  <2>12. CASE BuildFailsLoading
    BY <2>12, BuildFailsLoadingStays, StaysCold
  <2>13. CASE ScheduleFailsDemoting
    BY <2>13, StoppedCold
  <2>14. QED
    BY <2>1, <2>2, <2>3, <2>4, <2>5, <2>6, <2>7, <2>8, <2>9, <2>10, <2>11, <2>12, <2>13 DEF Next
<1>2. QED
  BY <1>1, SpecFine, PTL DEF Spec, ColdGoFirst, ColdStep

-----------------------------------------------------------------------------
(* The data.                                                               *)

HIDE PagedConstantsOK DEF PagedConstantsOK

LEMMA Sizes ==
  /\ BlockSize \in Nat /\ BlockSize > 0
  /\ NLayers \in Nat /\ NLayers > 0
  /\ MaxTokens \in Nat /\ MaxIds \in Nat /\ MaxAccess \in Nat
BY PagedConstantsOK DEF PagedConstantsOK

\* The least member of a set of natural numbers: what stands in for induction.
LEMMA LeastNatural ==
  ASSUME NEW T \in SUBSET Nat, T # {}
  PROVE  \E m \in T : \A k \in T : m <= k
<1> DEFINE R == OpToRel(<, Nat)
<1>1. IsWellFoundedOn(R, Nat)
  BY NatLessThanWellFounded
<1>2. \A x, y \in Nat : y < x => <<y, x>> \in R
  BY DEF OpToRel
<1> HIDE DEF R
<1>3. PICK m \in T : \A k \in T : ~ (<<k, m>> \in R)
  BY <1>1, WFMin
<1>4. \A k \in T : ~ (k < m)
  BY <1>2, <1>3, Zenon
<1>5. QED
  BY <1>4

\* d holds the tokens of block b.
Holds(b, d) == d \in Tensors /\ \A s \in 1 .. b.count : d[s] = b.start + s

\* Listed on the GPU by a call that could not get its tensor.
Hollow(b) == kind = "scored" /\ "scored" \in AllocMayFail /\ b.gpu = NoData

\* The copy of the block that counts holds its tokens; fs are the files.
Sound(b, fs) ==
  /\ b \in Block /\ b.count # 0
  /\ b.tier = "GPU" => Holds(b, b.gpu) \/ Hollow(b)
  /\ b.tier = "DRAM" => Holds(b, b.dram)
  /\ b.tier = "SSD" => b.saved /\ Holds(b, fs[b.id])

\* c is block b, wherever it lies.
Same(b, c) == c.id = b.id /\ c.start = b.start /\ c.count = b.count

LEMMA TensorIsData == ASSUME NEW d \in Tensors PROVE d # NoData /\ d # NoFile /\ d \in Copies
<1>1. 1 \in Slots
  BY Sizes DEF Slots
<1>2. DOMAIN d = Slots
  BY DEF Tensors
<1>3. QED
  BY <1>1, <1>2 DEF NoData, NoFile, Copies

LEMMA DemotedSound ==
  ASSUME NEW b, NEW fs, Sound(b, fs) PROVE Sound(Demoted(b), fs) /\ Same(b, Demoted(b))
<1>1. CASE b.tier = "GPU" /\ b.gpu # NoData
  <2> DEFINE c == [b EXCEPT !.dram = b.gpu, !.gpu = NoData, !.tier = "DRAM", !.told = "DRAM"]
  <2>1. Demoted(b) = c
    BY <1>1 DEF Demoted
  <2>2. Holds(b, b.gpu)
    BY <1>1 DEF Sound, Hollow
  <2>3. /\ c \in Block /\ Same(b, c) /\ c.tier = "DRAM" /\ c.dram = b.gpu
    BY <2>2, TensorIsData DEF Sound, Block, Same, Tiers, Copies, Holds
  <2> HIDE DEF c
  <2>4. QED
    BY <2>1, <2>2, <2>3 DEF Sound, Holds, Same
<1>2. CASE ~ (b.tier = "GPU" /\ b.gpu # NoData)
  BY <1>2 DEF Demoted, Same
<1>3. QED
  BY <1>1, <1>2

\* A block in DRAM on its way up.
LEMMA RaisedSound ==
  ASSUME NEW b, NEW fs, Sound(b, fs), b.tier = "DRAM"
  PROVE  Sound(Promoted(b), fs) /\ Same(b, Promoted(b))
<1> DEFINE c == [b EXCEPT !.gpu = b.dram, !.tier = "GPU", !.told = "GPU"]
<1>1. Holds(b, b.dram) /\ b.dram # NoData
  BY TensorIsData DEF Sound, Holds
<1>2. Promoted(b) = c
  BY <1>1 DEF Promoted
<1>3. c \in Block /\ Same(b, c) /\ c.tier = "GPU" /\ c.gpu = b.dram
  BY <1>1, TensorIsData DEF Sound, Block, Same, Tiers, Copies, Holds
<1> HIDE DEF c
<1>4. QED
  BY <1>1, <1>2, <1>3 DEF Sound, Holds, Same

LEMMA LoadedSound ==
  ASSUME NEW b, Sound(b, files), b.tier = "SSD"
  PROVE  Sound(Loaded(b), files) /\ Same(b, Loaded(b)) /\ Loaded(b).tier = "DRAM"
<1> DEFINE c == [b EXCEPT !.dram = files[b.id], !.tier = "DRAM"]
<1>1. Holds(b, files[b.id]) /\ b.saved /\ files[b.id] # NoFile
  BY TensorIsData DEF Sound, Holds
<1>2. Loaded(b) = c
  BY <1>1 DEF Loaded
<1>3. c \in Block /\ Same(b, c) /\ c.tier = "DRAM" /\ c.dram = files[b.id]
  BY <1>1, TensorIsData DEF Sound, Block, Same, Tiers, Copies, Holds
<1> HIDE DEF c
<1>4. QED
  BY <1>1, <1>2, <1>3 DEF Sound, Holds, Same

LEMMA PromotedSound ==
  ASSUME NEW b, Sound(b, files)
  PROVE  /\ Sound(Promoted(b), files) /\ Same(b, Promoted(b))
         /\ Sound(PromotionFailed(b), files) /\ Same(b, PromotionFailed(b))
<1>1. CASE b.tier = "SSD"
  <2> DEFINE c == Loaded(b)
  <2>1. Sound(c, files) /\ Same(b, c) /\ c.tier = "DRAM"
    BY <1>1, LoadedSound
  <2>2. Promoted(b) = Promoted(c) /\ PromotionFailed(b) = c
    <3> HIDE DEF c
    <3>1. c.tier # "SSD"
      BY <2>1
    <3>2. Promoted(c) = IF c.tier = "DRAM" /\ c.dram # NoData
                        THEN [c EXCEPT !.gpu = c.dram, !.tier = "GPU", !.told = "GPU"] ELSE c
      BY <3>1 DEF Promoted
    <3>3. QED
      BY <1>1, <3>2 DEF Promoted, PromotionFailed, c
  <2> HIDE DEF c
  <2>3. Sound(Promoted(c), files) /\ Same(c, Promoted(c))
    BY <2>1, RaisedSound
  <2>4. QED
    BY <2>1, <2>2, <2>3 DEF Same
<1>2. CASE b.tier = "DRAM"
  BY <1>2, RaisedSound DEF PromotionFailed, Same
<1>3. CASE b.tier = "GPU"
  BY <1>3 DEF Promoted, PromotionFailed, Same
<1>4. b.tier \in Tiers
  BY DEF Sound, Block
<1>5. QED
  BY <1>1, <1>2, <1>3, <1>4 DEF Tiers

LEMMA HalfLoadedSound ==
  ASSUME NEW b, Sound(b, files) PROVE Sound(HalfLoaded(b), files) /\ Same(b, HalfLoaded(b))
<1>1. CASE b.tier = "SSD"
  <2> DEFINE c == [b EXCEPT !.dram = files[b.id]]
  <2>1. Holds(b, files[b.id]) /\ b.saved /\ files[b.id] # NoFile
    BY <1>1, TensorIsData DEF Sound, Holds
  <2>2. HalfLoaded(b) = c
    BY <1>1, <2>1 DEF HalfLoaded
  <2>3. c \in Block /\ Same(b, c) /\ c.tier = "SSD" /\ c.saved
    BY <1>1, <2>1, TensorIsData DEF Sound, Block, Same, Tiers, Copies, Holds
  <2> HIDE DEF c
  <2>4. QED
    BY <2>1, <2>2, <2>3 DEF Sound, Holds, Same
<1>2. CASE b.tier # "SSD"
  BY <1>2 DEF HalfLoaded, Same
<1>3. QED
  BY <1>1, <1>2

LEMMA SavedSound ==
  ASSUME NEW b, NEW fs, NEW gs, Sound(b, fs), b.tier = "DRAM", gs[b.id] = b.dram
  PROVE  Sound(Saved(b), gs) /\ Same(b, Saved(b))
<1> DEFINE c == Saved(b)
<1>1. Holds(b, gs[b.id])
  BY DEF Sound
<1>2. c \in Block /\ Same(b, c) /\ c.tier = "SSD" /\ c.saved
  BY DEF Sound, Block, Same, Tiers, Copies, Saved
<1> HIDE DEF c
<1>3. QED
  BY <1>1, <1>2 DEF Sound, Holds, Same, c

\* A file counts for a block on the SSD only.
LEMMA OtherFiles ==
  ASSUME NEW b, NEW fs, NEW gs, Sound(b, fs), b.tier = "SSD" => gs[b.id] = fs[b.id]
  PROVE  Sound(b, gs)
  BY DEF Sound

-----------------------------------------------------------------------------
(* Sums, counted as pairs.                                                 *)

\* f[1] + ... + f[i], for a function f into 0 .. k.
Pairs(f, i, k) == {x \in (1 .. i) \X (1 .. k) : x[2] <= f[x[1]]}

LEMMA PairsFinite ==
  ASSUME NEW f, NEW i \in Nat, NEW k \in Nat
  PROVE  IsFiniteSet(Pairs(f, i, k)) /\ Cardinality(Pairs(f, i, k)) \in Nat
<1>1. IsFiniteSet(1 .. i) /\ IsFiniteSet(1 .. k)
  BY FS_Interval
<1>2. IsFiniteSet((1 .. i) \X (1 .. k))
  BY <1>1, FS_Product
<1>3. QED
  BY <1>2, FS_Subset, FS_CardinalityType DEF Pairs

LEMMA PairsNone == ASSUME NEW f, NEW k PROVE Cardinality(Pairs(f, 0, k)) = 0
<1>1. Pairs(f, 0, k) = {}
  BY DEF Pairs
<1>2. QED
  BY <1>1, FS_EmptySet, Zenon

LEMMA PairsStep ==
  ASSUME NEW f, NEW k \in Nat, NEW i \in Nat \ {0}, f[i] \in 0 .. k
  PROVE  Cardinality(Pairs(f, i, k)) = Cardinality(Pairs(f, i - 1, k)) + f[i]
<1> DEFINE new == {i} \X (1 .. f[i])
           c == f[i]
<1>0. c \in Nat /\ c <= k
  OBVIOUS
<1>1. Pairs(f, i, k) = Pairs(f, i - 1, k) \cup new
  <2>1. ASSUME NEW x \in Pairs(f, i, k) PROVE x \in Pairs(f, i - 1, k) \cup new
    <3>1. PICK a \in 1 .. i, s \in 1 .. k : x = <<a, s>> /\ s <= f[a]
      BY DEF Pairs
    <3>2. CASE a = i
      BY <3>1, <3>2
    <3>3. CASE a # i
      <4>1. a \in 1 .. i - 1
        BY <3>3
      <4>2. x \in Pairs(f, i - 1, k)
        BY <3>1, <4>1 DEF Pairs
      <4>3. QED
        BY <4>2
    <3>4. QED
      BY <3>2, <3>3
  <2>2. ASSUME NEW x \in new PROVE x \in Pairs(f, i, k)
    <3>1. PICK s \in 1 .. c : x = <<i, s>>
      OBVIOUS
    <3>2. s \in 1 .. k /\ i \in 1 .. i
      OBVIOUS
    <3>3. QED
      BY <1>0, <3>1, <3>2 DEF Pairs
  <2>3. Pairs(f, i - 1, k) \subseteq Pairs(f, i, k)
    BY DEF Pairs
  <2>4. QED
    BY <2>1, <2>2, <2>3
<1>2. Pairs(f, i - 1, k) \cap new = {}
  BY DEF Pairs
<1>3. IsFiniteSet(new) /\ Cardinality(new) = c
  <2>1. IsFiniteSet({i}) /\ Cardinality({i}) = 1
    BY FS_Singleton
  <2>2. ASSUME NEW n \in Nat PROVE IsFiniteSet(1 .. n) /\ Cardinality(1 .. n) = n
    <3> HIDE DEF c, new
    <3>1. 1 \in Int /\ n \in Int
      OBVIOUS
    <3>2. IsFiniteSet(1 .. n) /\ Cardinality(1 .. n) = IF 1 > n THEN 0 ELSE n - 1 + 1
      BY <3>1, FS_Interval, Zenon
    <3>3. QED
      BY <3>2
  <2>3. IsFiniteSet(1 .. c) /\ Cardinality(1 .. c) = c
    BY <1>0, <2>2
  <2>4. IsFiniteSet({i} \X (1 .. c)) /\ Cardinality({i} \X (1 .. c)) = 1 * c
    BY <2>1, <2>3, FS_Product
  <2>5. QED
    BY <1>0, <2>4
<1>4. IsFiniteSet(Pairs(f, i - 1, k)) /\ Cardinality(Pairs(f, i - 1, k)) \in Nat
  BY PairsFinite
<1> DEFINE U == Pairs(f, i - 1, k)
<1> HIDE DEF new, c, U
<1>5. Cardinality(U \cup new) = Cardinality(U) + Cardinality(new) - Cardinality(U \cap new)
  BY <1>3, <1>4, FS_Union DEF U
<1>6. Cardinality(U \cap new) = 0
  BY <1>2, FS_EmptySet, Zenon DEF U
<1>7. Cardinality(U \cup new) = Cardinality(U) + c
  BY <1>0, <1>3, <1>4, <1>5, <1>6 DEF U
<1>8. QED
  BY <1>1, <1>7 DEF U, c

LEMMA PairsMonotone ==
  ASSUME NEW f, NEW k \in Nat, NEW j \in Nat, NEW i \in 0 .. j
  PROVE  Cardinality(Pairs(f, i, k)) <= Cardinality(Pairs(f, j, k))
<1>1. Pairs(f, i, k) \subseteq Pairs(f, j, k)
  BY DEF Pairs
<1>2. IsFiniteSet(Pairs(f, j, k))
  BY PairsFinite
<1>3. QED
  BY <1>1, <1>2, FS_Subset

-----------------------------------------------------------------------------
(* Positions of the blocks of a row.                                       *)

Counts(bs) == [i \in 1 .. Len(bs) |-> bs[i].count]

LEMMA BeforeIs ==
  ASSUME NEW bs, Len(bs) \in Nat
  PROVE  /\ \A i \in 0 .. Len(bs) : /\ Before(bs)[i] = Cardinality(Pairs(Counts(bs), i, BlockSize))
                                   /\ Before(bs)[i] \in Nat
         /\ Before(bs)[0] = 0
         /\ Managed(bs) = Before(bs)[Len(bs)] /\ Managed(bs) \in Nat
<1>1. \A i \in 0 .. Len(bs) : Before(bs)[i] = Cardinality(Pairs(Counts(bs), i, BlockSize))
  <2> SUFFICES ASSUME NEW i \in 0 .. Len(bs)
               PROVE  Before(bs)[i] = Cardinality(Pairs(Counts(bs), i, BlockSize))
    OBVIOUS
  <2>1. Pairs(Counts(bs), i, BlockSize) = {x \in (1 .. i) \X Slots : x[2] <= bs[x[1]].count}
    BY DEF Pairs, Counts, Slots
  <2>2. QED
    BY <2>1 DEF Before
<1>2. \A i \in 0 .. Len(bs) : Cardinality(Pairs(Counts(bs), i, BlockSize)) \in Nat
  BY Sizes, PairsFinite
<1>3. Before(bs)[0] = Cardinality(Pairs(Counts(bs), 0, BlockSize))
  BY <1>1
<1>4. Before(bs)[0] = 0
  BY <1>3, PairsNone
<1>5. QED
  BY <1>1, <1>2, <1>4 DEF Managed

\* The i-th block adds its count.
LEMMA BeforeStep ==
  ASSUME NEW bs, Len(bs) \in Nat, NEW i \in 1 .. Len(bs), bs[i].count \in 0 .. BlockSize
  PROVE  Before(bs)[i] = Before(bs)[i - 1] + bs[i].count
<1> DEFINE f == Counts(bs)
<1>1. f[i] = bs[i].count
  BY DEF Counts
<1>2. i \in 0 .. Len(bs) /\ i - 1 \in 0 .. Len(bs) /\ i \in Nat \ {0}
  OBVIOUS
<1> HIDE DEF f
<1>3. Cardinality(Pairs(f, i, BlockSize)) = Cardinality(Pairs(f, i - 1, BlockSize)) + f[i]
  BY <1>1, <1>2, Sizes, PairsStep
<1>4. QED
  BY <1>1, <1>2, <1>3, BeforeIs DEF f

LEMMA BeforeMonotone ==
  ASSUME NEW bs, Len(bs) \in Nat, NEW j \in 0 .. Len(bs), NEW i \in 0 .. j
  PROVE  Before(bs)[i] <= Before(bs)[j]
<1> DEFINE f == Counts(bs)
<1>1. Cardinality(Pairs(f, i, BlockSize)) <= Cardinality(Pairs(f, j, BlockSize))
  BY Sizes, PairsMonotone
<1>2. i \in 0 .. Len(bs)
  OBVIOUS
<1> HIDE DEF f
<1>3. QED
  BY <1>1, <1>2, BeforeIs DEF f

\* Rows whose first n blocks have the same counts.
LEMMA BeforeSame ==
  ASSUME NEW bs, NEW cs, Len(bs) \in Nat, Len(cs) \in Nat, NEW n \in Nat,
         n <= Len(bs), n <= Len(cs), \A i \in 1 .. n : cs[i].count = bs[i].count
  PROVE  \A i \in 0 .. n : Before(cs)[i] = Before(bs)[i]
<1> SUFFICES ASSUME NEW i \in 0 .. n PROVE Before(cs)[i] = Before(bs)[i]
  OBVIOUS
<1>1. Pairs(Counts(cs), i, BlockSize) = Pairs(Counts(bs), i, BlockSize)
  BY DEF Pairs, Counts
<1>2. i \in 0 .. Len(bs) /\ i \in 0 .. Len(cs)
  OBVIOUS
<1>3. QED
  BY <1>1, <1>2, BeforeIs

-----------------------------------------------------------------------------
(* Rows that hold their tokens.                                            *)

\* Every block is sound, and starts where the one before it ends.
Row(bs, fs) ==
  /\ bs \in Seq(Block)
  /\ \A i \in 1 .. Len(bs) : Sound(bs[i], fs) /\ bs[i].start = Before(bs)[i - 1]

LEMMA RowParts ==
  ASSUME NEW bs, NEW fs, Row(bs, fs)
  PROVE  /\ Len(bs) \in Nat /\ DOMAIN bs = 1 .. Len(bs)
         /\ \A i \in 1 .. Len(bs) :
              /\ bs[i] \in Block /\ Sound(bs[i], fs) /\ bs[i].start = Before(bs)[i - 1]
              /\ bs[i].count \in 1 .. BlockSize
              /\ Before(bs)[i] = Before(bs)[i - 1] + bs[i].count
<1>1. Len(bs) \in Nat /\ DOMAIN bs = 1 .. Len(bs)
  BY DEF Row
<1>2. ASSUME NEW i \in 1 .. Len(bs)
      PROVE  /\ bs[i] \in Block /\ Sound(bs[i], fs) /\ bs[i].start = Before(bs)[i - 1]
             /\ bs[i].count \in 1 .. BlockSize
  BY Sizes DEF Row, Sound, Block
<1>3. ASSUME NEW i \in 1 .. Len(bs) PROVE Before(bs)[i] = Before(bs)[i - 1] + bs[i].count
  BY <1>1, <1>2, BeforeStep, Sizes
<1>4. QED
  BY <1>1, <1>2, <1>3

\* What build_past_kv makes of a row without hollow blocks.
LEMMA BuiltRow ==
  ASSUME NEW bs, Row(bs, files), \A i \in 1 .. Len(bs) : ~ Hollow(bs[i]) \/ bs[i].tier # "GPU"
  PROVE  Built(bs) = [p \in 1 .. Managed(bs) |-> p]
<1> DEFINE end == Before(bs)
           Around(p, j) == end[j - 1] < p /\ p <= end[j]
           Value(p) == LET i == CHOOSE j \in 1 .. Len(bs) : Around(p, j)
                       IN IF Readable(bs[i]) THEN Content(bs[i])[p - end[i - 1]] ELSE 0
<1>1. Built(bs) = [p \in 1 .. Managed(bs) |-> Value(p)]
  BY DEF Built
<1>2. /\ Len(bs) \in Nat /\ end[0] = 0 /\ Managed(bs) = end[Len(bs)]
      /\ \A i \in 0 .. Len(bs) : end[i] \in Nat
  BY BeforeIs, RowParts
<1>3. ASSUME NEW p \in 1 .. Managed(bs) PROVE Value(p) = p
  <2> DEFINE T == {j \in 0 .. Len(bs) : p <= end[j]}
             i == CHOOSE j \in 1 .. Len(bs) : Around(p, j)
  <2> HIDE DEF end
  <2>1. PICK m \in T : \A j \in T : m <= j
    <3>1. T \in SUBSET Nat /\ Len(bs) \in T
      BY <1>2
    <3>2. QED
      BY <3>1, LeastNatural
  <2>2. m \in 1 .. Len(bs) /\ Around(p, m)
    <3>1. m # 0
      BY <1>2
    <3>2. m - 1 \in 0 .. Len(bs) /\ m - 1 \notin T
      BY <1>2, <2>1, <3>1
    <3>3. QED
      BY <1>2, <3>1, <3>2
  <2>3. i \in 1 .. Len(bs) /\ Around(p, i)
    BY <2>2
  <2> HIDE DEF i, T
  <2>4. /\ Sound(bs[i], files) /\ bs[i].start = end[i - 1]
        /\ end[i] = end[i - 1] + bs[i].count /\ bs[i].count \in Nat
        /\ i - 1 \in 0 .. Len(bs)
    BY <1>2, <2>3, RowParts, Sizes DEF end
  <2>5. Holds(bs[i], Content(bs[i]))
    <3>1. bs[i].tier \in Tiers
      BY <2>4 DEF Sound, Block
    <3>2. QED
      BY <2>3, <2>4, <3>1 DEF Sound, Content, Tiers
  <2>6. Readable(bs[i])
    BY <2>5 DEF Readable, Holds
  <2>7. p - end[i - 1] \in 1 .. bs[i].count
    BY <1>2, <2>3, <2>4
  <2>8. Content(bs[i])[p - end[i - 1]] = p
    BY <1>2, <2>4, <2>5, <2>7 DEF Holds
  <2>9. Value(p) = Content(bs[i])[p - end[i - 1]]
    BY <2>6 DEF i
  <2>10. QED
    BY <2>8, <2>9
<1>4. QED
  <2> HIDE DEF Value
  <2>1. [p \in 1 .. Managed(bs) |-> Value(p)] = [p \in 1 .. Managed(bs) |-> p]
    BY <1>3
  <2>2. QED
    BY <1>1, <2>1

\* A sound block that begins where the row ends.
LEMMA AppendRow ==
  ASSUME NEW bs, NEW fs, Row(bs, fs), NEW b, Sound(b, fs), b.start = Managed(bs)
  PROVE  /\ Row(Append(bs, b), fs) /\ Len(Append(bs, b)) = Len(bs) + 1
         /\ Managed(Append(bs, b)) = Managed(bs) + b.count
         /\ \A i \in 1 .. Len(bs) : Append(bs, b)[i] = bs[i]
         /\ Append(bs, b)[Len(bs) + 1] = b
<1> DEFINE cs == Append(bs, b)
           n == Len(bs)
<1>1. n \in Nat /\ b \in Block /\ bs \in Seq(Block)
  BY RowParts DEF Row, Sound
<1>2. /\ cs \in Seq(Block) /\ Len(cs) = n + 1
      /\ \A i \in 1 .. n : cs[i] = bs[i]
      /\ cs[n + 1] = b
  BY <1>1, AppendProperties
<1> HIDE DEF cs
<1>3. \A i \in 0 .. n : Before(cs)[i] = Before(bs)[i]
  BY <1>1, <1>2, BeforeSame
<1>4. Before(cs)[n] = Managed(bs)
  BY <1>1, <1>3, BeforeIs
<1>5. \A i \in 1 .. Len(cs) : Sound(cs[i], fs) /\ cs[i].start = Before(cs)[i - 1]
  <2> SUFFICES ASSUME NEW i \in 1 .. Len(cs)
               PROVE  Sound(cs[i], fs) /\ cs[i].start = Before(cs)[i - 1]
    OBVIOUS
  <2>1. CASE i = n + 1
    BY <1>1, <1>2, <1>4, <2>1
  <2>2. CASE i # n + 1
    <3>1. i \in 1 .. n /\ i - 1 \in 0 .. n
      BY <1>1, <1>2, <2>2
    <3>2. QED
      BY <1>2, <1>3, <3>1, RowParts
  <2>3. QED
    BY <2>1, <2>2
<1>6. Managed(cs) = Managed(bs) + b.count
  <2>1. n + 1 \in 1 .. Len(cs) /\ b.count \in 0 .. BlockSize /\ n + 1 - 1 = n
    BY <1>1, <1>2 DEF Block
  <2>2. Before(cs)[n + 1] = Before(cs)[n + 1 - 1] + b.count
    BY <1>1, <1>2, <2>1, BeforeStep
  <2>3. Managed(cs) = Before(cs)[n + 1]
    BY <1>1, <1>2, BeforeIs
  <2>4. QED
    BY <1>4, <2>1, <2>2, <2>3
<1>7. QED
  BY <1>2, <1>5, <1>6 DEF Row, cs

LEMMA PrefixRow ==
  ASSUME NEW bs, NEW fs, Row(bs, fs), NEW n \in 0 .. Len(bs)
  PROVE  /\ Row(SubSeq(bs, 1, n), fs) /\ Len(SubSeq(bs, 1, n)) = n
         /\ Managed(SubSeq(bs, 1, n)) = Before(bs)[n]
         /\ \A i \in 1 .. n : SubSeq(bs, 1, n)[i] = bs[i]
<1> DEFINE cs == SubSeq(bs, 1, n)
<1>1. bs \in Seq(Block) /\ Len(bs) \in Nat
  BY RowParts DEF Row
<1>2. cs \in Seq(Block) /\ Len(cs) = n /\ \A i \in 1 .. n : cs[i] = bs[i]
  BY <1>1, SubSeqProperties
<1> HIDE DEF cs
<1>3. \A i \in 0 .. n : Before(cs)[i] = Before(bs)[i]
  <2>1. n \in Nat /\ n <= Len(bs) /\ n <= Len(cs) /\ Len(cs) \in Nat
    BY <1>1, <1>2
  <2>2. \A i \in 1 .. n : cs[i].count = bs[i].count
    BY <1>2
  <2>3. QED
    BY <1>1, <2>1, <2>2, BeforeSame
<1>4. \A i \in 1 .. n : Sound(cs[i], fs) /\ cs[i].start = Before(cs)[i - 1]
  <2> SUFFICES ASSUME NEW i \in 1 .. n
               PROVE  Sound(cs[i], fs) /\ cs[i].start = Before(cs)[i - 1]
    OBVIOUS
  <2>1. i - 1 \in 0 .. n /\ i \in 1 .. Len(bs)
    BY <1>1
  <2>2. QED
    BY <1>2, <1>3, <2>1, RowParts
<1>5. Managed(cs) = Before(bs)[n]
  BY <1>2, <1>3, BeforeIs
<1>6. QED
  BY <1>2, <1>4, <1>5 DEF Row, cs

\* The last block written on, or moved.
LEMMA LastRow ==
  ASSUME NEW bs, NEW fs, Row(bs, fs), Len(bs) # 0, NEW b, Sound(b, fs),
         b.start = bs[Len(bs)].start
  PROVE  /\ Row([bs EXCEPT ![Len(bs)] = b], fs) /\ Len([bs EXCEPT ![Len(bs)] = b]) = Len(bs)
         /\ Managed([bs EXCEPT ![Len(bs)] = b]) = Managed(bs) - bs[Len(bs)].count + b.count
<1> DEFINE n == Len(bs)
           cs == [bs EXCEPT ![n] = b]
<1>1. /\ n \in 1 .. n /\ n \in Nat /\ bs \in Seq(Block) /\ b \in Block
      /\ bs[n].count \in 1 .. BlockSize /\ bs[n].start = Before(bs)[n - 1]
      /\ Before(bs)[n] = Before(bs)[n - 1] + bs[n].count
  BY RowParts DEF Row, Sound
<1>2. /\ cs \in Seq(Block) /\ Len(cs) = n /\ cs[n] = b
      /\ \A i \in 1 .. n - 1 : cs[i] = bs[i]
  BY <1>1
<1> HIDE DEF cs, n
<1>3. \A i \in 0 .. n - 1 : Before(cs)[i] = Before(bs)[i]
  <2>1. /\ n - 1 \in Nat /\ n - 1 <= Len(bs) /\ n - 1 <= Len(cs)
        /\ Len(cs) \in Nat /\ Len(bs) \in Nat
    BY <1>1, <1>2 DEF n
  <2>2. \A i \in 1 .. n - 1 : cs[i].count = bs[i].count
    BY <1>2
  <2>3. QED
    BY <2>1, <2>2, BeforeSame
<1>4. \A i \in 1 .. n : Sound(cs[i], fs) /\ cs[i].start = Before(cs)[i - 1]
  <2> SUFFICES ASSUME NEW i \in 1 .. n
               PROVE  Sound(cs[i], fs) /\ cs[i].start = Before(cs)[i - 1]
    OBVIOUS
  <2>1. i - 1 \in 0 .. n - 1 /\ i \in 1 .. Len(bs)
    BY <1>1 DEF n
  <2>2. CASE i = n
    BY <1>1, <1>2, <1>3, <2>1, <2>2 DEF n
  <2>3. CASE i # n
    <3>1. i \in 1 .. n - 1
      BY <1>1, <2>3
    <3>2. QED
      BY <1>2, <1>3, <2>1, <3>1, RowParts
  <2>4. QED
    BY <2>2, <2>3
<1>5. Managed(cs) = Managed(bs) - bs[n].count + b.count
  <2>1. n \in 1 .. Len(cs) /\ b.count \in 0 .. BlockSize /\ Len(cs) \in Nat
    BY <1>1, <1>2 DEF Block
  <2>2. Before(cs)[n] = Before(cs)[n - 1] + b.count
    BY <1>2, <2>1, BeforeStep
  <2>3. /\ Managed(cs) = Before(cs)[n] /\ Before(cs)[n - 1] = Before(bs)[n - 1]
        /\ Managed(bs) = Before(bs)[n] /\ Before(bs)[n - 1] \in Nat
    <3>1. n - 1 \in 0 .. n - 1 /\ n - 1 \in 0 .. Len(bs) /\ Len(bs) \in Nat
      BY <1>1 DEF n
    <3>2. QED
      BY <1>2, <1>3, <2>1, <3>1, BeforeIs DEF n
  <2>4. QED
    BY <1>1, <2>1, <2>2, <2>3, Sizes
<1>6. QED
  BY <1>2, <1>4, <1>5 DEF Row, cs, n

\* A row moved: every block is the same one, and sound.
LEMMA MovedRow ==
  ASSUME NEW bs, NEW fs, Row(bs, fs), NEW gs, NEW cs,
         cs = [i \in 1 .. Len(bs) |-> cs[i]],
         \A i \in 1 .. Len(bs) : Same(bs[i], cs[i]) /\ Sound(cs[i], gs)
  PROVE  Row(cs, gs) /\ Len(cs) = Len(bs) /\ Managed(cs) = Managed(bs)
<1> DEFINE n == Len(bs)
<1>1. n \in Nat /\ \A i \in 1 .. n : cs[i] \in Block
  BY RowParts DEF Sound
<1>2. cs \in Seq(Block) /\ Len(cs) = n
  <2>1. cs \in [1 .. n -> Block]
    BY <1>1
  <2> HIDE DEF n
  <2>2. cs \in Seq(Block)
    BY <1>1, <2>1
  <2>3. DOMAIN cs = 1 .. n /\ DOMAIN cs = 1 .. Len(cs) /\ Len(cs) \in Nat
    BY <2>1, <2>2, LenProperties
  <2>4. QED
    BY <1>1, <2>2, <2>3
<1>3. \A i \in 0 .. n : Before(cs)[i] = Before(bs)[i]
  BY <1>1, <1>2, BeforeSame DEF Same
<1>4. \A i \in 1 .. n : cs[i].start = Before(cs)[i - 1]
  <2> SUFFICES ASSUME NEW i \in 1 .. n PROVE cs[i].start = Before(cs)[i - 1]
    OBVIOUS
  <2>1. i - 1 \in 0 .. n
    BY <1>1
  <2>2. QED
    BY <1>3, <2>1, RowParts DEF Same
<1>5. Managed(cs) = Managed(bs)
  BY <1>1, <1>2, <1>3, BeforeIs
<1>6. QED
  BY <1>2, <1>4, <1>5 DEF Row

-----------------------------------------------------------------------------
(* New blocks.                                                             *)

LEMMA FilledTensor ==
  ASSUME NEW pos \in Nat, NEW n \in 1 .. BlockSize, pos + n <= MaxTokens
  PROVE  Filled(pos, n) \in Tensors /\ \A s \in 1 .. n : Filled(pos, n)[s] = pos + s
<1>1. \A s \in Slots : (IF s <= n THEN pos + s ELSE 0) \in 0 .. MaxTokens
  BY Sizes DEF Slots
<1>2. 1 .. n \subseteq Slots
  BY Sizes DEF Slots
<1>3. QED
  BY <1>1, <1>2 DEF Filled, Tensors

LEMMA NewBlockSound ==
  ASSUME NEW id \in Ids, NEW pos \in Nat, NEW n \in 1 .. BlockSize, pos + n <= MaxTokens, NEW fs
  PROVE  /\ Sound(NewBlock(id, pos, n, Filled(pos, n)), fs)
         /\ NewBlock(id, pos, n, Filled(pos, n)).start = pos
         /\ NewBlock(id, pos, n, Filled(pos, n)).count = n
         /\ NewBlock(id, pos, n, Filled(pos, n)).id = id
<1> DEFINE d == Filled(pos, n)
           b == NewBlock(id, pos, n, d)
<1>1. d \in Tensors /\ \A s \in 1 .. n : d[s] = pos + s
  BY FilledTensor
<1> HIDE DEF d
<1>2. /\ b.start = pos /\ b.count = n /\ b.id = id /\ b.tier = "GPU" /\ b.gpu = d
      /\ b \in Block
  BY <1>1, Sizes DEF NewBlock, Block, Tiers, Copies
<1> HIDE DEF b
<1>3. Holds(b, b.gpu)
  BY <1>1, <1>2 DEF Holds
<1>4. Sound(b, fs)
  BY <1>2, <1>3, Sizes DEF Sound
<1>5. QED
  BY <1>2, <1>4 DEF b, d

LEMMA DivMod ==
  ASSUME NEW c \in Nat \ {0}, NEW n \in Nat
  PROVE  n = c * (n \div c) + (n % c) /\ n % c \in 0 .. c - 1 /\ n \div c \in Nat
OBVIOUS

LEMMA ProductMonotone ==
  ASSUME NEW c \in Nat, NEW p \in Nat, NEW q \in Nat, p <= q PROVE c * p <= c * q
OBVIOUS

LEMMA ProductNat == ASSUME NEW c \in Nat, NEW p \in Nat PROVE c * p \in Nat
OBVIOUS

FreshPos(l, j)    == Managed(blocks[l]) + (j - 1) * BlockSize
FreshCount(l, j)  == IF seqLen - FreshPos(l, j) < BlockSize
                     THEN seqLen - FreshPos(l, j) ELSE BlockSize
FreshAt(l, j, id) == NewBlock(id + j - 1, FreshPos(l, j), FreshCount(l, j),
                              Filled(FreshPos(l, j), FreshCount(l, j)))

\* The new tokens fill the new blocks, all but the last to the brim.
LEMMA FreshSizes ==
  ASSUME NEW l \in Layers, Len(blocks[l]) \in Nat, seqLen \in Nat
  PROVE  /\ NewBlocks[l] \in Nat /\ NewBlocks[l] <= seqLen
         /\ FreshPos(l, 1) = Managed(blocks[l])
         /\ \A j \in 1 .. NewBlocks[l] :
              /\ FreshPos(l, j) \in Nat /\ FreshCount(l, j) \in 1 .. BlockSize
              /\ Managed(blocks[l]) <= FreshPos(l, j)
              /\ FreshPos(l, j) + FreshCount(l, j) <= seqLen
              /\ j < NewBlocks[l] => FreshPos(l, j + 1) = FreshPos(l, j) + FreshCount(l, j)
<1> DEFINE old == Managed(blocks[l])
           d == seqLen - old
           q == NewBlocks[l]
<1>1. old \in Nat
  BY BeforeIs
<1>2. FreshPos(l, 1) = old
  BY <1>1, Sizes DEF FreshPos
<1>3. CASE seqLen <= old
  BY <1>1, <1>2, <1>3 DEF NewBlocks
<1>4. CASE seqLen > old
  <2>1. d \in Nat /\ d > 0 /\ BlockSize \in Nat \ {0} /\ d + BlockSize - 1 \in Nat
    BY <1>1, <1>4, Sizes
  <2>2. q = (d + BlockSize - 1) \div BlockSize
    BY <1>1, <1>4 DEF NewBlocks
  <2> HIDE DEF q, d
  <2>3. q \in Nat /\ BlockSize * q <= d + BlockSize - 1
    <3> DEFINE n == d + BlockSize - 1
    <3>1. n = BlockSize * (n \div BlockSize) + (n % BlockSize) /\ n % BlockSize \in 0 .. BlockSize - 1
          /\ n \div BlockSize \in Nat
      BY <2>1, DivMod
    <3> HIDE DEF n
    <3>2. q = n \div BlockSize
      BY <2>2 DEF n
    <3>3. q \in Nat /\ BlockSize * q \in Nat
      BY <2>1, <3>1, <3>2, ProductNat
    <3>4. BlockSize * q <= n
      BY <2>1, <3>1, <3>2, <3>3
    <3>5. QED
      BY <3>1, <3>2, <3>4 DEF n
  <2>4. ASSUME NEW j \in 1 .. q PROVE (j - 1) * BlockSize \in Nat /\ (j - 1) * BlockSize < d
    <3>1. BlockSize * j <= BlockSize * q
      BY <2>1, <2>3, ProductMonotone
    <3>2. BlockSize * j = (j - 1) * BlockSize + BlockSize /\ BlockSize * j \in Nat
          /\ BlockSize * q \in Nat /\ (j - 1) * BlockSize \in Nat
      BY <2>1, <2>3
    <3>3. QED
      BY <2>1, <2>3, <3>1, <3>2
  <2>5. q <= seqLen
    <3>1. ASSUME q >= d + 1 PROVE FALSE
      <4>1. BlockSize * (d + 1) <= BlockSize * q
        BY <2>1, <2>3, <3>1, ProductMonotone
      <4>2. BlockSize * (d + 1) = BlockSize * d + BlockSize /\ BlockSize * d \in Nat
            /\ BlockSize * q \in Nat
        BY <2>1, <2>3
      <4>3. 1 * d <= BlockSize * d
        BY <2>1, ProductMonotone
      <4>4. QED
        BY <2>1, <2>3, <4>1, <4>2, <4>3
    <3>2. QED
      BY <1>1, <2>1, <2>3, <3>1 DEF d
  <2>6. ASSUME NEW j \in 1 .. q
        PROVE  /\ FreshPos(l, j) \in Nat /\ FreshCount(l, j) \in 1 .. BlockSize
               /\ old <= FreshPos(l, j)
               /\ FreshPos(l, j) + FreshCount(l, j) <= seqLen
               /\ j < q => FreshPos(l, j + 1) = FreshPos(l, j) + FreshCount(l, j)
    <3> DEFINE m == (j - 1) * BlockSize
    <3>1. m \in Nat /\ m < d
      BY <2>4
    <3>2. ASSUME j < q PROVE m + BlockSize < d /\ FreshPos(l, j + 1) = old + (m + BlockSize)
      <4>1. j + 1 \in 1 .. q /\ (j + 1) - 1 = j /\ j \in Nat
        BY <2>3, <3>2
      <4>2. j * BlockSize < d
        BY <2>4, <4>1
      <4>3. j * BlockSize = m + BlockSize
        BY <2>1, <4>1
      <4>4. QED
        BY <4>1, <4>2, <4>3 DEF FreshPos
    <3> HIDE DEF m
    <3>3. FreshPos(l, j) = old + m
      BY DEF FreshPos, m
    <3> HIDE DEF old
    <3>4. QED
      BY <1>1, <2>1, <3>1, <3>2, <3>3 DEF FreshCount, d
  <2>7. QED
    BY <1>2, <2>3, <2>5, <2>6 DEF q
<1>5. QED
  BY <1>1, <1>3, <1>4

LEMMA ConcatStep ==
  ASSUME NEW S, NEW bs \in Seq(S), NEW k \in Nat, NEW f, \A j \in 1 .. k + 1 : f[j] \in S
  PROVE  /\ bs \o [j \in 1 .. k + 1 |-> f[j]] = Append(bs \o [j \in 1 .. k |-> f[j]], f[k + 1])
         /\ bs \o [j \in 1 .. 0 |-> f[j]] = bs
<1> DEFINE g == [j \in 1 .. k |-> f[j]]
           h == [j \in 1 .. k + 1 |-> f[j]]
           e == [j \in 1 .. 0 |-> f[j]]
<1>1. g \in Seq(S) /\ Len(g) = k /\ h \in Seq(S) /\ Len(h) = k + 1
  OBVIOUS
<1>2. e = << >>
  OBVIOUS
<1>3. bs \o e = bs
  BY <1>2
<1>4. bs \o h = Append(bs \o g, f[k + 1])
  <2>1. \A j \in 1 .. k : g[j] = f[j] /\ h[j] = f[j]
    OBVIOUS
  <2>2. h[k + 1] = f[k + 1] /\ f[k + 1] \in S
    OBVIOUS
  <2> HIDE DEF g, h
  <2>3. /\ bs \o h \in Seq(S) /\ Len(bs \o h) = Len(bs) + (k + 1)
        /\ \A i \in 1 .. Len(bs) + (k + 1) :
             (bs \o h)[i] = IF i <= Len(bs) THEN bs[i] ELSE h[i - Len(bs)]
    <3>1. /\ bs \o h \in Seq(S) /\ Len(bs \o h) = Len(bs) + Len(h)
          /\ \A i \in 1 .. Len(bs) + Len(h) :
               (bs \o h)[i] = IF i <= Len(bs) THEN bs[i] ELSE h[i - Len(bs)]
      BY <1>1, ConcatProperties
    <3>2. QED
      BY <1>1, <3>1
  <2>4. /\ bs \o g \in Seq(S) /\ Len(bs \o g) = Len(bs) + k
        /\ \A i \in 1 .. Len(bs) + k :
             (bs \o g)[i] = IF i <= Len(bs) THEN bs[i] ELSE g[i - Len(bs)]
    <3>1. /\ bs \o g \in Seq(S) /\ Len(bs \o g) = Len(bs) + Len(g)
          /\ \A i \in 1 .. Len(bs) + Len(g) :
               (bs \o g)[i] = IF i <= Len(bs) THEN bs[i] ELSE g[i - Len(bs)]
      BY <1>1, ConcatProperties
    <3>2. QED
      BY <1>1, <3>1
  <2> DEFINE a == Append(bs \o g, f[k + 1])
  <2>5. /\ a \in Seq(S) /\ Len(a) = Len(bs) + k + 1
        /\ \A i \in 1 .. Len(bs) + k : a[i] = (bs \o g)[i]
        /\ a[Len(bs) + k + 1] = f[k + 1]
    <3> DEFINE u == bs \o g
    <3> HIDE DEF u
    <3>1. u \in Seq(S) /\ Len(u) = Len(bs) + k /\ Len(bs) \in Nat
      BY <2>4 DEF u
    <3>2. /\ Append(u, f[k + 1]) \in Seq(S) /\ Len(Append(u, f[k + 1])) = Len(u) + 1
          /\ \A i \in 1 .. Len(u) : Append(u, f[k + 1])[i] = u[i]
          /\ Append(u, f[k + 1])[Len(u) + 1] = f[k + 1]
      BY <2>2, <3>1, AppendProperties
    <3>3. QED
      BY <3>1, <3>2 DEF a, u
  <2> HIDE DEF a
  <2>6. Len(bs) \in Nat
    OBVIOUS
  <2>7. \A i \in 1 .. Len(bs) + (k + 1) : (bs \o h)[i] = a[i]
    <3> SUFFICES ASSUME NEW i \in 1 .. Len(bs) + (k + 1) PROVE (bs \o h)[i] = a[i]
      OBVIOUS
    <3>1. CASE i = Len(bs) + k + 1
      BY <2>2, <2>3, <2>5, <2>6, <3>1
    <3>2. CASE i # Len(bs) + k + 1
      <4>1. i \in 1 .. Len(bs) + k
        BY <2>6, <3>2
      <4>2. i > Len(bs) => i - Len(bs) \in 1 .. k
        BY <2>6, <4>1
      <4>3. QED
        BY <2>1, <2>3, <2>4, <2>5, <2>6, <4>1, <4>2
    <3>3. QED
      BY <3>1, <3>2
  <2>8. bs \o h = a
    BY <2>3, <2>5, <2>6, <2>7, SeqEqual
  <2>9. QED
    BY <2>8 DEF a
<1>5. QED
  BY <1>3, <1>4

\* A layer with the first k of its new blocks, which hold the tokens that come
\* next.
LEMMA ExtendedIs ==
  ASSUME seqLen \in 0 .. MaxTokens, NEW l \in Layers, Row(blocks[l], files),
         NEW k \in 0 .. NewBlocks[l], NEW id \in Nat, id + k <= MaxIds
  PROVE  /\ Row(Extended(l, k, id), files)
         /\ Len(Extended(l, k, id)) = Len(blocks[l]) + k
         /\ k = 0 => Extended(l, k, id) = blocks[l]
         /\ k # 0 => Managed(Extended(l, k, id)) = FreshPos(l, k) + FreshCount(l, k)
         /\ \A i \in 1 .. Len(blocks[l]) : Extended(l, k, id)[i] = blocks[l][i]
         /\ \A i \in 1 .. k : Extended(l, k, id)[Len(blocks[l]) + i].id = id + i - 1
<1> DEFINE bs == blocks[l]
           n == Len(bs)
           f == [j \in 1 .. k |-> FreshAt(l, j, id)]
           E(m) == bs \o [j \in 1 .. m |-> f[j]]
           P(m) == /\ Row(E(m), files) /\ Len(E(m)) = n + m
                   /\ m # 0 => Managed(E(m)) = FreshPos(l, m) + FreshCount(l, m)
                   /\ \A i \in 1 .. n : E(m)[i] = bs[i]
                   /\ \A i \in 1 .. m : E(m)[n + i] = f[i]
<1>1. n \in Nat /\ bs \in Seq(Block) /\ k \in Nat /\ NewBlocks[l] \in Nat /\ seqLen \in Nat
  BY RowParts, FreshSizes, Sizes DEF Row
<1>2. ASSUME NEW j \in 1 .. k
      PROVE  /\ Sound(f[j], files) /\ f[j].start = FreshPos(l, j)
             /\ f[j].count = FreshCount(l, j) /\ f[j].id = id + j - 1
  <2> DEFINE p == FreshPos(l, j)
             c == FreshCount(l, j)
  <2>1. p \in Nat /\ c \in 1 .. BlockSize /\ p + c <= MaxTokens
    <3>1. j \in 1 .. NewBlocks[l]
      BY <1>1
    <3>2. p \in Nat /\ c \in 1 .. BlockSize /\ p + c <= seqLen
      BY <1>1, <3>1, FreshSizes
    <3> HIDE DEF p, c
    <3>3. QED
      BY <3>2, Sizes
  <2>2. id + j - 1 \in Ids
    BY <1>1, Sizes DEF Ids
  <2>3. f[j] = NewBlock(id + j - 1, p, c, Filled(p, c))
    BY DEF FreshAt
  <2> HIDE DEF p, c, f
  <2> DEFINE i == id + j - 1
  <2> HIDE DEF i
  <2>4. f[j] = NewBlock(i, p, c, Filled(p, c)) /\ i \in Ids
    BY <2>2, <2>3 DEF i
  <2>5. Sound(f[j], files) /\ f[j].start = p /\ f[j].count = c /\ f[j].id = i
    <3> DEFINE b == NewBlock(i, p, c, Filled(p, c))
    <3>1. Sound(b, files)
      BY <2>1, <2>4, NewBlockSound
    <3>2. b.start = p /\ b.count = c /\ b.id = i
      BY <2>1, <2>4, <3>1, NewBlockSound
    <3> HIDE DEF b
    <3>3. f[j] = b
      BY <2>4 DEF b
    <3>4. QED
      BY <3>1, <3>2, <3>3
  <2>6. QED
    BY <2>5 DEF p, c, i
<1>3. Extended(l, k, id) = E(k)
  BY DEF Extended, FreshAt, FreshPos, FreshCount
<1> HIDE DEF f
<1>4. \A j \in 1 .. k : f[j] \in Block
  BY <1>2 DEF Sound
<1>5. P(0) /\ E(0) = bs
  <2>1. E(0) = bs
    <3>1. [j \in 1 .. 0 |-> f[j]] = << >>
      OBVIOUS
    <3>2. QED
      BY <1>1, <3>1, ConcatEmptySeq
  <2>2. QED
    BY <1>1, <2>1
<1>6. ASSUME NEW m \in 0 .. k - 1, P(m) PROVE P(m + 1)
  <2>0. m \in Nat /\ m + 1 \in 1 .. k
    BY <1>1
  <2>1. E(m + 1) = Append(E(m), f[m + 1])
    <3>1. \A j \in 1 .. m + 1 : f[j] \in Block
      BY <1>1, <1>4
    <3> HIDE DEF bs
    <3>2. bs \o [j \in 1 .. m + 1 |-> f[j]] = Append(bs \o [j \in 1 .. m |-> f[j]], f[m + 1])
      BY <1>1, <2>0, <3>1, ConcatStep
    <3>3. QED
      BY <3>2
  <2>2. /\ Sound(f[m + 1], files) /\ f[m + 1].start = FreshPos(l, m + 1)
        /\ f[m + 1].count = FreshCount(l, m + 1)
    BY <1>1, <1>2
  <2>3. FreshPos(l, m + 1) = Managed(E(m))
    <3>1. CASE m = 0
      BY <1>1, <1>5, <3>1, FreshSizes
    <3>2. CASE m # 0
      <4>1. m \in 1 .. NewBlocks[l] /\ m < NewBlocks[l]
        BY <1>1, <3>2
      <4>2. FreshPos(l, m + 1) = FreshPos(l, m) + FreshCount(l, m)
        BY <1>1, <4>1, FreshSizes
      <4>3. QED
        BY <1>6, <3>2, <4>2
    <3>3. QED
      BY <3>1, <3>2
  <2> DEFINE u == E(m)
             v == E(m + 1)
  <2>4. Row(u, files) /\ Len(u) = n + m /\ v = Append(u, f[m + 1])
        /\ f[m + 1].start = Managed(u)
    BY <1>6, <2>1, <2>2, <2>3
  <2>5. /\ \A i \in 1 .. n : u[i] = bs[i]
        /\ \A i \in 1 .. m : u[n + i] = f[i]
    BY <1>6
  <2> DEFINE b == f[m + 1]
  <2> HIDE DEF u, v, b, n, bs, E, P
  <2>6. /\ Row(v, files) /\ Len(v) = Len(u) + 1
        /\ Managed(v) = Managed(u) + b.count
        /\ \A i \in 1 .. Len(u) : v[i] = u[i]
        /\ v[Len(u) + 1] = b
    <3>1. Row(u, files) /\ Sound(b, files) /\ b.start = Managed(u) /\ v = Append(u, b)
      BY <2>2, <2>4 DEF b
    <3>2. QED
      BY <3>1, AppendRow
  <2>7. Len(v) = n + (m + 1) /\ Managed(v) = FreshPos(l, m + 1) + FreshCount(l, m + 1)
    <3>1. Managed(u) = FreshPos(l, m + 1) /\ b.count = FreshCount(l, m + 1)
      BY <2>2, <2>4 DEF b
    <3>2. QED
      BY <1>1, <2>0, <2>4, <2>6, <3>1
  <2>8. /\ \A i \in 1 .. n : v[i] = bs[i]
        /\ \A i \in 1 .. m + 1 : v[n + i] = f[i]
    <3>1. ASSUME NEW i \in 1 .. n PROVE v[i] = bs[i]
      <4>1. i \in 1 .. Len(u)
        BY <1>1, <2>4
      <4>2. QED
        BY <2>5, <2>6, <4>1
    <3>2. ASSUME NEW i \in 1 .. m + 1 PROVE v[n + i] = f[i]
      <4>1. CASE i = m + 1
        <5>1. n + i = Len(u) + 1
          BY <1>1, <2>0, <2>4, <4>1
        <5>2. QED
          BY <2>6, <4>1, <5>1 DEF b
      <4>2. CASE i # m + 1
        <5>1. i \in 1 .. m /\ n + i \in 1 .. Len(u)
          BY <1>1, <2>0, <2>4, <4>2
        <5>2. QED
          BY <2>5, <2>6, <5>1
      <4>3. QED
        BY <4>1, <4>2
    <3>3. QED
      BY <3>1, <3>2
  <2>9. QED
    BY <2>6, <2>7, <2>8 DEF v, n, bs, E, P
<1>7. P(k)
  <2> DEFINE T == {m \in 0 .. k : ~ P(m)}
  <2>1. ASSUME T # {} PROVE FALSE
    <3>1. PICK m \in T : \A j \in T : m <= j
      <4> HIDE DEF P
      <4>1. T \in SUBSET Nat
        BY <1>1
      <4>2. QED
        BY <2>1, <4>1, LeastNatural
    <3> HIDE DEF P, E
    <3>2. m # 0 /\ m \in 1 .. k
      BY <1>1, <1>5, <3>1
    <3>3. m - 1 \in 0 .. k - 1 /\ P(m - 1) /\ (m - 1) + 1 = m
      <4>1. m - 1 \in 0 .. k /\ m - 1 \in 0 .. k - 1 /\ (m - 1) + 1 = m /\ ~ m <= m - 1
        BY <1>1, <3>2
      <4>2. m - 1 \notin T
        BY <3>1, <4>1
      <4>3. QED
        BY <4>1, <4>2
    <3>4. P(m)
      BY <1>6, <3>3
    <3>5. QED
      BY <3>1, <3>4
  <2>2. k \in 0 .. k
    BY <1>1
  <2> HIDE DEF P
  <2>3. QED
    BY <2>1, <2>2
<1>8. \A i \in 1 .. k : E(k)[n + i].id = id + i - 1
  BY <1>2, <1>7
<1> HIDE DEF E
<1>9. QED
  BY <1>3, <1>5, <1>7, <1>8

-----------------------------------------------------------------------------
(* A layer that takes tokens in.                                           *)

\* Row cs is row bs with tokens and blocks added, the identifiers of these
\* from lo on and before hi.
Grown(bs, cs, lo, hi) ==
  /\ Row(cs, files)
  /\ Len(bs) <= Len(cs) /\ Managed(bs) <= Before(cs)[Len(bs)] /\ Managed(cs) <= seqLen
  /\ \A i \in 1 .. Len(bs) : cs[i].id = bs[i].id
  /\ \A i \in 1 .. Len(cs) : i > Len(bs) => cs[i].id \in lo .. hi - 1
  /\ \A i, j \in 1 .. Len(cs) :
       i > Len(bs) /\ j > Len(bs) /\ cs[i].id = cs[j].id => i = j

LEMMA GrownRow ==
  ASSUME NEW bs, NEW cs, NEW lo, NEW hi, Grown(bs, cs, lo, hi), Len(bs) \in Nat
  PROVE  Managed(bs) <= Managed(cs) /\ Managed(bs) \in Nat /\ Managed(cs) \in Nat
<1>1. Len(cs) \in Nat /\ Len(cs) \in 0 .. Len(cs) /\ Len(bs) \in 0 .. Len(cs)
  BY RowParts DEF Grown
<1>2. Before(cs)[Len(bs)] <= Before(cs)[Len(cs)]
  BY <1>1, BeforeMonotone
<1>3. /\ Before(cs)[Len(bs)] \in Nat /\ Managed(cs) = Before(cs)[Len(cs)]
      /\ Managed(bs) \in Nat /\ Managed(cs) \in Nat
  BY <1>1, BeforeIs
<1>4. QED
  BY <1>2, <1>3 DEF Grown

\* The same blocks at the front, down to their counts and identifiers.
LEMMA GrownCut ==
  ASSUME seqLen \in Nat, NEW bs, Len(bs) \in Nat, NEW cs, NEW lo, NEW hi, Grown(bs, cs, lo, hi),
         NEW ds, Row(ds, files), Len(bs) <= Len(ds), Len(ds) <= Len(cs),
         \A i \in 1 .. Len(ds) : ds[i].id = cs[i].id /\ ds[i].count = cs[i].count
  PROVE  Grown(bs, ds, lo, hi)
<1> DEFINE n == Len(bs)
           m == Len(ds)
<1>1. m \in Nat /\ Len(cs) \in Nat
  BY RowParts DEF Grown
<1>2. \A i \in 0 .. m : Before(ds)[i] = Before(cs)[i]
  BY <1>1, BeforeSame
<1>3. n \in 0 .. m /\ m \in 0 .. m /\ m \in 0 .. Len(cs) /\ Len(cs) \in 0 .. Len(cs)
  BY <1>1
<1>4. Managed(ds) <= Managed(cs)
  <2>1. Managed(ds) = Before(cs)[m] /\ Managed(cs) = Before(cs)[Len(cs)]
    BY <1>1, <1>2, <1>3, BeforeIs
  <2>2. QED
    BY <1>1, <1>3, <2>1, BeforeMonotone
<1>5. Managed(ds) <= seqLen
  BY <1>1, <1>4, BeforeIs DEF Grown
<1>6. QED
  <2>1. Managed(bs) <= Before(ds)[n]
    BY <1>2, <1>3 DEF Grown
  <2>2. \A i \in 1 .. m : i \in 1 .. Len(cs)
    BY <1>1
  <2>3. \A i \in 1 .. n : ds[i].id = bs[i].id
    <3>1. \A i \in 1 .. n : i \in 1 .. m
      BY <1>1
    <3>2. QED
      BY <3>1 DEF Grown
  <2>4. \A i \in 1 .. m : i > n => ds[i].id \in lo .. hi - 1
    BY <2>2 DEF Grown
  <2>5. \A i, j \in 1 .. m : i > n /\ j > n /\ ds[i].id = ds[j].id => i = j
    BY <2>2 DEF Grown
  <2>6. QED
    BY <1>5, <2>1, <2>3, <2>4, <2>5 DEF Grown

LEMMA GrownSame ==
  ASSUME NEW bs, Row(bs, files), Managed(bs) <= seqLen, NEW lo, NEW hi
  PROVE  Grown(bs, bs, lo, hi)
  BY RowParts, BeforeIs DEF Grown

LEMMA ExtendedGrown ==
  ASSUME seqLen \in 0 .. MaxTokens, NEW l \in Layers, Row(blocks[l], files),
         Managed(blocks[l]) <= seqLen,
         NEW k \in 0 .. NewBlocks[l], NEW id \in Nat, id + k <= MaxIds
  PROVE  /\ Grown(blocks[l], Extended(l, k, id), id, id + k)
         /\ Len(Extended(l, k, id)) = Len(blocks[l]) + k
<1> DEFINE bs == blocks[l]
           cs == Extended(l, k, id)
           n == Len(bs)
<1>1. /\ Row(cs, files) /\ Len(cs) = n + k
      /\ k = 0 => cs = bs
      /\ k # 0 => Managed(cs) = FreshPos(l, k) + FreshCount(l, k)
      /\ \A i \in 1 .. n : cs[i] = bs[i]
      /\ \A i \in 1 .. k : cs[n + i].id = id + i - 1
  BY ExtendedIs
<1>2. n \in Nat /\ seqLen \in Nat /\ k \in Nat /\ Managed(bs) \in Nat
  BY RowParts, BeforeIs, FreshSizes, Sizes
<1>3. Managed(cs) <= seqLen
  <2>1. CASE k = 0
    BY <1>1, <1>2, <2>1
  <2>2. CASE k # 0
    <3>1. k \in 1 .. NewBlocks[l]
      BY <1>2, <2>2
    <3>2. FreshPos(l, k) + FreshCount(l, k) <= seqLen
      BY <1>2, <3>1, FreshSizes
    <3>3. QED
      BY <1>1, <2>2, <3>2
  <2>3. QED
    BY <2>1, <2>2
<1>9. Before(cs)[n] = Managed(bs)
  <2> HIDE DEF bs, cs
  <2>1. Len(cs) \in Nat /\ n <= Len(bs) /\ n <= Len(cs) /\ \A i \in 1 .. n : cs[i].count = bs[i].count
    BY <1>1, <1>2
  <2>2. \A i \in 0 .. n : Before(cs)[i] = Before(bs)[i]
    BY <1>2, <2>1, BeforeSame
  <2>3. n \in 0 .. n
    BY <1>2
  <2>4. QED
    BY <1>2, <2>2, <2>3, BeforeIs
<1> HIDE DEF bs, cs, n
<1>4. ASSUME NEW i \in 1 .. Len(cs), i > n PROVE i - n \in 1 .. k /\ cs[i].id = id + (i - n) - 1
  <2>1. i - n \in 1 .. k /\ n + (i - n) = i
    BY <1>1, <1>2, <1>4
  <2>2. QED
    BY <1>1, <2>1
<1>5. \A i \in 1 .. Len(cs) : i > n => cs[i].id \in id .. (id + k) - 1
  BY <1>2, <1>4
<1>6. ASSUME NEW i \in 1 .. Len(cs), NEW j \in 1 .. Len(cs), i > n, j > n, cs[i].id = cs[j].id
      PROVE  i = j
  <2>1. id + (i - n) - 1 = id + (j - n) - 1
    BY <1>4, <1>6
  <2>2. QED
    BY <1>2, <2>1
<1>7. n <= Len(cs)
  BY <1>1, <1>2
<1>8. Grown(bs, cs, id, id + k)
  BY <1>1, <1>2, <1>3, <1>5, <1>6, <1>7, <1>9 DEF Grown, n
<1>10. QED
  BY <1>1, <1>8 DEF bs, cs, n

\* The last new block without its tensor.
LEMMA UnallocatedGrown ==
  ASSUME seqLen \in Nat, kind \in AllocMayFail, kind \in Kinds, NEW bs, Row(bs, files), NEW cs, NEW lo, NEW hi,
         Grown(bs, cs, lo, hi), Len(cs) > Len(bs)
  PROVE  Grown(bs, LastUnallocated(cs), lo, hi)
<1> DEFINE n == Len(cs)
<1>1. Row(cs, files) /\ n \in Nat /\ n # 0 /\ Len(bs) \in Nat
  BY RowParts DEF Grown
<1>2. CASE kind = "scored"
  <2> DEFINE b == [cs[n] EXCEPT !.gpu = NoData]
             ds == [cs EXCEPT ![n] = b]
  <2>1. LastUnallocated(cs) = ds
    BY <1>2 DEF LastUnallocated
  <2>2. Sound(cs[n], files) /\ cs[n] \in Block /\ n \in 1 .. Len(cs) /\ DOMAIN cs = 1 .. n
    BY <1>1, RowParts
  <2>3. /\ b \in Block /\ Same(cs[n], b) /\ b.tier = cs[n].tier /\ b.gpu = NoData
        /\ b.dram = cs[n].dram /\ b.saved = cs[n].saved
    BY <2>2 DEF Block, Same, Copies
  <2> HIDE DEF b
  <2>4. Sound(b, files)
    BY <1>2, <2>2, <2>3 DEF Sound, Holds, Hollow, Same
  <2>5. b.count \in Nat
    BY <2>3, Sizes DEF Block
  <2>6. Row(ds, files) /\ Len(ds) = n /\ Managed(ds) = Managed(cs) - cs[n].count + b.count
    BY <1>1, <2>3, <2>4, LastRow DEF Same
  <2>7. \A i \in 1 .. n : ds[i].id = cs[i].id /\ ds[i].count = cs[i].count
    BY <2>2, <2>3 DEF Same
  <2> HIDE DEF ds, n
  <2>8. Grown(bs, ds, lo, hi)
    BY <1>1, <2>6, <2>7, GrownCut DEF n
  <2>9. QED
    BY <2>1, <2>8
<1>3. CASE kind = "naive"
  <2> DEFINE ds == SubSeq(cs, 1, n - 1)
  <2>1. LastUnallocated(cs) = ds
    BY <1>3 DEF LastUnallocated
  <2>2. n - 1 \in 0 .. Len(cs) /\ Len(bs) <= n - 1 /\ n - 1 <= n
    BY <1>1
  <2>3. /\ Row(ds, files) /\ Len(ds) = n - 1
        /\ \A i \in 1 .. n - 1 : ds[i] = cs[i]
    BY <1>1, <2>2, PrefixRow
  <2> HIDE DEF ds
  <2>4. Grown(bs, ds, lo, hi)
    BY <1>1, <2>2, <2>3, GrownCut
  <2>5. QED
    BY <2>1, <2>4
<1>4. QED
  BY <1>2, <1>3 DEF Kinds

LEMMA AppendGrown ==
  ASSUME NEW bs, Row(bs, files), NEW b, Sound(b, files), b.start = Managed(bs),
         Managed(bs) + b.count <= seqLen, NEW lo, NEW hi, b.id \in lo .. hi - 1
  PROVE  Grown(bs, Append(bs, b), lo, hi) /\ Len(Append(bs, b)) = Len(bs) + 1
<1> DEFINE cs == Append(bs, b)
           n == Len(bs)
<1>1. /\ Row(cs, files) /\ Len(cs) = n + 1 /\ Managed(cs) = Managed(bs) + b.count
      /\ \A i \in 1 .. n : cs[i] = bs[i]
      /\ cs[n + 1] = b
  BY AppendRow
<1>2. n \in Nat
  BY RowParts
<1> HIDE DEF cs, n
<1>3. Before(cs)[n] = Managed(bs)
  <2>1. Len(cs) \in Nat /\ n <= Len(cs) /\ \A i \in 1 .. n : cs[i].count = bs[i].count
    BY <1>1, <1>2
  <2>2. \A i \in 0 .. n : Before(cs)[i] = Before(bs)[i]
    BY <1>2, <2>1, BeforeSame DEF n
  <2>3. n \in 0 .. n
    BY <1>2
  <2>4. QED
    BY <1>2, <2>2, <2>3, BeforeIs DEF n
<1>4. \A i \in 1 .. Len(cs) : i > n => i = n + 1
  BY <1>1, <1>2
<1>5. Managed(bs) \in Nat
  BY <1>2, BeforeIs DEF n
<1>6. Grown(bs, cs, lo, hi)
  <2>1. n <= Len(cs) /\ Managed(bs) <= Before(cs)[n] /\ Managed(cs) <= seqLen
    BY <1>1, <1>2, <1>3, <1>5
  <2>2. \A i \in 1 .. Len(cs) : i > n => cs[i].id \in lo .. hi - 1
    BY <1>1, <1>4
  <2>3. \A i, j \in 1 .. Len(cs) : i > n /\ j > n => i = j
    BY <1>4
  <2>4. QED
    BY <1>1, <2>1, <2>2, <2>3 DEF Grown, n
<1>7. QED
  BY <1>1, <1>6 DEF cs, n

\* The last block moved, or with one token more.
LEMMA LastGrown ==
  ASSUME NEW bs, Row(bs, files), Len(bs) # 0, NEW b, Sound(b, files),
         b.id = bs[Len(bs)].id, b.start = bs[Len(bs)].start,
         bs[Len(bs)].count <= b.count, seqLen \in Nat,
         Managed(bs) - bs[Len(bs)].count + b.count <= seqLen, NEW lo, NEW hi
  PROVE  Grown(bs, [bs EXCEPT ![Len(bs)] = b], lo, hi)
<1> DEFINE n == Len(bs)
           cs == [bs EXCEPT ![n] = b]
<1>1. /\ Row(cs, files) /\ Len(cs) = n
      /\ Managed(cs) = Managed(bs) - bs[n].count + b.count
  BY LastRow
<1>2. n \in Nat /\ DOMAIN bs = 1 .. n /\ bs[n].count \in Nat /\ b.count \in Nat
      /\ Managed(bs) \in Nat
  <2>1. n \in Nat /\ DOMAIN bs = 1 .. n /\ n \in 1 .. n
    BY RowParts
  <2>2. bs[n].count \in Nat /\ b.count \in Nat
    <3>1. bs[n].count \in 1 .. BlockSize
      BY <2>1, RowParts
    <3>2. b.count \in 0 .. BlockSize
      BY DEF Sound, Block
    <3> HIDE DEF n
    <3>3. QED
      BY <3>1, <3>2, Sizes
  <2>3. QED
    BY <2>1, <2>2, BeforeIs
<1>3. \A i \in 1 .. n : cs[i].id = bs[i].id
  BY <1>2
<1> HIDE DEF cs, n
<1>4. Managed(cs) = Before(cs)[n]
  BY <1>1, <1>2, BeforeIs
<1>5. Grown(bs, cs, lo, hi)
  BY <1>1, <1>2, <1>3, <1>4 DEF Grown, n
<1>6. QED
  BY <1>5 DEF cs, n

LEMMA PromotedOnGpu ==
  ASSUME NEW b, Sound(b, files) PROVE Promoted(b).tier = "GPU"
<1>1. ASSUME NEW c, Sound(c, files), c.tier = "DRAM" PROVE Promoted(c).tier = "GPU"
  <2>1. c.dram # NoData /\ c \in Block
    BY <1>1, TensorIsData DEF Sound, Holds
  <2>2. QED
    BY <1>1, <2>1 DEF Promoted, Block
<1>2. CASE b.tier = "SSD"
  <2> DEFINE c == Loaded(b)
  <2>1. Sound(c, files) /\ c.tier = "DRAM"
    BY <1>2, LoadedSound
  <2>2. Promoted(b) = Promoted(c)
    <3>1. Promoted(b) = IF c.tier = "DRAM" /\ c.dram # NoData
                        THEN [c EXCEPT !.gpu = c.dram, !.tier = "GPU", !.told = "GPU"] ELSE c
      BY <1>2 DEF Promoted
    <3> HIDE DEF c
    <3>2. Promoted(c) = IF c.tier = "DRAM" /\ c.dram # NoData
                        THEN [c EXCEPT !.gpu = c.dram, !.tier = "GPU", !.told = "GPU"] ELSE c
      BY <2>1 DEF Promoted
    <3>3. QED
      BY <3>1, <3>2
  <2> HIDE DEF c
  <2>3. QED
    BY <1>1, <2>1, <2>2
<1>3. CASE b.tier = "GPU"
  BY <1>3 DEF Promoted
<1>4. QED
  BY <1>1, <1>2, <1>3 DEF Sound, Block, Tiers

LEMMA WithTokenSound ==
  ASSUME NEW b, Sound(b, files), b.tier = "GPU", b.gpu # NoData, b.count < BlockSize,
         seqLen \in 0 .. MaxTokens, seqLen = b.start + b.count + 1
  PROVE  /\ Sound(WithToken(b), files) /\ WithToken(b).id = b.id
         /\ WithToken(b).start = b.start /\ WithToken(b).count = b.count + 1
<1> DEFINE d == [s \in Slots |-> IF s = b.count + 1 THEN seqLen ELSE b.gpu[s]]
           c == [b EXCEPT !.gpu = d, !.count = @ + 1]
<1>1. b \in Block /\ Holds(b, b.gpu) /\ b.count \in Nat /\ b.start \in Nat
  BY Sizes DEF Sound, Hollow, Block
<1>2. d \in Tensors
  BY <1>1 DEF Holds, Tensors
<1>3. \A s \in 1 .. b.count + 1 : s \in Slots /\ d[s] = b.start + s
  <2> SUFFICES ASSUME NEW s \in 1 .. b.count + 1 PROVE s \in Slots /\ d[s] = b.start + s
    OBVIOUS
  <2>1. s \in Slots
    BY <1>1, Sizes DEF Slots
  <2>2. d[s] = IF s = b.count + 1 THEN seqLen ELSE b.gpu[s]
    BY <2>1
  <2> HIDE DEF d
  <2>3. QED
    BY <1>1, <2>1, <2>2 DEF Holds
<1> HIDE DEF d
<1>4. /\ c \in Block /\ c.id = b.id /\ c.start = b.start /\ c.count = b.count + 1
      /\ c.gpu = d /\ c.tier = "GPU"
  <2>1. d \in Copies /\ b.count + 1 \in 0 .. BlockSize
    BY <1>1, <1>2, Sizes DEF Copies
  <2>2. b \in Block
    BY <1>1
  <2>3. c.id = b.id /\ c.start = b.start /\ c.count = b.count + 1 /\ c.gpu = d /\ c.tier = "GPU"
    BY <2>2 DEF Block
  <2>4. c \in Block
    BY <2>1, <2>2 DEF Block
  <2>5. QED
    BY <2>3, <2>4
<1>5. WithToken(b) = c
  BY DEF WithToken, d
<1> HIDE DEF c
<1>6. Holds(c, c.gpu) /\ c.count # 0
  BY <1>1, <1>2, <1>3, <1>4 DEF Holds
<1>7. QED
  BY <1>4, <1>5, <1>6 DEF Sound

LEMMA FilledOne ==
  ASSUME NEW pos \in Nat, seqLen = pos + 1
  PROVE  [s \in Slots |-> IF s = 1 THEN seqLen ELSE 0] = Filled(pos, 1)
<1>1. \A s \in Slots : (IF s = 1 THEN seqLen ELSE 0) = (IF s <= 1 THEN pos + s ELSE 0)
  BY Sizes DEF Slots
<1>2. QED
  BY <1>1 DEF Filled

\* What append_token makes of a layer.
LEMMA OpenedGrown ==
  ASSUME seqLen \in 0 .. MaxTokens, NEW l \in Layers, Row(blocks[l], files),
         seqLen = Managed(blocks[l]) + 1, NEW id \in Nat, id + 1 <= MaxIds
  PROVE  /\ Grown(blocks[l], Opened(l, id), id, id + 1)
         /\ Len(Opened(l, id)) = Len(blocks[l]) + 1
<1> DEFINE bs == blocks[l]
           pos == Managed(bs)
           b == NewBlock(id, pos, 1, Filled(pos, 1))
<1>1. pos \in Nat /\ Len(bs) \in Nat
  BY RowParts, BeforeIs
<1>2. Opened(l, id) = Append(bs, b)
  BY <1>1, FilledOne DEF Opened
<1>3. id \in Ids /\ 1 \in 1 .. BlockSize /\ pos + 1 <= MaxTokens
  BY <1>1, Sizes DEF Ids
<1> HIDE DEF pos
<1>4. Sound(b, files) /\ b.start = pos /\ b.count = 1 /\ b.id = id
  <2>1. Sound(b, files)
    BY <1>1, <1>3, NewBlockSound
  <2>2. b.start = pos /\ b.count = 1 /\ b.id = id
    BY <1>1, <1>3, <2>1, NewBlockSound
  <2>3. QED
    BY <2>1, <2>2
<1> HIDE DEF b
<1>5. b.id \in id .. (id + 1) - 1
  BY <1>4
<1>6. b.start = Managed(bs) /\ Managed(bs) + b.count <= seqLen
  BY <1>1, <1>4 DEF pos
<1>7. Grown(bs, Append(bs, b), id, id + 1) /\ Len(Append(bs, b)) = Len(bs) + 1
  BY <1>4, <1>5, <1>6, AppendGrown
<1>8. QED
  BY <1>2, <1>7

LEMMA RoomAtEnd ==
  ASSUME NEW l \in Layers, Row(blocks[l], files), blocks[l] # << >>
  PROVE  Len(blocks[l]) # 0 /\ Len(blocks[l]) \in 1 .. Len(blocks[l])
         /\ Sound(blocks[l][Len(blocks[l])], files)
         /\ Managed(blocks[l]) = blocks[l][Len(blocks[l])].start + blocks[l][Len(blocks[l])].count
<1> DEFINE bs == blocks[l]
           n == Len(bs)
<1>1. n \in Nat /\ n # 0
  BY RowParts, EmptySeq DEF Row
<1>2. n \in 1 .. n /\ n \in 0 .. n
  BY <1>1
<1>3. Sound(bs[n], files) /\ bs[n].start = Before(bs)[n - 1]
      /\ Before(bs)[n] = Before(bs)[n - 1] + bs[n].count
  BY <1>2, RowParts
<1>4. Managed(bs) = Before(bs)[n]
  BY <1>1, BeforeIs
<1>5. QED
  BY <1>1, <1>2, <1>3, <1>4

LEMMA AppendedGrown ==
  ASSUME seqLen \in 0 .. MaxTokens, kind \in Kinds, NEW l \in Layers, Row(blocks[l], files),
         Managed(blocks[l]) <= seqLen, OneMore(l), ~ Unwritable(l),
         NEW id \in Nat, id + Appending[l] <= MaxIds
  PROVE  Grown(blocks[l], Appended(l, id), id, id + Appending[l])
<1> DEFINE bs == blocks[l]
           n == Len(bs)
<1>1. Managed(bs) \in Nat /\ n \in Nat /\ seqLen \in Nat
  BY RowParts, BeforeIs, Sizes
<1>2. CASE ~ Behind(l)
  <2>1. Appended(l, id) = bs
    BY <1>2 DEF Appended
  <2>2. QED
    BY <2>1, GrownSame
<1>3. CASE Behind(l) /\ HasRoom(l)
  <2> DEFINE b == Promoted(bs[n])
             c == WithToken(b)
  <2>1. /\ bs # << >> /\ bs[n].count < BlockSize /\ b.gpu # NoData
    BY <1>3 DEF HasRoom, Unwritable
  <2>2. n # 0 /\ Sound(bs[n], files) /\ Managed(bs) = bs[n].start + bs[n].count
    BY <2>1, RoomAtEnd
  <2>3. Sound(b, files) /\ Same(bs[n], b) /\ b.tier = "GPU"
    BY <2>2, PromotedSound, PromotedOnGpu
  <2>4. seqLen = Managed(bs) + 1
    BY <1>1, <1>3, <2>1 DEF OneMore, Behind
  <2>5. Appended(l, id) = [bs EXCEPT ![n] = c]
    <3>1. Appended(l, id) = [bs EXCEPT ![n] = WithToken(Promoted(@))]
      BY <1>3 DEF Appended, HasRoom
    <3> HIDE DEF n
    <3>2. QED
      BY <3>1
  <2> HIDE DEF b
  <2>6. b.count < BlockSize /\ seqLen = b.start + b.count + 1
    BY <2>1, <2>2, <2>3, <2>4 DEF Same
  <2>7. Sound(c, files) /\ c.id = b.id /\ c.start = b.start /\ c.count = b.count + 1
    BY <2>1, <2>3, <2>6, WithTokenSound
  <2>8. bs[n].count \in Nat
    BY <2>2, Sizes DEF Sound, Block
  <2> HIDE DEF c, n
  <2>9. /\ c.id = bs[n].id /\ c.start = bs[n].start /\ c.count = bs[n].count + 1
    BY <2>3, <2>7 DEF Same
  <2>10. bs[n].count <= c.count /\ Managed(bs) - bs[n].count + c.count <= seqLen
    BY <1>1, <2>4, <2>8, <2>9
  <2>11. Grown(bs, [bs EXCEPT ![n] = c], id, id + Appending[l])
    BY <1>1, <2>2, <2>7, <2>9, <2>10, LastGrown DEF n
  <2>12. QED
    BY <2>5, <2>11
<1>4. CASE Behind(l) /\ ~ HasRoom(l) /\ kind = "scored" /\ bs = << >>
  <2>1. Appended(l, id) = Extended(l, NewBlocks[l], id) /\ Appending[l] = NewBlocks[l]
    BY <1>4 DEF Appended, Appending
  <2>2. NewBlocks[l] \in 0 .. NewBlocks[l]
    BY <1>1, FreshSizes
  <2>3. QED
    BY <2>1, <2>2, ExtendedGrown
<1>5. CASE Behind(l) /\ ~ HasRoom(l) /\ ~ (kind = "scored" /\ bs = << >>)
  <2>1. Appended(l, id) = Opened(l, id) /\ Appending[l] = 1
    BY <1>5 DEF Appended, Appending
  <2>2. seqLen = Managed(bs) + 1
    BY <1>1, <1>5 DEF OneMore, Behind
  <2>3. QED
    BY <2>1, <2>2, OpenedGrown
<1>6. QED
  BY <1>2, <1>3, <1>4, <1>5

LEMMA PrefixConcat ==
  ASSUME NEW S, NEW bs \in Seq(S), NEW m \in Nat, NEW k \in 0 .. m,
         NEW f \in [1 .. m -> S]
  PROVE  SubSeq(bs \o f, 1, Len(bs) + k) = bs \o [j \in 1 .. k |-> f[j]]
<1> DEFINE g == [j \in 1 .. k |-> f[j]]
           c == bs \o f
           n == Len(bs)
<1>1. g \in Seq(S) /\ Len(g) = k /\ f \in Seq(S) /\ Len(f) = m /\ n \in Nat
  <2>1. g \in [1 .. k -> S]
    OBVIOUS
  <2> HIDE DEF g
  <2>2. QED
    BY <2>1
<1>2. \A j \in 1 .. k : g[j] = f[j]
  OBVIOUS
<1> HIDE DEF g
<1>3. /\ c \in Seq(S) /\ Len(c) = n + m
      /\ \A i \in 1 .. n + m : c[i] = IF i <= n THEN bs[i] ELSE f[i - n]
  <2>1. /\ c \in Seq(S) /\ Len(c) = n + Len(f)
        /\ \A i \in 1 .. n + Len(f) : c[i] = IF i <= n THEN bs[i] ELSE f[i - n]
    BY <1>1, ConcatProperties
  <2>2. QED
    BY <1>1, <2>1
<1>4. /\ bs \o g \in Seq(S) /\ Len(bs \o g) = n + k
      /\ \A i \in 1 .. n + k : (bs \o g)[i] = IF i <= n THEN bs[i] ELSE g[i - n]
  <2>1. /\ bs \o g \in Seq(S) /\ Len(bs \o g) = n + Len(g)
        /\ \A i \in 1 .. n + Len(g) : (bs \o g)[i] = IF i <= n THEN bs[i] ELSE g[i - n]
    BY <1>1, ConcatProperties
  <2>2. QED
    BY <1>1, <2>1
<1> DEFINE d == SubSeq(c, 1, n + k)
           e == bs \o g
<1> HIDE DEF c, n
<1>5. d \in Seq(S) /\ Len(d) = n + k /\ \A i \in 1 .. n + k : d[i] = c[i]
  <2> DEFINE q == n + k
  <2>1. q \in 0 .. Len(c)
    BY <1>1, <1>3
  <2> HIDE DEF q
  <2>2. SubSeq(c, 1, q) \in Seq(S) /\ Len(SubSeq(c, 1, q)) = q
        /\ \A i \in 1 .. q : SubSeq(c, 1, q)[i] = c[i]
    BY <1>3, <2>1, SubSeqProperties
  <2>3. QED
    BY <2>2 DEF q
<1> HIDE DEF d, e
<1>6. \A i \in 1 .. n + k : d[i] = e[i]
  <2> SUFFICES ASSUME NEW i \in 1 .. n + k PROVE d[i] = e[i]
    OBVIOUS
  <2>1. i \in 1 .. n + m /\ (i > n => i - n \in 1 .. k)
    BY <1>1
  <2>2. QED
    BY <1>1, <1>2, <1>3, <1>4, <1>5, <2>1 DEF e
<1>7. d = e
  BY <1>4, <1>5, <1>6, SeqEqual DEF e
<1>8. QED
  BY <1>7 DEF d, e, c, n, g

LEMMA ExtendedPrefix ==
  ASSUME NEW l \in Layers, Row(blocks[l], files), NEW m \in Nat, NEW k \in 0 .. m, NEW id
  PROVE  SubSeq(Extended(l, m, id), 1, Len(blocks[l]) + k) = Extended(l, k, id)
<1> DEFINE bs == blocks[l]
           f == [j \in 1 .. m |-> FreshAt(l, j, id)]
           S == Block \cup {FreshAt(l, j, id) : j \in 1 .. m}
<1>1. Extended(l, m, id) = bs \o f
  BY DEF Extended, FreshAt, FreshPos, FreshCount
<1>2. Extended(l, k, id) = bs \o [j \in 1 .. k |-> f[j]]
  <2>1. \A j \in 1 .. k : f[j] = FreshAt(l, j, id)
    OBVIOUS
  <2>2. [j \in 1 .. k |-> f[j]] = [j \in 1 .. k |-> FreshAt(l, j, id)]
    BY <2>1
  <2>3. Extended(l, k, id) = bs \o [j \in 1 .. k |-> FreshAt(l, j, id)]
    BY DEF Extended, FreshAt, FreshPos, FreshCount
  <2>4. QED
    BY <2>2, <2>3
<1>3. f \in [1 .. m -> S]
  OBVIOUS
<1>4. bs \in Seq(S)
  BY DEF Row
<1> HIDE DEF f, S
<1>5. QED
  BY <1>1, <1>2, <1>3, <1>4, PrefixConcat

\* What a failing append_token leaves of a layer.
LEMMA AppendLeftGrown ==
  ASSUME seqLen \in 0 .. MaxTokens, kind \in Kinds, NEW l \in Layers, Row(blocks[l], files),
         Managed(blocks[l]) <= seqLen, OneMore(l), NEW id \in Nat,
         NEW left \in AppendLeft(l, id), id + left[2] <= MaxIds
  PROVE  left[2] \in Nat /\ Grown(blocks[l], left[1], id, id + left[2])
<1> DEFINE bs == blocks[l]
           n == Len(bs)
<1>1. Managed(bs) \in Nat /\ n \in Nat /\ seqLen \in Nat
  BY RowParts, BeforeIs, Sizes
<1>2. ASSUME NEW b, HasRoom(l), NEW hi,
             \/ b = Promoted(bs[n]) \/ b = PromotionFailed(bs[n])
             \/ b = HalfLoaded(bs[n]) \/ b = bs[n]
      PROVE  Grown(bs, [bs EXCEPT ![n] = b], id, hi)
  <2>1. n # 0 /\ Sound(bs[n], files)
    BY <1>2, RoomAtEnd DEF HasRoom
  <2>2. Sound(b, files) /\ Same(bs[n], b)
    BY <1>2, <2>1, PromotedSound, HalfLoadedSound DEF Same
  <2>3. bs[n].count \in Nat
    BY <2>1, Sizes DEF Sound, Block
  <2> HIDE DEF bs, n
  <2>4. bs[n].count <= b.count /\ Managed(bs) - bs[n].count + b.count <= seqLen
    BY <1>1, <2>2, <2>3 DEF Same, bs
  <2>5. Grown(bs, [bs EXCEPT ![Len(bs)] = b], id, hi)
    BY <1>1, <2>1, <2>2, <2>4, LastGrown DEF Same, n, bs
  <2>6. QED
    BY <2>5 DEF n
<1>3. CASE left = <<[bs EXCEPT ![n] = PromotionFailed(bs[n])], 0>> /\ HasRoom(l)
  <2>1. Grown(bs, [bs EXCEPT ![n] = PromotionFailed(bs[n])], id, id + 0)
    BY <1>2, <1>3
  <2>2. left[1] = [bs EXCEPT ![n] = PromotionFailed(bs[n])] /\ left[2] = 0
    BY <1>3
  <2>3. QED
    BY <2>1, <2>2
<1>4. CASE left = <<[bs EXCEPT ![n] = Promoted(bs[n])], 0>> /\ HasRoom(l)
  <2>1. Grown(bs, [bs EXCEPT ![n] = Promoted(bs[n])], id, id + 0)
    BY <1>2, <1>4
  <2>2. left[1] = [bs EXCEPT ![n] = Promoted(bs[n])] /\ left[2] = 0
    BY <1>4
  <2>3. QED
    BY <2>1, <2>2
<1>5. ASSUME NEW k \in 1 .. Appending[l], kind \in AllocMayFail,
             left = <<LastUnallocated(SubSeq(Appended(l, id), 1, n + k)), k>>
      PROVE  left[2] \in Nat /\ Grown(bs, left[1], id, id + left[2])
  <2> DEFINE cs == SubSeq(Appended(l, id), 1, n + k)
  <2>1. left[1] = LastUnallocated(cs) /\ left[2] = k
    BY <1>5
  <2>2. Appending[l] # 0 \/ k \notin 1 .. Appending[l]
    OBVIOUS
  <2>3. Behind(l) /\ ~ HasRoom(l) /\ k # 0
    <3>1. Appending[l] = 0 => FALSE
      OBVIOUS
    <3>2. ~ Behind(l) \/ HasRoom(l) => Appending[l] = 0
      <4>1. HasRoom(l) => bs # << >>
        BY DEF HasRoom
      <4>2. QED
        BY <4>1 DEF Appending
    <3>3. ASSUME k = 0 PROVE FALSE
      BY <3>3
    <3>4. QED
      BY <3>1, <3>2, <3>3
  <2>4. k \in Nat /\ id + k <= MaxIds /\ Grown(bs, cs, id, id + k) /\ Len(cs) = n + k
    <3>1. CASE kind = "scored" /\ bs = << >>
      <4>1. Appended(l, id) = Extended(l, NewBlocks[l], id) /\ Appending[l] = NewBlocks[l]
        BY <2>3, <3>1 DEF Appended, Appending
      <4>2. NewBlocks[l] \in Nat
        BY <1>1, FreshSizes
      <4>3. k \in 0 .. NewBlocks[l] /\ k \in Nat
        BY <4>1, <4>2
      <4>4. cs = Extended(l, k, id)
        BY <4>1, <4>2, <4>3, ExtendedPrefix
      <4> HIDE DEF cs
      <4>5. QED
        BY <2>1, <4>3, <4>4, ExtendedGrown
    <3>2. CASE ~ (kind = "scored" /\ bs = << >>)
      <4> DEFINE os == Opened(l, id)
      <4>1. Appended(l, id) = os /\ Appending[l] = 1
        BY <2>3, <3>2 DEF Appended, Appending
      <4>2. k = 1 /\ id + 1 <= MaxIds
        BY <2>1, <4>1
      <4>3. seqLen = Managed(bs) + 1
        BY <1>1, <2>3, <3>2 DEF OneMore, Behind
      <4>4. Grown(bs, os, id, id + 1) /\ Len(os) = n + 1
        BY <4>2, <4>3, OpenedGrown
      <4>5. cs = SubSeq(os, 1, n + 1)
        BY <4>1, <4>2
      <4> HIDE DEF os, cs, n
      <4>6. os \in Seq(Block) /\ n + 1 \in 0 .. Len(os)
        BY <1>1, <4>4 DEF Grown, Row
      <4>7. /\ cs \in Seq(Block) /\ Len(cs) = n + 1
            /\ \A i \in 1 .. n + 1 : cs[i] = os[i]
        <5> DEFINE m == n + 1
        <5> HIDE DEF m
        <5>1. m \in 0 .. Len(os) /\ cs = SubSeq(os, 1, m)
          BY <4>5, <4>6 DEF m
        <5>2. cs \in Seq(Block) /\ Len(cs) = m /\ \A i \in 1 .. m : cs[i] = os[i]
          BY <4>6, <5>1, SubSeqProperties
        <5>3. QED
          BY <5>2 DEF m
      <4>8. cs = os
        BY <4>4, <4>6, <4>7, SeqEqual
      <4>9. QED
        BY <4>2, <4>4, <4>8
    <3>3. QED
      BY <3>1, <3>2
  <2> HIDE DEF cs
  <2>5. Len(cs) > Len(bs)
    BY <1>1, <2>3, <2>4
  <2>6. Grown(bs, LastUnallocated(cs), id, id + k)
    BY <1>1, <1>5, <2>4, <2>5, UnallocatedGrown
  <2>7. QED
    BY <2>1, <2>4, <2>6
<1>6. CASE left = <<[bs EXCEPT ![n] = HalfLoaded(bs[n])], 0>> /\ HasRoom(l)
  <2>1. Grown(bs, [bs EXCEPT ![n] = HalfLoaded(bs[n])], id, id + 0)
    BY <1>2, <1>6
  <2>2. left[1] = [bs EXCEPT ![n] = HalfLoaded(bs[n])] /\ left[2] = 0
    BY <1>6
  <2>3. QED
    BY <2>1, <2>2
<1>7. CASE left = <<[bs EXCEPT ![n] = bs[n]], 0>> /\ HasRoom(l)
  <2>1. Grown(bs, [bs EXCEPT ![n] = bs[n]], id, id + 0)
    BY <1>2, <1>7
  <2>2. left[1] = [bs EXCEPT ![n] = bs[n]] /\ left[2] = 0
    BY <1>7
  <2>3. QED
    BY <2>1, <2>2
<1>8. \/ HasRoom(l) /\ left = <<[bs EXCEPT ![n] = Promoted(bs[n])], 0>>
      \/ HasRoom(l) /\ left = <<[bs EXCEPT ![n] = PromotionFailed(bs[n])], 0>>
      \/ HasRoom(l) /\ left = <<[bs EXCEPT ![n] = HalfLoaded(bs[n])], 0>>
      \/ HasRoom(l) /\ left = <<[bs EXCEPT ![n] = bs[n]], 0>>
      \/ /\ kind \in AllocMayFail
         /\ \E k \in 1 .. Appending[l] :
              left = <<LastUnallocated(SubSeq(Appended(l, id), 1, n + k)), k>>
  BY Zenon DEF AppendLeft, Unwritable
<1>9. QED
  BY <1>3, <1>4, <1>5, <1>6, <1>7, <1>8

-----------------------------------------------------------------------------
(* Identifiers.                                                            *)

LEMMA FirstIdIs ==
  ASSUME NEW new, \A m \in Layers : new[m] \in 0 .. MaxTokens, nextId \in Nat
  PROVE  /\ FirstId(1, new) = nextId
         /\ \A l \in 1 .. NLayers + 1 : FirstId(l, new) \in Nat
         /\ \A l \in Layers : FirstId(l + 1, new) = FirstId(l, new) + new[l]
         /\ \A l \in 1 .. NLayers + 1 : \A m \in 1 .. l : FirstId(m, new) <= FirstId(l, new)
<1> DEFINE C(l) == Cardinality(Pairs(new, l - 1, MaxTokens))
<1>1. \A l : FirstId(l, new) = nextId + C(l)
  BY DEF FirstId, Pairs
<1>2. \A l \in 1 .. NLayers + 1 : l - 1 \in Nat /\ C(l) \in Nat
  BY Sizes, PairsFinite
<1>3. C(1) = 0
  BY PairsNone
<1>4. ASSUME NEW l \in Layers PROVE C(l + 1) = C(l) + new[l]
  <2>1. l \in Nat \ {0} /\ (l + 1) - 1 = l
    BY Sizes DEF Layers
  <2>2. Cardinality(Pairs(new, l, MaxTokens)) = Cardinality(Pairs(new, l - 1, MaxTokens)) + new[l]
    BY <2>1, Sizes, PairsStep
  <2>3. QED
    BY <2>1, <2>2
<1>5. ASSUME NEW l \in 1 .. NLayers + 1, NEW m \in 1 .. l PROVE C(m) <= C(l)
  <2>1. l - 1 \in Nat /\ m - 1 \in 0 .. l - 1
    BY Sizes
  <2>2. QED
    BY <2>1, Sizes, PairsMonotone
<1>6. \A l \in Layers : l \in 1 .. NLayers + 1 /\ l + 1 \in 1 .. NLayers + 1
  BY Sizes DEF Layers
<1>7. \A l \in 1 .. NLayers + 1 : \A m \in 1 .. l : m \in 1 .. NLayers + 1
  BY Sizes
<1>8. 1 \in 1 .. NLayers + 1
  BY Sizes
<1> HIDE DEF C
<1>9. FirstId(1, new) = nextId
  BY <1>1, <1>3
<1>10. \A l \in 1 .. NLayers + 1 : FirstId(l, new) \in Nat
  BY <1>1, <1>2
<1>11. \A l \in Layers : FirstId(l + 1, new) = FirstId(l, new) + new[l]
  <2> SUFFICES ASSUME NEW l \in Layers PROVE FirstId(l + 1, new) = FirstId(l, new) + new[l]
    OBVIOUS
  <2>1. C(l) \in Nat /\ C(l + 1) = C(l) + new[l] /\ new[l] \in Nat
    BY <1>2, <1>4, <1>6, Sizes
  <2>2. FirstId(l + 1, new) = nextId + C(l + 1) /\ FirstId(l, new) = nextId + C(l)
    BY <1>1
  <2>3. QED
    BY <2>1, <2>2
<1>12. \A l \in 1 .. NLayers + 1 : \A m \in 1 .. l : FirstId(m, new) <= FirstId(l, new)
  <2> SUFFICES ASSUME NEW l \in 1 .. NLayers + 1, NEW m \in 1 .. l
               PROVE  FirstId(m, new) <= FirstId(l, new)
    OBVIOUS
  <2>1. C(l) \in Nat /\ C(m) \in Nat /\ C(m) <= C(l)
    BY <1>2, <1>5, <1>7
  <2>2. FirstId(m, new) = nextId + C(m) /\ FirstId(l, new) = nextId + C(l)
    BY <1>1
  <2>3. QED
    BY <2>1, <2>2
<1>13. QED
  BY <1>9, <1>10, <1>11, <1>12

LEMMA NewBlocksBound ==
  ASSUME seqLen \in 0 .. MaxTokens, NEW l \in Layers, Row(blocks[l], files)
  PROVE  NewBlocks[l] \in 0 .. MaxTokens /\ Appending[l] \in 0 .. MaxTokens
<1>1. Len(blocks[l]) \in Nat /\ seqLen \in Nat /\ seqLen <= MaxTokens /\ Managed(blocks[l]) \in Nat
  BY RowParts, BeforeIs, Sizes
<1>2. NewBlocks[l] \in 0 .. MaxTokens
  <2>1. NewBlocks[l] \in Nat /\ NewBlocks[l] <= seqLen
    BY <1>1, FreshSizes
  <2>2. QED
    BY <1>1, <2>1, Sizes
<1>3. CASE ~ Behind(l) \/ HasRoom(l)
  <2>1. Appending[l] = 0
    <3>1. HasRoom(l) => blocks[l] # << >>
      BY DEF HasRoom
    <3>2. QED
      BY <1>3, <3>1 DEF Appending
  <2>2. QED
    BY <1>2, <2>1, Sizes
<1>4. CASE Behind(l) /\ ~ HasRoom(l)
  <2>1. Appending[l] = NewBlocks[l] \/ Appending[l] = 1
    BY <1>4 DEF Appending
  <2>2. MaxTokens >= 1
    BY <1>1, <1>4, Sizes DEF Behind
  <2>3. QED
    BY <1>2, <2>1, <2>2, Sizes
<1>5. QED
  BY <1>3, <1>4

-----------------------------------------------------------------------------
(* Tables.                                                                 *)

\* Every block of a table has an identifier of its own, given out before n.
Apart(t, n) ==
  /\ \A l \in Layers : \A i \in 1 .. Len(t[l]) : t[l][i].id < n
  /\ \A l, m \in Layers : \A i \in 1 .. Len(t[l]) : \A j \in 1 .. Len(t[m]) :
       t[l][i].id = t[m][j].id => l = m /\ i = j

DataTable(t, fs) ==
  /\ t = [l \in Layers |-> t[l]]
  /\ \A l \in Layers : Row(t[l], fs) /\ Managed(t[l]) <= seqLen
  /\ Apart(t, nextId)

DInv ==
  /\ kind \in Kinds /\ seqLen \in 0 .. MaxTokens /\ nextId \in 0 .. MaxIds
  /\ files \in [Ids -> Tensors \cup {NoFile, Torn}]
  /\ DataTable(blocks, files)

\* The blocks of t, in the same order, moved about.
Rearranged(t, u) ==
  /\ u = [l \in Layers |-> [i \in 1 .. Len(t[l]) |-> u[l][i]]]
  /\ \A l \in Layers : \A i \in 1 .. Len(t[l]) : Same(t[l][i], u[l][i])

\* No layer has fewer tokens than before.
NoneGone(t, u) == \A l \in Layers : Managed(t[l]) <= Managed(u[l])

LEMMA RearrangedTable ==
  ASSUME NEW t, NEW u, NEW fs, NEW gs, DataTable(t, fs), Rearranged(t, u),
         \A l \in Layers : \A i \in 1 .. Len(t[l]) : Sound(u[l][i], gs)
  PROVE  /\ DataTable(u, gs) /\ NoneGone(t, u)
         /\ \A l \in Layers : Len(u[l]) = Len(t[l])
<1>1. ASSUME NEW l \in Layers
      PROVE  /\ Row(u[l], gs) /\ Len(u[l]) = Len(t[l]) /\ Managed(u[l]) = Managed(t[l])
             /\ Managed(t[l]) \in Nat
  <2> DEFINE bs == t[l]
             cs == u[l]
  <2>1. Row(bs, fs) /\ cs = [i \in 1 .. Len(bs) |-> cs[i]]
        /\ \A i \in 1 .. Len(bs) : Same(bs[i], cs[i]) /\ Sound(cs[i], gs)
    BY DEF DataTable, Rearranged
  <2> HIDE DEF bs, cs
  <2>2. Row(cs, gs) /\ Len(cs) = Len(bs) /\ Managed(cs) = Managed(bs)
    BY <2>1, MovedRow
  <2>3. Managed(bs) \in Nat
    BY <2>1, RowParts, BeforeIs
  <2>4. QED
    BY <2>2, <2>3 DEF bs, cs
<1>2. u = [l \in Layers |-> u[l]]
  BY DEF Rearranged
<1>3. Apart(u, nextId)
  <2>1. \A l \in Layers : \A i \in 1 .. Len(u[l]) : i \in 1 .. Len(t[l]) /\ u[l][i].id = t[l][i].id
    BY <1>1 DEF Rearranged, Same
  <2>2. Apart(t, nextId)
    BY DEF DataTable
  <2>3. QED
    BY <2>1, <2>2 DEF Apart
<1>4. \A l \in Layers : Managed(u[l]) <= seqLen
  BY <1>1 DEF DataTable
<1>5. NoneGone(t, u)
  BY <1>1 DEF NoneGone
<1>6. QED
  BY <1>1, <1>2, <1>3, <1>4, <1>5 DEF DataTable

\* The movements of a call, one operator each.
LEMMA DemotedData ==
  ASSUME NEW t, NEW fs, DataTable(t, fs), NEW S
  PROVE  DataTable(Changed(t, S, Demoted), fs) /\ NoneGone(t, Changed(t, S, Demoted))
<1> DEFINE u == Changed(t, S, Demoted)
<1>1. \A l \in Layers : \A i \in 1 .. Len(t[l]) : Sound(t[l][i], fs)
  BY DEF DataTable, Row
<1>2. ASSUME NEW l \in Layers, NEW i \in 1 .. Len(t[l])
      PROVE  Same(t[l][i], u[l][i]) /\ Sound(u[l][i], fs)
  <2>1. u[l][i] = IF <<l, i>> \in S THEN Demoted(t[l][i]) ELSE t[l][i]
    BY DEF Changed
  <2> HIDE DEF u
  <2>2. QED
    BY <1>1, <2>1, DemotedSound DEF Same
<1>3. u = [l \in Layers |-> [i \in 1 .. Len(t[l]) |-> u[l][i]]]
  BY DEF Changed
<1> HIDE DEF u
<1>4. Rearranged(t, u)
  BY <1>2, <1>3 DEF Rearranged
<1>5. DataTable(u, fs) /\ NoneGone(t, u)
  BY <1>2, <1>4, RearrangedTable
<1>6. QED
  BY <1>5 DEF u

LEMMA PromotedData ==
  ASSUME NEW t, NEW fs, DataTable(t, fs), NEW S,
         fs = files \/ \A x \in S : x \in Places(t) => At(t, x).tier = "DRAM"
  PROVE  DataTable(Changed(t, S, Promoted), fs) /\ NoneGone(t, Changed(t, S, Promoted))
<1> DEFINE u == Changed(t, S, Promoted)
<1>1. \A l \in Layers : \A i \in 1 .. Len(t[l]) : Sound(t[l][i], fs)
  BY DEF DataTable, Row
<1>2. ASSUME NEW l \in Layers, NEW i \in 1 .. Len(t[l])
      PROVE  Same(t[l][i], u[l][i]) /\ Sound(u[l][i], fs)
  <2>1. u[l][i] = IF <<l, i>> \in S THEN Promoted(t[l][i]) ELSE t[l][i]
    BY DEF Changed
  <2>2. <<l, i>> \in S => fs = files \/ t[l][i].tier = "DRAM"
    BY DEF Places, At
  <2> HIDE DEF u
  <2>3. QED
    BY <1>1, <2>1, <2>2, PromotedSound, RaisedSound DEF Same
<1>3. u = [l \in Layers |-> [i \in 1 .. Len(t[l]) |-> u[l][i]]]
  BY DEF Changed
<1> HIDE DEF u
<1>4. Rearranged(t, u)
  BY <1>2, <1>3 DEF Rearranged
<1>5. DataTable(u, fs) /\ NoneGone(t, u)
  BY <1>2, <1>4, RearrangedTable
<1>6. QED
  BY <1>5 DEF u

LEMMA PromotionFailedData ==
  ASSUME NEW t, DataTable(t, files), NEW S
  PROVE  /\ DataTable(Changed(t, S, PromotionFailed), files)
         /\ NoneGone(t, Changed(t, S, PromotionFailed))
<1> DEFINE u == Changed(t, S, PromotionFailed)
<1>1. \A l \in Layers : \A i \in 1 .. Len(t[l]) : Sound(t[l][i], files)
  BY DEF DataTable, Row
<1>2. ASSUME NEW l \in Layers, NEW i \in 1 .. Len(t[l])
      PROVE  Same(t[l][i], u[l][i]) /\ Sound(u[l][i], files)
  <2>1. u[l][i] = IF <<l, i>> \in S THEN PromotionFailed(t[l][i]) ELSE t[l][i]
    BY DEF Changed
  <2> HIDE DEF u
  <2>2. QED
    BY <1>1, <2>1, PromotedSound DEF Same
<1>3. u = [l \in Layers |-> [i \in 1 .. Len(t[l]) |-> u[l][i]]]
  BY DEF Changed
<1> HIDE DEF u
<1>4. Rearranged(t, u)
  BY <1>2, <1>3 DEF Rearranged
<1>5. DataTable(u, files) /\ NoneGone(t, u)
  BY <1>2, <1>4, RearrangedTable
<1>6. QED
  BY <1>5 DEF u

LEMMA HalfLoadedData ==
  ASSUME NEW t, DataTable(t, files), NEW S
  PROVE  /\ DataTable(Changed(t, S, HalfLoaded), files)
         /\ NoneGone(t, Changed(t, S, HalfLoaded))
<1> DEFINE u == Changed(t, S, HalfLoaded)
<1>1. \A l \in Layers : \A i \in 1 .. Len(t[l]) : Sound(t[l][i], files)
  BY DEF DataTable, Row
<1>2. ASSUME NEW l \in Layers, NEW i \in 1 .. Len(t[l])
      PROVE  Same(t[l][i], u[l][i]) /\ Sound(u[l][i], files)
  <2>1. u[l][i] = IF <<l, i>> \in S THEN HalfLoaded(t[l][i]) ELSE t[l][i]
    BY DEF Changed
  <2> HIDE DEF u
  <2>2. QED
    BY <1>1, <2>1, HalfLoadedSound DEF Same
<1>3. u = [l \in Layers |-> [i \in 1 .. Len(t[l]) |-> u[l][i]]]
  BY DEF Changed
<1> HIDE DEF u
<1>4. Rearranged(t, u)
  BY <1>2, <1>3 DEF Rearranged
<1>5. DataTable(u, files) /\ NoneGone(t, u)
  BY <1>2, <1>4, RearrangedTable
<1>6. QED
  BY <1>5 DEF u

\* The files gs hold the blocks of S, all of them in DRAM, and what the files
\* fs hold of the other blocks on the SSD.
Filed(t, S, fs, gs) ==
  \A l \in Layers : \A i \in 1 .. Len(t[l]) :
    /\ t[l][i].id \in Ids
    /\ <<l, i>> \in S => t[l][i].tier = "DRAM" /\ gs[t[l][i].id] = t[l][i].dram
    /\ <<l, i>> \notin S /\ t[l][i].tier = "SSD" => gs[t[l][i].id] = fs[t[l][i].id]

LEMMA SavedData ==
  ASSUME NEW t, NEW fs, NEW gs, DataTable(t, fs), NEW S, Filed(t, S, fs, gs)
  PROVE  DataTable(Changed(t, S, Saved), gs) /\ NoneGone(t, Changed(t, S, Saved))
<1> DEFINE u == Changed(t, S, Saved)
<1>1. \A l \in Layers : \A i \in 1 .. Len(t[l]) : Sound(t[l][i], fs)
  BY DEF DataTable, Row
<1>2. ASSUME NEW l \in Layers, NEW i \in 1 .. Len(t[l])
      PROVE  Same(t[l][i], u[l][i]) /\ Sound(u[l][i], gs)
  <2>1. u[l][i] = IF <<l, i>> \in S THEN Saved(t[l][i]) ELSE t[l][i]
    BY DEF Changed
  <2>2. /\ <<l, i>> \in S => t[l][i].tier = "DRAM" /\ gs[t[l][i].id] = t[l][i].dram
        /\ <<l, i>> \notin S => (t[l][i].tier = "SSD" => gs[t[l][i].id] = fs[t[l][i].id])
    BY DEF Filed
  <2> DEFINE b == t[l][i]
  <2> HIDE DEF u, b
  <2>3. Sound(b, fs)
    BY <1>1 DEF b
  <2>4. CASE <<l, i>> \in S
    <3>1. b.tier = "DRAM" /\ gs[b.id] = b.dram
      BY <2>2, <2>4 DEF b
    <3>2. Sound(Saved(b), gs) /\ Same(b, Saved(b))
      BY <2>3, <3>1, SavedSound
    <3>3. QED
      BY <2>1, <2>4, <3>2 DEF b
  <2>5. CASE <<l, i>> \notin S
    <3>1. b.tier = "SSD" => gs[b.id] = fs[b.id]
      BY <2>2, <2>5 DEF b
    <3>2. Sound(b, gs)
      BY <2>3, <3>1, OtherFiles
    <3>3. QED
      BY <2>1, <2>5, <3>2 DEF b, Same
  <2>6. QED
    BY <2>4, <2>5
<1>3. u = [l \in Layers |-> [i \in 1 .. Len(t[l]) |-> u[l][i]]]
  BY DEF Changed
<1> HIDE DEF u
<1>4. Rearranged(t, u)
  BY <1>2, <1>3 DEF Rearranged
<1>5. DataTable(u, gs) /\ NoneGone(t, u)
  BY <1>2, <1>4, RearrangedTable
<1>6. QED
  BY <1>5 DEF u

\* A step that leaves this table and these files.
LEMMA TableLater ==
  ASSUME DInv, UNCHANGED <<kind, seqLen, nextId>>, DataTable(blocks', files'),
         files' \in [Ids -> Tensors \cup {NoFile, Torn}]
  PROVE  DInv'
<1>1. DataTable(blocks, files)'
  BY DEF DataTable, Row, Sound, Hollow, Apart
<1>2. QED
  BY <1>1 DEF DInv

\* Each layer grows by blocks with identifiers of its own range.
LEMMA GrownTable ==
  ASSUME DInv, UNCHANGED <<kind, seqLen, files>>, nextId' \in 0 .. MaxIds, nextId <= nextId',
         blocks' = [l \in Layers |-> blocks'[l]], NEW lo, NEW hi,
         \A l \in Layers : /\ lo[l] \in Nat /\ hi[l] \in Nat
                           /\ nextId <= lo[l] /\ hi[l] <= nextId'
                           /\ Grown(blocks[l], blocks'[l], lo[l], hi[l])
                           /\ \A m \in Layers : m < l => hi[m] <= lo[l]
  PROVE  DInv' /\ NoneGone(blocks, blocks')
<1>1. ASSUME NEW l \in Layers
      PROVE  /\ Row(blocks[l], files) /\ Len(blocks[l]) \in Nat
             /\ Row(blocks'[l], files) /\ Len(blocks'[l]) \in Nat
             /\ Managed(blocks'[l]) <= seqLen
             /\ Managed(blocks[l]) <= Managed(blocks'[l])
  <2>1. Row(blocks[l], files) /\ Row(blocks'[l], files) /\ Managed(blocks'[l]) <= seqLen
    BY DEF DInv, DataTable, Grown
  <2>2. Len(blocks[l]) \in Nat /\ Len(blocks'[l]) \in Nat
    BY <2>1, RowParts
  <2>3. QED
    BY <2>1, <2>2, GrownRow
<1>2. ASSUME NEW l \in Layers, NEW i \in 1 .. Len(blocks'[l])
      PROVE  /\ blocks'[l][i].id \in Nat
             /\ \/ /\ i \in 1 .. Len(blocks[l]) /\ blocks'[l][i].id = blocks[l][i].id
                   /\ blocks'[l][i].id < nextId
                \/ i > Len(blocks[l]) /\ lo[l] <= blocks'[l][i].id /\ blocks'[l][i].id < hi[l]
  <2>1. blocks'[l][i] \in Block
    BY <1>1, RowParts
  <2>2. blocks'[l][i].id \in Nat
    BY <2>1, Sizes DEF Block, Ids
  <2>3. CASE i > Len(blocks[l])
    <3>1. blocks'[l][i].id \in lo[l] .. hi[l] - 1
      BY <2>3 DEF Grown
    <3>2. QED
      BY <2>2, <2>3, <3>1
  <2>4. CASE ~ i > Len(blocks[l])
    <3>1. i \in 1 .. Len(blocks[l])
      BY <1>1, <2>4
    <3>2. QED
      BY <2>2, <3>1 DEF Grown, DInv, DataTable, Apart
  <2>5. QED
    BY <2>3, <2>4
<1>3. nextId \in Nat /\ nextId' \in Nat
  BY Sizes DEF DInv
<1>4. \A l \in Layers : \A i \in 1 .. Len(blocks'[l]) : blocks'[l][i].id < nextId'
  <2> SUFFICES ASSUME NEW l \in Layers, NEW i \in 1 .. Len(blocks'[l])
               PROVE  blocks'[l][i].id < nextId'
    OBVIOUS
  <2>1. hi[l] \in Nat /\ hi[l] <= nextId'
    OBVIOUS
  <2>2. blocks'[l][i].id < nextId \/ blocks'[l][i].id < hi[l]
    BY <1>2
  <2>3. blocks'[l][i].id \in Nat
    BY <1>2
  <2>4. QED
    BY <1>3, <2>1, <2>2, <2>3
<1>5. ASSUME NEW l \in Layers, NEW m \in Layers, NEW i \in 1 .. Len(blocks'[l]),
             NEW j \in 1 .. Len(blocks'[m]), blocks'[l][i].id = blocks'[m][j].id
      PROVE  l = m /\ i = j
  <2> DEFINE x == blocks'[l][i].id
             y == blocks'[m][j].id
  <2>1. /\ x \in Nat /\ y \in Nat /\ x = y
        /\ lo[l] \in Nat /\ lo[m] \in Nat /\ hi[l] \in Nat /\ hi[m] \in Nat
        /\ nextId <= lo[l] /\ nextId <= lo[m] /\ l \in Nat /\ m \in Nat
        /\ m < l => hi[m] <= lo[l]
        /\ l < m => hi[l] <= lo[m]
    <3>1. x \in Nat /\ y \in Nat /\ x = y
      BY <1>2, <1>5
    <3>2. l \in Nat /\ m \in Nat
      BY Sizes DEF Layers
    <3> HIDE DEF x, y
    <3>3. QED
      BY <3>1, <3>2
  <2>2. CASE i > Len(blocks[l]) /\ j > Len(blocks[m])
    <3>1. lo[l] <= x /\ x < hi[l] /\ lo[m] <= y /\ y < hi[m]
      <4>1. Len(blocks[l]) \in Nat /\ Len(blocks[m]) \in Nat
        BY <1>1
      <4>2. i \notin 1 .. Len(blocks[l]) /\ j \notin 1 .. Len(blocks[m])
        BY <2>2, <4>1
      <4>3. lo[l] <= x /\ x < hi[l]
        BY <1>2, <4>2
      <4>4. lo[m] <= y /\ y < hi[m]
        BY <1>2, <4>2
      <4>5. QED
        BY <4>3, <4>4
    <3> HIDE DEF x, y
    <3>2. l = m
      BY <2>1, <3>1
    <3>3. QED
      BY <1>5, <2>2, <3>2 DEF Grown
  <2>3. CASE i \in 1 .. Len(blocks[l]) /\ j \in 1 .. Len(blocks[m])
    <3>1. blocks[l][i].id = blocks[m][j].id
      BY <1>5, <2>3 DEF Grown
    <3>2. QED
      BY <2>3, <3>1 DEF DInv, DataTable, Apart
  <2>4. CASE i > Len(blocks[l]) /\ j \in 1 .. Len(blocks[m])
    <3>1. lo[l] <= x /\ y < nextId
      BY <1>1, <1>2, <2>4
    <3> HIDE DEF x, y
    <3>2. QED
      BY <1>3, <2>1, <3>1
  <2>5. CASE i \in 1 .. Len(blocks[l]) /\ j > Len(blocks[m])
    <3>1. x < nextId /\ lo[m] <= y
      BY <1>1, <1>2, <2>5
    <3> HIDE DEF x, y
    <3>2. QED
      BY <1>3, <2>1, <3>1
  <2>6. QED
    BY <1>1, <1>2, <2>2, <2>3, <2>4, <2>5
<1>6. Apart(blocks', nextId')
  BY <1>4, <1>5 DEF Apart
<1>7. DataTable(blocks, files)'
  <2>1. \A l \in Layers : Row(blocks'[l], files') /\ Managed(blocks'[l]) <= seqLen'
    BY <1>1
  <2>2. Apart(blocks, nextId)'
    BY <1>6 DEF Apart
  <2>3. QED
    BY <2>1, <2>2 DEF DataTable, Row, Sound, Hollow
<1>8. QED
  BY <1>1, <1>7 DEF DInv, NoneGone

-----------------------------------------------------------------------------
(* The calls that take tokens in.                                          *)

LEMMA IdRanges ==
  ASSUME NEW new, \A m \in Layers : new[m] \in 0 .. MaxTokens, nextId \in Nat,
         NEW l \in 1 .. NLayers + 1
  PROVE  /\ FirstId(l, new) \in Nat /\ nextId <= FirstId(l, new)
         /\ \A m \in Layers : m < l => /\ FirstId(m, new) \in Nat /\ nextId <= FirstId(m, new)
                                       /\ FirstId(m, new) + new[m] \in Nat
                                       /\ FirstId(m, new) + new[m] <= FirstId(l, new)
<1>1. FirstId(l, new) \in Nat /\ nextId <= FirstId(l, new)
  <2>1. 1 \in 1 .. l
    BY Sizes
  <2>2. QED
    BY <2>1, FirstIdIs
<1>2. ASSUME NEW m \in Layers, m < l
      PROVE  /\ FirstId(m, new) \in Nat /\ nextId <= FirstId(m, new)
             /\ FirstId(m, new) + new[m] \in Nat
             /\ FirstId(m, new) + new[m] <= FirstId(l, new)
  <2>1. m \in 1 .. NLayers + 1 /\ 1 \in 1 .. m /\ m + 1 \in 1 .. l /\ m + 1 \in 1 .. NLayers + 1
    BY <1>2, Sizes DEF Layers
  <2>2. FirstId(m + 1, new) = FirstId(m, new) + new[m]
    BY FirstIdIs
  <2>3. FirstId(m + 1, new) <= FirstId(l, new) /\ FirstId(m + 1, new) \in Nat
    BY <2>1, FirstIdIs
  <2>4. FirstId(m, new) \in Nat /\ nextId <= FirstId(m, new)
    BY <2>1, FirstIdIs
  <2>5. QED
    BY <2>2, <2>3, <2>4
<1>3. QED
  BY <1>1, <1>2

\* The layers before l have taken their tokens in, each m with new[m] blocks,
\* and layer l some of them, with k.
Taken(new, l, k) ==
  /\ \A m \in Layers : new[m] \in 0 .. MaxTokens
  /\ blocks' = [m \in Layers |-> blocks'[m]]
  /\ \A m \in Layers :
       /\ m < l => Grown(blocks[m], blocks'[m], FirstId(m, new), FirstId(m, new) + new[m])
       /\ m = l => Grown(blocks[m], blocks'[m], FirstId(m, new), FirstId(m, new) + k)
       /\ m > l => blocks'[m] = blocks[m]
  /\ nextId' = FirstId(l, new) + k /\ nextId' <= MaxIds

LEMMA CutTable ==
  ASSUME DInv, UNCHANGED <<kind, seqLen, files>>, NEW new,
         NEW l \in 1 .. NLayers + 1, NEW k \in Nat, Taken(new, l, k)
  PROVE  DInv' /\ NoneGone(blocks, blocks')
<1>0. /\ \A m \in Layers : new[m] \in 0 .. MaxTokens
      /\ blocks' = [m \in Layers |-> blocks'[m]]
      /\ \A m \in Layers :
           /\ m < l => Grown(blocks[m], blocks'[m], FirstId(m, new), FirstId(m, new) + new[m])
           /\ m = l => Grown(blocks[m], blocks'[m], FirstId(m, new), FirstId(m, new) + k)
           /\ m > l => blocks'[m] = blocks[m]
      /\ nextId' = FirstId(l, new) + k /\ nextId' <= MaxIds
  BY DEF Taken
<1> DEFINE lo == [m \in Layers |-> IF m > l THEN nextId' ELSE FirstId(m, new)]
           hi == [m \in Layers |-> IF m < l THEN FirstId(m, new) + new[m] ELSE nextId']
<1>1. nextId \in Nat
  BY Sizes DEF DInv
<1>2. FirstId(l, new) \in Nat /\ nextId <= FirstId(l, new)
  BY <1>0, <1>1, IdRanges
<1>3. nextId' \in 0 .. MaxIds /\ nextId <= nextId' /\ FirstId(l, new) <= nextId' /\ nextId' \in Nat
  BY <1>0, <1>1, <1>2, Sizes
<1>4. ASSUME NEW m \in Layers
      PROVE  /\ lo[m] \in Nat /\ hi[m] \in Nat /\ nextId <= lo[m] /\ hi[m] <= nextId'
             /\ Grown(blocks[m], blocks'[m], lo[m], hi[m])
             /\ m > l => lo[m] = nextId'
             /\ m = l => lo[m] = FirstId(l, new)
             /\ m < l => lo[m] = FirstId(m, new) /\ hi[m] = FirstId(m, new) + new[m]
  <2>1. CASE m < l
    <3>1. lo[m] = FirstId(m, new) /\ hi[m] = FirstId(m, new) + new[m]
      BY <2>1, Sizes DEF Layers
    <3> HIDE DEF lo, hi
    <3>2. /\ FirstId(m, new) \in Nat /\ nextId <= FirstId(m, new)
          /\ FirstId(m, new) + new[m] \in Nat
          /\ FirstId(m, new) + new[m] <= FirstId(l, new)
      BY <1>0, <1>1, <2>1, IdRanges
    <3>3. hi[m] <= nextId' /\ m \in Int /\ l \in Int
      BY <1>2, <1>3, <3>1, <3>2, Sizes DEF Layers
    <3>4. QED
      BY <1>0, <2>1, <3>1, <3>2, <3>3
  <2>2. CASE m = l
    <3>1. lo[m] = FirstId(l, new) /\ hi[m] = nextId'
      BY <2>2, Sizes DEF Layers
    <3> HIDE DEF lo, hi
    <3>2. ~ m > l /\ ~ m < l
      BY <2>2, Sizes DEF Layers
    <3>3. QED
      BY <1>0, <1>2, <1>3, <2>2, <3>1, <3>2
  <2>3. CASE m > l
    <3>1. lo[m] = nextId' /\ hi[m] = nextId' /\ ~ m < l /\ m # l
      BY <2>3, Sizes DEF Layers
    <3> HIDE DEF lo, hi
    <3>2. Row(blocks[m], files) /\ Managed(blocks[m]) <= seqLen
      BY DEF DInv, DataTable
    <3>3. Grown(blocks[m], blocks'[m], nextId', nextId')
      BY <1>0, <2>3, <3>2, GrownSame
    <3>4. QED
      BY <1>3, <2>3, <3>1, <3>3
  <2>4. m < l \/ m = l \/ m > l
    BY Sizes DEF Layers
  <2>5. QED
    BY <2>1, <2>2, <2>3, <2>4
<1> HIDE DEF lo, hi
<1>5. ASSUME NEW n \in Layers, NEW m \in Layers, m < n PROVE hi[m] <= lo[n]
  <2>1. CASE n > l
    BY <1>4, <2>1
  <2>2. CASE n <= l
    <3>1. m < l /\ n \in 1 .. NLayers + 1 /\ n \in Int
      BY <1>5, <2>2, Sizes DEF Layers
    <3>2. FirstId(m, new) + new[m] <= FirstId(n, new)
      BY <1>0, <1>1, <1>5, <3>1, IdRanges
    <3>3. n = l \/ n < l
      BY <2>2, <3>1
    <3>4. hi[m] = FirstId(m, new) + new[m]
      BY <1>4, <3>1
    <3>5. lo[n] = FirstId(n, new)
      BY <1>4, <3>3
    <3>6. QED
      BY <3>2, <3>4, <3>5
  <2>3. n \in Int /\ l \in Int
    BY Sizes DEF Layers
  <2>4. QED
    BY <2>1, <2>2, <2>3
<1>6. QED
  BY <1>0, <1>3, <1>4, <1>5, GrownTable

LEMMA RowsOfTable ==
  ASSUME DInv, NEW l \in Layers
  PROVE  /\ Row(blocks[l], files) /\ Managed(blocks[l]) <= seqLen
         /\ NewBlocks[l] \in 0 .. MaxTokens /\ Appending[l] \in 0 .. MaxTokens
         /\ seqLen \in 0 .. MaxTokens /\ seqLen \in Nat /\ kind \in Kinds /\ nextId \in Nat
<1>1. Row(blocks[l], files) /\ Managed(blocks[l]) <= seqLen /\ seqLen \in 0 .. MaxTokens
  BY DEF DInv, DataTable
<1>2. QED
  BY <1>1, NewBlocksBound, Sizes DEF DInv

LEMMA IngestData == ASSUME DInv, Ingest PROVE DInv' /\ NoneGone(blocks, blocks')
<1> DEFINE Id(m) == FirstId(m, NewBlocks)
           new == NewBlocks
           top == NLayers + 1
<1>1. /\ blocks' = [m \in Layers |-> Extended(m, new[m], Id(m))]
      /\ nextId' = Id(top) /\ nextId' <= MaxIds /\ UNCHANGED <<kind, files, seqLen>>
  BY DEF Ingest
<1>2. /\ \A m \in Layers : new[m] \in 0 .. MaxTokens
      /\ nextId \in Nat /\ top \in 1 .. NLayers + 1
  BY RowsOfTable, Sizes DEF DInv
<1>3. Id(top) \in Nat
  BY <1>2, IdRanges
<1>4. ASSUME NEW m \in Layers PROVE m < top /\ Grown(blocks[m], blocks'[m], Id(m), Id(m) + new[m])
  <2>1. m < top
    BY Sizes DEF Layers
  <2>2. Id(m) \in Nat /\ Id(m) + new[m] \in Nat /\ Id(m) + new[m] <= Id(top)
    BY <1>2, <2>1, IdRanges
  <2>3. blocks'[m] = Extended(m, new[m], Id(m))
    BY <1>1
  <2> DEFINE id == Id(m)
             k == new[m]
  <2> HIDE DEF Id, top, new
  <2>4. id + k <= MaxIds
    BY <1>1, <1>3, <2>2, Sizes
  <2>5. k \in 0 .. k /\ k = NewBlocks[m]
    BY <1>2 DEF new
  <2> HIDE DEF id, k
  <2>6. Grown(blocks[m], Extended(m, k, id), id, id + k)
    BY <2>2, <2>4, <2>5, RowsOfTable, ExtendedGrown DEF id
  <2>7. QED
    BY <2>1, <2>3, <2>6 DEF id, k
<1>5. nextId' = Id(top) + 0 /\ 0 \in Nat
  BY <1>1, <1>3
<1>6. \A m \in Layers : ~ m = top /\ ~ m > top
  BY Sizes DEF Layers
<1>7. blocks' = [m \in Layers |-> blocks'[m]]
  BY <1>1
<1>8. Taken(new, top, 0)
  BY <1>1, <1>2, <1>4, <1>5, <1>6, <1>7, Zenon DEF Taken
<1> HIDE DEF new, top
<1>9. QED
  BY <1>1, <1>2, <1>5, <1>8, CutTable

LEMMA AppendTokenData == ASSUME DInv, AppendToken PROVE DInv' /\ NoneGone(blocks, blocks')
<1> DEFINE Id(m) == FirstId(m, Appending)
           new == Appending
           top == NLayers + 1
<1>1. /\ blocks' = [m \in Layers |-> Appended(m, Id(m))]
      /\ nextId' = Id(top) /\ nextId' <= MaxIds /\ UNCHANGED <<kind, files, seqLen>>
      /\ \A m \in Layers : OneMore(m) /\ ~ Unwritable(m)
  BY DEF AppendToken
<1>2. /\ \A m \in Layers : new[m] \in 0 .. MaxTokens
      /\ nextId \in Nat /\ top \in 1 .. NLayers + 1
  BY RowsOfTable, Sizes DEF DInv
<1>3. Id(top) \in Nat
  BY <1>2, IdRanges
<1>4. ASSUME NEW m \in Layers PROVE m < top /\ Grown(blocks[m], blocks'[m], Id(m), Id(m) + new[m])
  <2>1. m < top
    BY Sizes DEF Layers
  <2>2. Id(m) \in Nat /\ Id(m) + new[m] \in Nat /\ Id(m) + new[m] <= Id(top)
    BY <1>2, <2>1, IdRanges
  <2>3. blocks'[m] = Appended(m, Id(m)) /\ OneMore(m) /\ ~ Unwritable(m)
    BY <1>1
  <2> DEFINE id == Id(m)
  <2> HIDE DEF Id, top
  <2>4. id + new[m] <= MaxIds
    BY <1>1, <1>3, <2>2, Sizes
  <2> HIDE DEF id
  <2>5. Grown(blocks[m], Appended(m, id), id, id + new[m])
    BY <2>2, <2>3, <2>4, RowsOfTable, AppendedGrown DEF id
  <2>6. QED
    BY <2>1, <2>3, <2>5 DEF id
<1>5. nextId' = Id(top) + 0 /\ 0 \in Nat
  BY <1>1, <1>3
<1>6. \A m \in Layers : ~ m = top /\ ~ m > top
  BY Sizes DEF Layers
<1>7. blocks' = [m \in Layers |-> blocks'[m]]
  BY <1>1
<1>8. Taken(new, top, 0)
  BY <1>1, <1>2, <1>4, <1>5, <1>6, <1>7, Zenon DEF Taken
<1> HIDE DEF new, top
<1>9. QED
  BY <1>1, <1>2, <1>5, <1>8, CutTable

LEMMA IngestFailsData == ASSUME DInv, IngestFails PROVE DInv' /\ NoneGone(blocks, blocks')
<1> DEFINE Id(m) == FirstId(m, NewBlocks)
           new == NewBlocks
           Done(m) == Extended(m, new[m], Id(m))
<1>1. UNCHANGED <<kind, files, seqLen>> /\ kind \in AllocMayFail
  BY DEF IngestFails
<1>2. PICK l \in Layers : \E k \in 1 .. new[l] :
        /\ blocks' = [m \in Layers |-> CASE m < l -> Done(m)
                                         [] m = l -> LastUnallocated(Extended(l, k, Id(l)))
                                         [] m > l -> blocks[m]]
        /\ nextId' = Id(l) + k /\ nextId' <= MaxIds
  BY DEF IngestFails
<1>3. PICK k \in 1 .. new[l] :
        /\ blocks' = [m \in Layers |-> CASE m < l -> Done(m)
                                         [] m = l -> LastUnallocated(Extended(l, k, Id(l)))
                                         [] m > l -> blocks[m]]
        /\ nextId' = Id(l) + k /\ nextId' <= MaxIds
  BY <1>2
<1> DEFINE F(m) == CASE m < l -> Done(m)
                     [] m = l -> LastUnallocated(Extended(l, k, Id(l)))
                     [] m > l -> blocks[m]
<1>4. blocks' = [m \in Layers |-> F(m)]
  BY <1>3, Zenon
<1>5. blocks' = [m \in Layers |-> blocks'[m]] /\ \A m \in Layers : blocks'[m] = F(m)
  <2> HIDE DEF F
  <2> QED
    BY <1>4
<1>6. Layers \subseteq Int /\ l \in 1 .. NLayers + 1
  BY Sizes DEF Layers
<1> HIDE DEF Done
<1>7. \A m \in Layers : /\ m < l => blocks'[m] = Done(m)
                        /\ m = l => blocks'[m] = LastUnallocated(Extended(l, k, Id(l)))
                        /\ m > l => blocks'[m] = blocks[m]
  <2> HIDE DEF Id
  <2> QED
    BY <1>5, <1>6
<1>8. /\ \A m \in Layers : new[m] \in 0 .. MaxTokens
      /\ nextId \in Nat
  BY RowsOfTable, Sizes DEF DInv
<1>9. Id(l) \in Nat /\ k \in Nat /\ k # 0 /\ k \in 0 .. new[l] /\ Id(l) + k <= MaxIds
  <2>1. Id(l) \in Nat
    BY <1>6, <1>8, IdRanges
  <2> HIDE DEF Id, new
  <2>2. QED
    BY <1>3, <1>8, <2>1, Sizes
<1> HIDE DEF F
<1>10. ASSUME NEW m \in Layers, m < l PROVE Grown(blocks[m], blocks'[m], Id(m), Id(m) + new[m])
  <2>1. Id(m) \in Nat /\ Id(m) + new[m] \in Nat /\ Id(m) + new[m] <= Id(l)
    BY <1>6, <1>8, <1>10, IdRanges
  <2>2. blocks'[m] = Extended(m, new[m], Id(m))
    BY <1>7, <1>10 DEF Done
  <2> DEFINE id == Id(m)
             j == new[m]
  <2>3. j \in 0 .. j /\ j = NewBlocks[m]
    BY <1>8
  <2> HIDE DEF Id, new
  <2>4. id + j <= MaxIds
    BY <1>9, <2>1, Sizes
  <2> HIDE DEF id, j
  <2>5. Grown(blocks[m], Extended(m, j, id), id, id + j)
    BY <2>1, <2>3, <2>4, RowsOfTable, ExtendedGrown DEF id
  <2>6. QED
    BY <2>2, <2>5 DEF id, j
<1>11. Grown(blocks[l], blocks'[l], Id(l), Id(l) + k)
  <2> DEFINE id == Id(l)
             cs == Extended(l, k, id)
  <2>1. blocks'[l] = LastUnallocated(cs) /\ id \in Nat /\ id + k <= MaxIds
        /\ k \in 0 .. NewBlocks[l]
    BY <1>7, <1>9
  <2> HIDE DEF id
  <2>2. Grown(blocks[l], cs, id, id + k) /\ Len(cs) = Len(blocks[l]) + k
    BY <2>1, RowsOfTable, ExtendedGrown
  <2> HIDE DEF cs
  <2>3. Len(blocks[l]) \in Nat
    BY RowsOfTable, RowParts
  <2>4. Len(cs) > Len(blocks[l])
    BY <1>9, <2>2, <2>3
  <2>5. Grown(blocks[l], LastUnallocated(cs), id, id + k)
    BY <1>1, <2>2, <2>4, RowsOfTable, UnallocatedGrown
  <2>6. QED
    BY <2>1, <2>5 DEF id
<1>12. nextId' = Id(l) + k /\ nextId' <= MaxIds
  BY <1>3
<1>13. Taken(new, l, k)
  BY <1>5, <1>7, <1>8, <1>10, <1>11, <1>12, Zenon DEF Taken
<1> HIDE DEF new, Done
<1>14. QED
  BY <1>1, <1>6, <1>9, <1>13, CutTable

LEMMA AppendTokenFailsData ==
  ASSUME DInv, AppendTokenFails PROVE DInv' /\ NoneGone(blocks, blocks')
<1> DEFINE Id(m) == FirstId(m, Appending)
           new == Appending
           Done(m) == Appended(m, Id(m))
<1>1. UNCHANGED <<kind, files, seqLen>> /\ \A m \in Layers : OneMore(m)
  BY DEF AppendTokenFails
<1>2. PICK l \in Layers : \E left \in AppendLeft(l, Id(l)) :
        /\ \A m \in Layers : m < l => ~ Unwritable(m)
        /\ blocks' = [m \in Layers |-> CASE m < l -> Done(m)
                                         [] m = l -> left[1]
                                         [] m > l -> blocks[m]]
        /\ nextId' = Id(l) + left[2] /\ nextId' <= MaxIds
  BY DEF AppendTokenFails
<1>3. PICK left \in AppendLeft(l, Id(l)) :
        /\ \A m \in Layers : m < l => ~ Unwritable(m)
        /\ blocks' = [m \in Layers |-> CASE m < l -> Done(m)
                                         [] m = l -> left[1]
                                         [] m > l -> blocks[m]]
        /\ nextId' = Id(l) + left[2] /\ nextId' <= MaxIds
  BY <1>2
<1> DEFINE F(m) == CASE m < l -> Done(m)
                     [] m = l -> left[1]
                     [] m > l -> blocks[m]
<1>4. blocks' = [m \in Layers |-> F(m)]
  BY <1>3, Zenon
<1>5. blocks' = [m \in Layers |-> blocks'[m]] /\ \A m \in Layers : blocks'[m] = F(m)
  <2> HIDE DEF F
  <2> QED
    BY <1>4
<1>6. Layers \subseteq Int /\ l \in 1 .. NLayers + 1
  BY Sizes DEF Layers
<1> HIDE DEF Done
<1>7. \A m \in Layers : /\ m < l => blocks'[m] = Done(m)
                        /\ m = l => blocks'[m] = left[1]
                        /\ m > l => blocks'[m] = blocks[m]
  <2> HIDE DEF Id
  <2> QED
    BY <1>5, <1>6
<1>8. /\ \A m \in Layers : new[m] \in 0 .. MaxTokens
      /\ nextId \in Nat
  BY RowsOfTable, Sizes DEF DInv
<1>9. Id(l) \in Nat
  BY <1>6, <1>8, IdRanges
<1> HIDE DEF F
<1>10. left[2] \in Nat /\ Grown(blocks[l], left[1], Id(l), Id(l) + left[2])
  <2>1. Id(l) + left[2] <= MaxIds /\ OneMore(l)
    BY <1>1, <1>3
  <2> DEFINE id == Id(l)
  <2>2. id \in Nat /\ id + left[2] <= MaxIds /\ left \in AppendLeft(l, id)
    BY <1>9, <2>1
  <2> HIDE DEF id
  <2>3. left[2] \in Nat /\ Grown(blocks[l], left[1], id, id + left[2])
    BY <2>1, <2>2, RowsOfTable, AppendLeftGrown
  <2>4. QED
    BY <2>3 DEF id
<1>11. ASSUME NEW m \in Layers, m < l PROVE Grown(blocks[m], blocks'[m], Id(m), Id(m) + new[m])
  <2>1. Id(m) \in Nat /\ Id(m) + new[m] \in Nat /\ Id(m) + new[m] <= Id(l)
    BY <1>6, <1>8, <1>11, IdRanges
  <2>2. blocks'[m] = Appended(m, Id(m)) /\ OneMore(m) /\ ~ Unwritable(m)
    BY <1>1, <1>3, <1>7, <1>11 DEF Done
  <2> DEFINE id == Id(m)
  <2>3. Id(l) + left[2] <= MaxIds
    BY <1>3
  <2> HIDE DEF Id
  <2>4. id + new[m] <= MaxIds
    BY <1>9, <1>10, <2>1, <2>3, Sizes
  <2> HIDE DEF id
  <2>5. Grown(blocks[m], Appended(m, id), id, id + new[m])
    BY <2>1, <2>2, <2>4, RowsOfTable, AppendedGrown DEF id
  <2>6. QED
    BY <2>2, <2>5 DEF id
<1>12. nextId' = Id(l) + left[2] /\ nextId' <= MaxIds
  BY <1>3
<1>13. Taken(new, l, left[2])
  <2>1. blocks'[l] = left[1]
    BY <1>7
  <2>2. Grown(blocks[l], blocks'[l], Id(l), Id(l) + left[2])
    BY <1>10, <2>1
  <2>3. QED
    BY <1>5, <1>7, <1>8, <1>11, <1>12, <2>2, Zenon DEF Taken
<1> HIDE DEF new, Done
<1>14. QED
  BY <1>1, <1>6, <1>10, <1>13, CutTable

-----------------------------------------------------------------------------
(* The calls that move blocks.                                             *)

LEMMA NoneGoneTwice ==
  ASSUME NEW t, NEW u, NEW v, NEW fs, NEW gs, NEW hs,
         DataTable(t, fs), DataTable(u, gs), DataTable(v, hs), NoneGone(t, u), NoneGone(u, v)
  PROVE  NoneGone(t, v)
<1>1. \A l \in Layers : /\ Managed(t[l]) \in Nat /\ Managed(u[l]) \in Nat /\ Managed(v[l]) \in Nat
  BY RowParts, BeforeIs DEF DataTable
<1>2. QED
  BY <1>1 DEF NoneGone

LEMMA FilesHold == ASSUME DInv PROVE files \in [Ids -> Tensors \cup {NoFile, Torn}]
  BY DEF DInv

LEMMA BuildData == ASSUME DInv, Build PROVE DInv' /\ NoneGone(blocks, blocks')
<1> DEFINE S == Reached
<1>1. blocks' = Changed(blocks, S, Promoted) /\ UNCHANGED <<kind, nextId, files, seqLen>>
  BY DEF Build
<1> HIDE DEF S
<1>2. DataTable(blocks, files)
  BY DEF DInv
<1>3. DataTable(blocks', files') /\ NoneGone(blocks, blocks')
  BY <1>1, <1>2, PromotedData
<1>4. QED
  BY <1>1, <1>3, FilesHold, TableLater

LEMMA BuildFailsData == ASSUME DInv, BuildFails PROVE DInv' /\ NoneGone(blocks, blocks')
<1>1. PICK x :
        blocks' = Changed(Changed(blocks, {y \in OffGpu : Earlier(y, x)}, Promoted),
                          {x}, PromotionFailed)
  BY DEF BuildFails
<1>2. UNCHANGED <<kind, nextId, files, seqLen>>
  BY DEF BuildFails
<1> DEFINE t == Changed(blocks, {y \in OffGpu : Earlier(y, x)}, Promoted)
<1>3. DataTable(blocks, files)
  BY DEF DInv
<1>4. DataTable(t, files) /\ NoneGone(blocks, t)
  BY <1>3, PromotedData
<1>5. blocks' = Changed(t, {x}, PromotionFailed)
  BY <1>1
<1> HIDE DEF t
<1>6. DataTable(blocks', files) /\ NoneGone(t, blocks')
  BY <1>4, <1>5, PromotionFailedData
<1>7. NoneGone(blocks, blocks')
  BY <1>3, <1>4, <1>6, NoneGoneTwice
<1>8. QED
  BY <1>2, <1>6, <1>7, FilesHold, TableLater

LEMMA BuildFailsLoadingData ==
  ASSUME DInv, BuildFailsLoading PROVE DInv' /\ NoneGone(blocks, blocks')
<1>1. PICK x : \E X :
        blocks' = Changed(Changed(blocks, {y \in OffGpu : Earlier(y, x)}, Promoted),
                          X, HalfLoaded)
  BY DEF BuildFailsLoading
<1>2. UNCHANGED <<kind, nextId, files, seqLen>>
  BY DEF BuildFailsLoading
<1> DEFINE t == Changed(blocks, {y \in OffGpu : Earlier(y, x)}, Promoted)
<1>3. DataTable(blocks, files)
  BY DEF DInv
<1>4. DataTable(t, files) /\ NoneGone(blocks, t)
  BY <1>3, PromotedData
<1>5. PICK X : blocks' = Changed(t, X, HalfLoaded)
  BY <1>1
<1> HIDE DEF t
<1>6. DataTable(blocks', files) /\ NoneGone(t, blocks')
  BY <1>4, <1>5, HalfLoadedData
<1>7. NoneGone(blocks, blocks')
  BY <1>3, <1>4, <1>6, NoneGoneTwice
<1>8. QED
  BY <1>2, <1>6, <1>7, FilesHold, TableLater

LEMMA ReportAttentionData ==
  ASSUME DInv, NEW l \in Layers, ReportAttention(l) PROVE DInv' /\ NoneGone(blocks, blocks')
<1> DEFINE c(i) == [blocks[l][i] EXCEPT !.access = @ + 1]
<1>1. /\ blocks' = [blocks EXCEPT ![l] = [i \in 1 .. Len(blocks[l]) |-> c(i)]]
      /\ UNCHANGED <<kind, nextId, files, seqLen>>
      /\ \A i \in 1 .. Len(blocks[l]) : blocks[l][i].access < MaxAccess
  BY DEF ReportAttention
<1>2. DataTable(blocks, files)
  BY DEF DInv
<1>3. ASSUME NEW i \in 1 .. Len(blocks[l]) PROVE Same(blocks[l][i], c(i)) /\ Sound(c(i), files)
  <2> DEFINE b == blocks[l][i]
             d == c(i)
  <2>1. Sound(b, files) /\ b \in Block /\ b.access < MaxAccess
    BY <1>1, <1>2 DEF DataTable, Row, Sound
  <2>2. /\ d \in Block /\ d.id = b.id /\ d.start = b.start /\ d.count = b.count
        /\ d.tier = b.tier /\ d.gpu = b.gpu /\ d.dram = b.dram /\ d.saved = b.saved
    <3>1. d = [b EXCEPT !.access = b.access + 1]
      OBVIOUS
    <3> HIDE DEF b, d
    <3>2. b.access + 1 \in 0 .. MaxAccess
      BY <2>1, Sizes DEF Block
    <3>3. d \in Block
      BY <2>1, <3>1, <3>2 DEF Block
    <3>4. QED
      BY <2>1, <3>1, <3>3 DEF Block
  <2> HIDE DEF b, d
  <2>3. Same(b, d) /\ Sound(d, files)
    BY <2>1, <2>2 DEF Same, Sound, Holds, Hollow
  <2>4. QED
    BY <2>3 DEF b, d
<1> HIDE DEF c
<1>4. ASSUME NEW m \in Layers
      PROVE  /\ blocks'[m] = [i \in 1 .. Len(blocks[m]) |-> blocks'[m][i]]
             /\ \A i \in 1 .. Len(blocks[m]) :
                  Same(blocks[m][i], blocks'[m][i]) /\ Sound(blocks'[m][i], files)
  <2>1. CASE m = l
    <3>1. blocks'[m] = [i \in 1 .. Len(blocks[l]) |-> c(i)]
      BY <1>1, <1>2, <2>1 DEF DataTable
    <3>2. QED
      BY <1>3, <2>1, <3>1
  <2>2. CASE m # l
    <3>1. blocks'[m] = blocks[m]
      BY <1>1, <1>2, <2>2 DEF DataTable
    <3>2. blocks[m] \in Seq(Block) /\ \A i \in 1 .. Len(blocks[m]) : Sound(blocks[m][i], files)
      BY <1>2 DEF DataTable, Row
    <3>3. blocks[m] = [i \in 1 .. Len(blocks[m]) |-> blocks[m][i]]
      BY <3>2
    <3>4. QED
      BY <3>1, <3>2, <3>3 DEF Same
  <2>3. QED
    BY <2>1, <2>2
<1>5. blocks' = [m \in Layers |-> blocks'[m]]
  BY <1>1, <1>2 DEF DataTable
<1>6. Rearranged(blocks, blocks')
  <2>1. [m \in Layers |-> blocks'[m]]
          = [m \in Layers |-> [i \in 1 .. Len(blocks[m]) |-> blocks'[m][i]]]
    BY <1>4
  <2>2. QED
    BY <1>4, <1>5, <2>1 DEF Rearranged
<1>7. DataTable(blocks', files) /\ NoneGone(blocks, blocks')
  BY <1>2, <1>4, <1>6, RearrangedTable
<1>8. QED
  BY <1>1, <1>7, FilesHold, TableLater

LEMMA EvictedData == ASSUME DInv PROVE DataTable(Evicted, files) /\ NoneGone(blocks, Evicted)
  BY DemotedData DEF Evicted, DInv

\* The files written for some of the blocks to spill: those of these blocks
\* hold what the blocks hold, and no other file changes.
LEMMA WrittenIs ==
  ASSUME DInv, NEW t, DataTable(t, files), NEW S, S \subseteq Spilled(t)
  PROVE  /\ Written(t, S) \in [Ids -> Tensors \cup {NoFile, Torn}]
         /\ Filed(t, S, files, Written(t, S))
<1> DEFINE X(f) == {x \in S : At(t, x).id = f}
           W == Written(t, S)
<1>1. W = [f \in Ids |-> IF X(f) = {} THEN files[f] ELSE At(t, CHOOSE x \in X(f) : TRUE).dram]
  BY DEF Written
<1>2. ASSUME NEW x \in S
      PROVE  /\ x \in Places(t) /\ At(t, x).tier = "DRAM" /\ At(t, x).dram \in Tensors
             /\ At(t, x) = t[x[1]][x[2]] /\ x[1] \in Layers /\ x[2] \in 1 .. Len(t[x[1]])
             /\ x = <<x[1], x[2]>>
  <2>1. x \in Places(t) /\ At(t, x).tier = "DRAM"
    BY SpilledInDram
  <2>2. x[1] \in Layers /\ x[2] \in 1 .. Len(t[x[1]]) /\ x = <<x[1], x[2]>>
    BY <2>1 DEF Places
  <2>3. Sound(t[x[1]][x[2]], files)
    BY <2>2 DEF DataTable, Row
  <2>4. At(t, x) = t[x[1]][x[2]]
    BY DEF At
  <2>5. At(t, x).dram \in Tensors
    BY <2>1, <2>3, <2>4 DEF Sound, Holds
  <2>6. QED
    BY <2>1, <2>2, <2>4, <2>5
<1>3. ASSUME NEW f \in Ids PROVE W[f] \in Tensors \cup {NoFile, Torn}
  <2> DEFINE Y == X(f)
  <2>1. Y \subseteq S /\ W[f] = IF Y = {} THEN files[f] ELSE At(t, CHOOSE x \in Y : TRUE).dram
    BY <1>1
  <2> HIDE DEF Y, W
  <2>2. CASE Y = {}
    BY <2>1, <2>2 DEF DInv
  <2>3. CASE Y # {}
    <3>1. (CHOOSE x \in Y : TRUE) \in S
      BY <2>1, <2>3
    <3>2. QED
      BY <1>2, <2>1, <2>3, <3>1
  <2>4. QED
    BY <2>2, <2>3
<1>4. ASSUME NEW l \in Layers, NEW i \in 1 .. Len(t[l])
      PROVE  /\ t[l][i].id \in Ids
             /\ <<l, i>> \in S => t[l][i].tier = "DRAM" /\ W[t[l][i].id] = t[l][i].dram
             /\ <<l, i>> \notin S => W[t[l][i].id] = files[t[l][i].id]
  <2> DEFINE f == t[l][i].id
             Y == X(f)
  <2>1. t[l][i] \in Block
    BY DEF DataTable, Row, Sound
  <2>2. f \in Ids
    BY <2>1 DEF Block
  <2>3. \A x \in Y : x = <<l, i>>
    <3> SUFFICES ASSUME NEW x \in Y PROVE x = <<l, i>>
      OBVIOUS
    <3>1. x \in S /\ At(t, x).id = t[l][i].id
      OBVIOUS
    <3>2. /\ x[1] \in Layers /\ x[2] \in 1 .. Len(t[x[1]]) /\ x = <<x[1], x[2]>>
          /\ At(t, x) = t[x[1]][x[2]]
      BY <1>2, <3>1
    <3> DEFINE m == x[1]
               j == x[2]
    <3>3. m \in Layers /\ j \in 1 .. Len(t[m]) /\ x = <<m, j>> /\ t[m][j].id = t[l][i].id
      BY <3>1, <3>2
    <3> HIDE DEF m, j
    <3>4. m = l /\ j = i
      BY <3>3 DEF DataTable, Apart
    <3>5. QED
      BY <3>3, <3>4
  <2>4. W[f] = IF Y = {} THEN files[f] ELSE At(t, CHOOSE x \in Y : TRUE).dram
    BY <1>1, <2>2
  <2>5. CASE <<l, i>> \in S
    <3>1. At(t, <<l, i>>) = t[l][i]
      BY DEF At
    <3>2. <<l, i>> \in Y
      BY <2>5, <3>1
    <3>3. t[l][i].tier = "DRAM"
      BY <1>2, <2>5, <3>1
    <3> HIDE DEF Y, W, f
    <3>4. (CHOOSE x \in Y : TRUE) = <<l, i>>
      BY <2>3, <3>2
    <3>5. W[f] = t[l][i].dram
      BY <2>4, <3>1, <3>2, <3>4
    <3>6. QED
      BY <2>2, <2>5, <3>3, <3>5 DEF f
  <2>6. CASE <<l, i>> \notin S
    <3>1. Y = {}
      <4>1. Y \subseteq S
        OBVIOUS
      <4>2. QED
        BY <2>3, <2>6, <4>1
    <3> HIDE DEF Y, W, f
    <3>2. W[f] = files[f]
      BY <2>4, <3>1
    <3>3. QED
      BY <2>2, <2>6, <3>2 DEF f
  <2>7. QED
    BY <2>5, <2>6
<1>5. W = [f \in Ids |-> W[f]]
  BY <1>1
<1> HIDE DEF W
<1>6. W \in [Ids -> Tensors \cup {NoFile, Torn}]
  BY <1>3, <1>5
<1>7. Filed(t, S, files, W)
  BY <1>4 DEF Filed
<1>8. QED
  BY <1>6, <1>7 DEF W

\* Some blocks spilled, their files written.
LEMMA SpilledData ==
  ASSUME DInv, NEW t, DataTable(t, files), NEW S, S \subseteq Spilled(t)
  PROVE  /\ DataTable(Changed(t, S, Saved), Written(t, S))
         /\ NoneGone(t, Changed(t, S, Saved))
  BY WrittenIs, SavedData

LEMMA WarmInDram ==
  ASSUME NEW t PROVE \A x \in Warm(t) : At(t, x).tier = "DRAM"
<1>1. \A x \in Warm(t) : x \in On(t, "DRAM")
  BY DEF Warm, Firsts
<1>2. QED
  BY <1>1 DEF On

LEMMA ScheduleMoves ==
  ASSUME DInv, UNCHANGED <<kind, nextId, seqLen>>, NEW t1, t1 = Evicted,
         NEW S, S = Spilled(t1), NEW t2, t2 = Changed(t1, S, Saved),
         NEW W, W \subseteq Warm(t2), blocks' = Changed(t2, W, Promoted), files' = Written(t1, S)
  PROVE  DInv' /\ NoneGone(blocks, blocks')
<1>1. DataTable(blocks, files) /\ DataTable(t1, files) /\ NoneGone(blocks, t1)
  BY EvictedData DEF DInv
<1>2. DataTable(t2, files') /\ NoneGone(t1, t2)
  BY <1>1, SpilledData
<1>3. files' \in [Ids -> Tensors \cup {NoFile, Torn}]
  BY <1>1, WrittenIs
<1>4. \A x \in W : At(t2, x).tier = "DRAM"
  BY WarmInDram
<1>5. DataTable(blocks', files') /\ NoneGone(t2, blocks')
  BY <1>2, <1>4, PromotedData
<1>6. NoneGone(blocks, t2)
  BY <1>1, <1>2, NoneGoneTwice
<1>7. NoneGone(blocks, blocks')
  BY <1>1, <1>2, <1>5, <1>6, NoneGoneTwice
<1>8. QED
  BY <1>3, <1>5, <1>7, TableLater

LEMMA ScheduleData == ASSUME DInv, Schedule PROVE DInv' /\ NoneGone(blocks, blocks')
<1> DEFINE t1 == Evicted
           S == Spilled(t1)
           t2 == Changed(t1, S, Saved)
           W == Warm(t2)
<1>1. /\ blocks' = Changed(t2, W, Promoted) /\ files' = Written(t1, S)
      /\ UNCHANGED <<kind, nextId, seqLen>>
  BY DEF Schedule
<1>2. W \subseteq Warm(t2)
  OBVIOUS
<1>3. t1 = Evicted /\ S = Spilled(t1) /\ t2 = Changed(t1, S, Saved)
  OBVIOUS
<1> HIDE DEF t1, S, t2, W
<1>4. QED
  BY <1>1, <1>2, <1>3, ScheduleMoves

LEMMA ScheduleFailsDemotingData ==
  ASSUME DInv, ScheduleFailsDemoting PROVE DInv' /\ NoneGone(blocks, blocks')
<1>1. PICK S : blocks' = Changed(blocks, S, Demoted)
  BY DEF ScheduleFailsDemoting
<1>2. UNCHANGED <<kind, nextId, files, seqLen>>
  BY DEF ScheduleFailsDemoting
<1>3. DataTable(blocks, files)
  BY DEF DInv
<1>4. DataTable(blocks', files') /\ NoneGone(blocks, blocks')
  BY <1>1, <1>2, <1>3, DemotedData
<1>5. QED
  BY <1>2, <1>4, FilesHold, TableLater

LEMMA ScheduleFailsPromotingData ==
  ASSUME DInv, ScheduleFailsPromoting PROVE DInv' /\ NoneGone(blocks, blocks')
<1> DEFINE t1 == Evicted
           S == Spilled(t1)
           t2 == Changed(t1, S, Saved)
<1>1. PICK x \in Warm(t2) : blocks' = Changed(t2, {y \in Warm(t2) : Warmer(y, x)}, Promoted)
  BY DEF ScheduleFailsPromoting
<1>2. files' = Written(t1, S) /\ UNCHANGED <<kind, nextId, seqLen>>
  BY DEF ScheduleFailsPromoting
<1> DEFINE W == {y \in Warm(t2) : Warmer(y, x)}
<1>3. W \subseteq Warm(t2) /\ blocks' = Changed(t2, W, Promoted)
  BY <1>1
<1>4. t1 = Evicted /\ S = Spilled(t1) /\ t2 = Changed(t1, S, Saved)
  OBVIOUS
<1> HIDE DEF t1, S, t2, W
<1>5. QED
  BY <1>2, <1>3, <1>4, ScheduleMoves

\* The same with the file torn of a block that stays in DRAM.
LEMMA TornData ==
  ASSUME DInv, NEW t, DataTable(t, files), NEW S, S \subseteq Spilled(t),
         NEW k \in Layers, NEW j \in 1 .. Len(t[k]), t[k][j].tier = "DRAM", <<k, j>> \notin S,
         NEW gs, gs = [Written(t, S) EXCEPT ![t[k][j].id] = Torn]
  PROVE  /\ gs \in [Ids -> Tensors \cup {NoFile, Torn}]
         /\ DataTable(Changed(t, S, Saved), gs)
         /\ NoneGone(t, Changed(t, S, Saved))
<1> DEFINE ws == Written(t, S)
<1>1. ws \in [Ids -> Tensors \cup {NoFile, Torn}] /\ Filed(t, S, files, ws)
  BY WrittenIs
<1> HIDE DEF ws
<1>2. gs = [ws EXCEPT ![t[k][j].id] = Torn]
  BY DEF ws
<1>3. gs \in [Ids -> Tensors \cup {NoFile, Torn}]
  BY <1>1, <1>2
<1>4. Filed(t, S, files, gs)
  <2> SUFFICES ASSUME NEW l \in Layers, NEW i \in 1 .. Len(t[l])
               PROVE  /\ t[l][i].id \in Ids
                      /\ <<l, i>> \in S =>
                           t[l][i].tier = "DRAM" /\ gs[t[l][i].id] = t[l][i].dram
                      /\ <<l, i>> \notin S /\ t[l][i].tier = "SSD" =>
                           gs[t[l][i].id] = files[t[l][i].id]
    BY DEF Filed
  <2>1. /\ t[l][i].id \in Ids
        /\ <<l, i>> \in S => t[l][i].tier = "DRAM" /\ ws[t[l][i].id] = t[l][i].dram
        /\ <<l, i>> \notin S /\ t[l][i].tier = "SSD" => ws[t[l][i].id] = files[t[l][i].id]
    BY <1>1 DEF Filed
  <2>2. t[l][i].id # t[k][j].id => gs[t[l][i].id] = ws[t[l][i].id]
    BY <1>1, <1>2, <2>1
  <2>3. t[l][i].id = t[k][j].id => <<l, i>> \notin S /\ t[l][i].tier = "DRAM"
    <3> SUFFICES ASSUME t[l][i].id = t[k][j].id PROVE <<l, i>> \notin S /\ t[l][i].tier = "DRAM"
      OBVIOUS
    <3>1. l = k /\ i = j
      BY DEF DataTable, Apart
    <3>2. QED
      BY <3>1
  <2>4. QED
    BY <2>1, <2>2, <2>3
<1>5. DataTable(Changed(t, S, Saved), gs) /\ NoneGone(t, Changed(t, S, Saved))
  BY <1>4, SavedData
<1>6. QED
  BY <1>3, <1>5

\* The block whose write fails stays in DRAM.
\* The block whose write fails stays in DRAM.
LEMMA ScheduleFailsSavingData ==
  ASSUME DInv, ScheduleFailsSaving PROVE DInv' /\ NoneGone(blocks, blocks')
<1> DEFINE t == Evicted
           D == Spilled(t)
<1>1. PICK x \in D : /\ blocks' = Changed(t, {y \in D : Colder(y, x)}, Saved)
                     /\ files' = [Written(t, {y \in D : Colder(y, x)}) EXCEPT ![At(t, x).id] = Torn]
  BY DEF ScheduleFailsSaving
<1>2. UNCHANGED <<kind, nextId, seqLen>>
  BY DEF ScheduleFailsSaving
<1> DEFINE S == {y \in D : Colder(y, x)}
           b == At(t, x)
           l0 == x[1]
           i0 == x[2]
<1>3. DataTable(blocks, files) /\ DataTable(t, files) /\ NoneGone(blocks, t)
  BY EvictedData DEF DInv
<1>4. S \subseteq Spilled(t)
  OBVIOUS
<1>6. /\ l0 \in Layers /\ i0 \in 1 .. Len(t[l0]) /\ x = <<l0, i0>>
      /\ b = t[l0][i0] /\ b.tier = "DRAM"
  <2>1. x \in Places(t) /\ b.tier = "DRAM"
    BY SpilledInDram
  <2>2. QED
    BY <2>1 DEF Places, At
<1>7. x \notin S
  <2>1. ~ Colder(x, x)
    <3> DEFINE a == At(blocks, x).access
    <3>1. Colder(x, x) <=> (a < a \/ (a = a /\ Earlier(x, x)))
      BY DEF Colder
    <3>2. ~ Earlier(x, x)
      <4>1. x[1] \in Int /\ x[2] \in Int
        BY <1>6, Sizes DEF Layers
      <4>2. QED
        BY <4>1 DEF Earlier
    <3>3. a \in Int
      <4>1. Len(t[l0]) = Len(blocks[l0])
        <5>1. \A l \in Layers : Len(t[l]) = Len([i \in 1 .. Len(blocks[l]) |-> t[l][i]])
          BY DEF Evicted, Changed
        <5>2. Len(blocks[l0]) \in Nat
          BY <1>3, <1>6, RowParts DEF DataTable
        <5> HIDE DEF t
        <5>3. QED
          BY <1>6, <5>1, <5>2
      <4>2. blocks[l0][i0] \in Block
        BY <1>3, <1>6, <4>1, RowParts DEF DataTable
      <4>3. a = blocks[l0][i0].access
        BY DEF At
      <4>4. QED
        BY <4>2, <4>3, Sizes DEF Block
    <3> HIDE DEF a
    <3>4. ~ (a < a)
      BY <3>3
    <3>5. QED
      BY <3>1, <3>2, <3>4
  <2>2. QED
    BY <2>1
<1>8. blocks' = Changed(t, S, Saved) /\ files' = [Written(t, S) EXCEPT ![t[l0][i0].id] = Torn]
  BY <1>1, <1>6
<1> DEFINE u == Changed(t, S, Saved)
<1>9. blocks' = u
  BY <1>8
<1> HIDE DEF t, D, S, l0, i0, b
<1>10. /\ files' \in [Ids -> Tensors \cup {NoFile, Torn}]
       /\ DataTable(u, files') /\ NoneGone(t, u)
  BY <1>3, <1>4, <1>6, <1>7, <1>8, TornData
<1> HIDE DEF u
<1>11. NoneGone(blocks, u)
  BY <1>3, <1>10, NoneGoneTwice
<1>12. QED
  BY <1>2, <1>9, <1>10, <1>11, TableLater

-----------------------------------------------------------------------------
(* The invariant of the data, and what follows from it.                    *)

LEMMA ForwardData == ASSUME DInv, Forward PROVE DInv'
<1>1. /\ seqLen' \in seqLen + 1 .. MaxTokens /\ UNCHANGED <<kind, blocks, nextId, files>>
      /\ seqLen \in Nat /\ MaxTokens \in Nat
  BY Sizes DEF Forward, DInv
<1>2. seqLen' \in 0 .. MaxTokens /\ seqLen <= seqLen'
  BY <1>1
<1>3. \A l \in Layers : Managed(blocks[l]) <= seqLen'
  <2> SUFFICES ASSUME NEW l \in Layers PROVE Managed(blocks[l]) <= seqLen'
    OBVIOUS
  <2>1. Managed(blocks[l]) = seqLen
    BY DEF Forward
  <2>2. QED
    BY <1>2, <2>1
<1>4. DataTable(blocks, files)'
  <2>1. blocks' = blocks /\ files' = files /\ nextId' = nextId /\ kind' = kind
    BY <1>1
  <2>2. Apart(blocks, nextId)'
    BY <2>1 DEF DInv, DataTable, Apart
  <2>3. \A l \in Layers : Row(blocks[l], files)'
    BY <2>1 DEF DInv, DataTable, Row, Sound, Hollow
  <2>4. \A l \in Layers : (Managed(blocks[l]) <= seqLen)'
    BY <1>3, <2>1
  <2>5. QED
    BY <2>1, <2>2, <2>3, <2>4 DEF DInv, DataTable
<1>5. QED
  BY <1>1, <1>2, <1>4 DEF DInv

LEMMA EmptyRow == ASSUME NEW fs PROVE Row(<< >>, fs) /\ Managed(<< >>) = 0 /\ Len(<< >>) = 0
<1> DEFINE e == << >>
<1>1. e \in Seq(Block) /\ Len(e) = 0
  OBVIOUS
<1> HIDE DEF e
<1>2. Managed(e) = 0
  <2>1. Len(e) \in Nat
    BY <1>1
  <2>2. QED
    BY <1>1, <2>1, BeforeIs
<1>3. Row(e, fs)
  BY <1>1 DEF Row
<1>4. QED
  BY <1>1, <1>2, <1>3 DEF e

LEMMA InitData == Init => DInv
<1> SUFFICES ASSUME Init PROVE DInv
  OBVIOUS
<1>1. \A l \in Layers : blocks[l] = << >>
  BY DEF Init
<1>2. \A l \in Layers : Row(blocks[l], files) /\ Managed(blocks[l]) = 0 /\ Len(blocks[l]) = 0
  BY <1>1, EmptyRow
<1>3. Apart(blocks, nextId)
  BY <1>2 DEF Apart
<1>4. blocks = [l \in Layers |-> blocks[l]]
  BY DEF Init
<1>5. seqLen = 0 /\ nextId = 0 /\ kind \in Kinds
  BY DEF Init
<1>6. \A l \in Layers : Managed(blocks[l]) <= seqLen
  BY <1>2, <1>5
<1>7. DataTable(blocks, files)
  BY <1>2, <1>3, <1>4, <1>6 DEF DataTable
<1>8. files \in [Ids -> Tensors \cup {NoFile, Torn}]
  BY DEF Init
<1>9. QED
  BY <1>5, <1>7, <1>8, Sizes DEF DInv

\* Every call but the forward pass keeps what the layers have, or adds to it.
LEMMA CallData ==
  ASSUME DInv, Next PROVE Forward \/ (DInv' /\ NoneGone(blocks, blocks') /\ seqLen' = seqLen)
<1>1. CASE Forward
  BY <1>1
<1>2. CASE Ingest
  BY <1>2, IngestData DEF Ingest
<1>3. CASE IngestFails
  BY <1>3, IngestFailsData DEF IngestFails
<1>4. CASE AppendToken
  BY <1>4, AppendTokenData DEF AppendToken
<1>5. CASE AppendTokenFails
  BY <1>5, AppendTokenFailsData DEF AppendTokenFails
<1>6. CASE Build
  BY <1>6, BuildData DEF Build
<1>7. CASE BuildFails
  BY <1>7, BuildFailsData DEF BuildFails
<1>8. CASE \E l \in Layers : ReportAttention(l)
  BY <1>8, ReportAttentionData DEF ReportAttention
<1>9. CASE Schedule
  BY <1>9, ScheduleData DEF Schedule
<1>10. CASE ScheduleFailsSaving
  BY <1>10, ScheduleFailsSavingData DEF ScheduleFailsSaving
<1>11. CASE ScheduleFailsPromoting
  BY <1>11, ScheduleFailsPromotingData DEF ScheduleFailsPromoting
<1>12. CASE BuildFailsLoading
  BY <1>12, BuildFailsLoadingData DEF BuildFailsLoading
<1>13. CASE ScheduleFailsDemoting
  BY <1>13, ScheduleFailsDemotingData DEF ScheduleFailsDemoting
<1>14. QED
  BY <1>1, <1>2, <1>3, <1>4, <1>5, <1>6, <1>7, <1>8, <1>9, <1>10, <1>11, <1>12, <1>13 DEF Next

LEMMA NextData == DInv /\ [Next]_vars => DInv'
<1> SUFFICES ASSUME DInv, [Next]_vars PROVE DInv'
  OBVIOUS
<1>1. CASE UNCHANGED vars
  BY <1>1 DEF vars, DInv, DataTable, Apart, Row, Sound, Hollow
<1>2. CASE Next
  BY <1>2, CallData, ForwardData
<1>3. QED
  BY <1>1, <1>2

LEMMA SpecData == Spec => []DInv
  BY InitData, NextData, PTL DEF Spec

\* For any sizes and faults, the tables and files are of their types: no
\* identifier, position, count or tier is out of range, and no tensor of a
\* block is anything but its slots (TypeOK).
THEOREM TypeCorrect == Spec => []TypeOK
<1>1. DInv => TypeOK
  <2> SUFFICES ASSUME DInv PROVE TypeOK
    OBVIOUS
  <2>1. \A l \in Layers : \A i \in 1 .. Len(blocks[l]) : blocks[l][i] \in Block
    BY DEF DInv, DataTable, Row, Sound
  <2>2. QED
    BY <2>1 DEF DInv, TypeOK
<1>2. QED
  BY <1>1, SpecData, PTL

\* With room on the GPU for every block that is asked for, no block is hollow.
KInv == DInv /\ "scored" \notin AllocMayFail
Kept == [l \in Layers |-> Built(blocks[l])]

LEMMA KeptIs ==
  KInv => /\ Kept = [l \in Layers |-> Log!Upto(Managed(blocks[l]))]
          /\ \A l \in Layers : Managed(blocks[l]) \in Nat /\ Managed(blocks[l]) <= seqLen
<1> SUFFICES ASSUME KInv
             PROVE  /\ Kept = [l \in Layers |-> Log!Upto(Managed(blocks[l]))]
                    /\ \A l \in Layers : Managed(blocks[l]) \in Nat /\ Managed(blocks[l]) <= seqLen
  OBVIOUS
<1>1. ASSUME NEW l \in Layers
      PROVE  /\ Built(blocks[l]) = Log!Upto(Managed(blocks[l]))
             /\ Managed(blocks[l]) \in Nat /\ Managed(blocks[l]) <= seqLen
  <2>1. Row(blocks[l], files) /\ Managed(blocks[l]) <= seqLen
    BY DEF KInv, DInv, DataTable
  <2>2. \A i \in 1 .. Len(blocks[l]) : ~ Hollow(blocks[l][i])
    BY DEF KInv, Hollow
  <2>3. Built(blocks[l]) = [p \in 1 .. Managed(blocks[l]) |-> p]
    BY <2>1, <2>2, BuiltRow
  <2>4. Managed(blocks[l]) \in Nat
    BY <2>1, RowParts, BeforeIs
  <2>5. QED
    BY <2>1, <2>3, <2>4 DEF Log!Upto
<1>2. QED
  BY <1>1 DEF Kept

LEMMA UptoLen == ASSUME NEW n \in Nat PROVE Len(Log!Upto(n)) = n
  BY DEF Log!Upto

LEMMA InitLog == KInv /\ Init => Log!LogInit
<1> SUFFICES ASSUME KInv, Init PROVE Log!LogInit
  OBVIOUS
<1>1. Kept = [l \in Layers |-> Log!Upto(Managed(blocks[l]))]
  BY KeptIs
<1>2. \A l \in Layers : blocks[l] = << >> /\ Managed(blocks[l]) = 0
  BY EmptyRow DEF Init
<1>3. Log!Upto(0) = << >>
  BY DEF Log!Upto
<1>4. Kept = [l \in Layers |-> << >>]
  BY <1>1, <1>2, <1>3
<1>5. QED
  BY <1>4 DEF Init, Kept, Log!LogInit

LEMMA StepLog ==
  ASSUME KInv, KInv', [Next]_vars
  PROVE  [Log!LogForward \/ Log!LogAbsorb \/ Log!LogRestart]_(Log!logVars)
<1> DEFINE M == [l \in Layers |-> Managed(blocks[l])]
<1>1. /\ Kept = [l \in Layers |-> Log!Upto(Managed(blocks[l]))]
      /\ \A l \in Layers : Managed(blocks[l]) \in Nat /\ Managed(blocks[l]) <= seqLen
  BY KeptIs
<1>2. (/\ Kept = [l \in Layers |-> Log!Upto(Managed(blocks[l]))]
       /\ \A l \in Layers : Managed(blocks[l]) \in Nat /\ Managed(blocks[l]) <= seqLen)'
  BY KeptIs, PTL
<1>3. CASE UNCHANGED vars
  BY <1>3 DEF vars, Log!logVars, Built, Readable, Content
<1>4. CASE Forward
  <2>1. \A l \in Layers : Managed(blocks[l]) = seqLen
    BY <1>4 DEF Forward
  <2>2. Kept = [l \in Layers |-> Log!Upto(seqLen)]
    BY <1>1, <2>1
  <2>3. Kept' = Kept
    BY <1>4 DEF Forward, Kept, Built, Readable, Content
  <2>4. seqLen' \in Nat /\ seqLen' > seqLen
    BY <1>4, Sizes DEF KInv, DInv, Forward
  <2>5. Log!LogForward
    BY <2>2, <2>3, <2>4 DEF Kept, Log!LogForward
  <2>6. QED
    BY <2>5
<1>5. CASE Next /\ ~ Forward
  <2>1. NoneGone(blocks, blocks') /\ seqLen' = seqLen
    BY <1>5, CallData DEF KInv
  <2>2. ASSUME NEW l \in Layers
        PROVE  \E n \in Len(Kept[l]) .. seqLen : Kept'[l] = Log!Upto(n)
    <3>1. Kept[l] = Log!Upto(Managed(blocks[l])) /\ Len(Kept[l]) = Managed(blocks[l])
      BY <1>1, UptoLen
    <3>2. Kept'[l] = Log!Upto(Managed(blocks'[l]))
      BY <1>2
    <3>3. /\ Managed(blocks[l]) <= Managed(blocks'[l]) /\ Managed(blocks'[l]) <= seqLen
          /\ Managed(blocks'[l]) \in Nat /\ Managed(blocks[l]) \in Nat /\ seqLen \in Nat
      BY <1>1, <1>2, <2>1, Sizes DEF NoneGone, KInv, DInv
    <3>4. Managed(blocks'[l]) \in Len(Kept[l]) .. seqLen
      BY <3>1, <3>3
    <3>5. QED
      BY <3>2, <3>4
  <2>3. DOMAIN Kept' = Layers
    BY DEF Kept
  <2>4. Log!LogAbsorb
    BY <2>1, <2>2, <2>3, Zenon DEF Kept, Log!LogAbsorb
  <2>5. QED
    BY <2>4
<1>6. QED
  BY <1>3, <1>4, <1>5

\* For any sizes, budget and faults, as long as KVCacheManager gets the GPU
\* memory it asks for: what build_past_kv returns is the log of the tokens
\* taken in, whatever moved and failed (KeepsLog).
THEOREM KeepsLogTheorem ==
  ASSUME "scored" \notin AllocMayFail PROVE Spec => KeepsLog
<1>1. DInv => KInv
  BY DEF KInv
<1>2. KInv /\ Init => Log!LogInit
  BY InitLog
<1>3. KInv /\ KInv' /\ [Next]_vars
        => [Log!LogForward \/ Log!LogAbsorb \/ Log!LogRestart]_(Log!logVars)
  BY StepLog
<1>4. QED
  BY <1>1, <1>2, <1>3, SpecData, PTL DEF Spec, KeepsLog, Log!LogSpec
=============================================================================
