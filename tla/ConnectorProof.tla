--------------------------- MODULE ConnectorProof ---------------------------
(***************************************************************************)
(* For any number of layers, blocks, requests and steps: no two keys share  *)
(* a pinned buffer and the load events never run ahead of the loads; and a  *)
(* caller that waits for its kernels before it saves finds every save       *)
(* current after wait_for_save, and reads current blocks after              *)
(* wait_for_layer_load, in whatever order the three streams go on.          *)
(***************************************************************************)
EXTENDS Connector, SequenceTheorems, FiniteSetTheorems, FunctionTheorems, TLAPS

-----------------------------------------------------------------------------
(* Naturals, sets and sequences.                                           *)

\* The least member of a set of natural numbers: what stands in for induction.
LEMMA LeastNatural ==
  ASSUME NEW T \in SUBSET Nat, T # {}
  PROVE  \E m \in T : \A k \in T : m <= k
<1> DEFINE R == OpToRel(<, Nat)
<1>1. IsWellFoundedOn(R, Nat)
  BY NatLessThanWellFounded
<1>2. \A x, y \in Nat : y < x => <<y, x>> \in R
  BY DEF OpToRel
<1> HIDE DEF R
<1>3. PICK m \in T : \A k \in T : ~ (<<k, m>> \in R)
  BY <1>1, WFMin
<1>4. \A k \in T : ~ (k < m)
  BY <1>2, <1>3, Zenon
<1> QED  BY <1>4

\* In a finite set of naturals some member has n smaller ones, if there are
\* that many.
LEMMA NthExists ==
  ASSUME NEW F \in SUBSET Nat, IsFiniteSet(F), NEW n \in Nat, n < Cardinality(F)
  PROVE  \E x \in F : Cardinality({y \in F : y < x}) = n
<1> DEFINE below(x) == {y \in F : y < x}
           c == Cardinality(F)
           rank == [x \in F |-> Cardinality(below(x))]
<1>1. c \in Nat
  BY FS_CardinalityType
<1>2. ASSUME NEW x \in F
      PROVE  IsFiniteSet(below(x)) /\ Cardinality(below(x)) \in 0 .. c - 1
  <2>1. below(x) \in SUBSET F /\ x \in F /\ x \notin below(x)
    OBVIOUS
  <2> HIDE DEF below
  <2>2. IsFiniteSet(below(x)) /\ Cardinality(below(x)) <= c /\ Cardinality(below(x)) # c
    BY <2>1, FS_Subset
  <2>3. Cardinality(below(x)) \in Nat
    BY <2>2, FS_CardinalityType
  <2> QED  BY <1>1, <2>2, <2>3
<1>3. ASSUME NEW x \in F, NEW z \in F, x < z
      PROVE  Cardinality(below(x)) # Cardinality(below(z))
  <2>1. below(x) \in SUBSET below(z) /\ x \in below(z) /\ x \notin below(x)
    <3>1. x \in Nat /\ z \in Nat /\ \A y \in F : y \in Nat
      OBVIOUS
    <3>2. ~ (x < x) /\ \A y \in F : y < x => y < z
      BY <1>3, <3>1
    <3> QED  BY <1>3, <3>2
  <2> HIDE DEF below
  <2> QED  BY <1>2, <2>1, FS_Subset
<1>4. \A x, z \in F : rank[x] = rank[z] => x = z
  <2> SUFFICES ASSUME NEW x \in F, NEW z \in F, rank[x] = rank[z] PROVE x = z
    OBVIOUS
  <2>1. rank[x] = Cardinality(below(x)) /\ rank[z] = Cardinality(below(z))
    OBVIOUS
  <2> HIDE DEF rank, below
  <2>2. ~ (x < z) /\ ~ (z < x)
    BY <1>3, <2>1
  <2> QED  BY <2>2
<1>5. rank \in [F -> 0 .. c - 1]
  <2> HIDE DEF below
  <2> QED  BY <1>2
<1> HIDE DEF rank, c
<1>6. rank \in Injection(F, 0 .. c - 1)
  BY <1>4, <1>5, Fun_IsInj
<1>7. IsFiniteSet(0 .. c - 1) /\ Cardinality(0 .. c - 1) = c
  <2>1. IsFiniteSet(0 .. c - 1)
        /\ Cardinality(0 .. c - 1) = IF 0 > c - 1 THEN 0 ELSE (c - 1) - 0 + 1
    BY <1>1, FS_Interval
  <2> QED  BY <1>1, <2>1
<1>8. rank \in Surjection(F, 0 .. c - 1)
  BY <1>6, <1>7, FS_Injection DEF c
<1>9. n \in 0 .. c - 1
  BY <1>1 DEF c
<1>10. PICK x \in F : rank[x] = n
  BY <1>8, <1>9, Fun_IsSurj, Zenon DEF Surjection
<1> QED  BY <1>10 DEF rank

\* SetToSeq lists a finite set, each member once.
LEMMA ListOfSet ==
  ASSUME NEW S, IsFiniteSet(S)
  PROVE  /\ SetToSeq(S) \in Seq(S) /\ Len(SetToSeq(S)) = Cardinality(S)
         /\ Cardinality(S) \in Nat
         /\ \A i, j \in 1 .. Cardinality(S) : SetToSeq(S)[i] = SetToSeq(S)[j] => i = j
         /\ \A x \in S : \E i \in 1 .. Cardinality(S) : SetToSeq(S)[i] = x
<1> DEFINE n == Cardinality(S)
           s == SetToSeq(S)
<1>1. n \in Nat /\ ExistsBijection(1 .. n, S)
  BY FS_CardinalityType
<1>2. PICK f \in Bijection(1 .. n, S) : TRUE
  BY <1>1 DEF ExistsBijection
<1>3. f \in [1 .. n -> S] /\ IsInjective(f)
  BY <1>2 DEF Bijection, Injection, IsInjective
<1>4. s \in [1 .. n -> S] /\ IsInjective(s)
  BY <1>3 DEF SetToSeq
<1> HIDE DEF s, n
<1>5. s \in Injection(1 .. n, S)
  BY <1>4, Fun_IsInj DEF IsInjective
<1>6. IsFiniteSet(1 .. n) /\ Cardinality(1 .. n) = n
  <2>1. IsFiniteSet(1 .. n) /\ Cardinality(1 .. n) = IF 1 > n THEN 0 ELSE n - 1 + 1
    BY <1>1, FS_Interval
  <2> QED  BY <1>1, <2>1
<1>7. s \in Surjection(1 .. n, S)
  BY <1>5, <1>6, FS_Injection DEF n
<1>8. \A x \in S : \E i \in 1 .. n : s[i] = x
  BY <1>7 DEF Surjection
<1>9. s \in Seq(S) /\ Len(s) = n
  BY <1>1, <1>4
<1>10. \A i, j \in 1 .. n : s[i] = s[j] => i = j
  BY <1>4 DEF IsInjective
<1> QED  BY <1>1, <1>8, <1>9, <1>10 DEF s, n

\* FlattenSeq concatenates from the left: its recursion has a solution, and
\* one only, so that the flattened prefixes of a list are each other's prefixes.
IsFlat(g, s, n) == g = [i \in 1 .. n |-> IF i = 1 THEN s[i] ELSE g[i - 1] \o s[i]]

LEMMA FlatExists ==
  ASSUME NEW n \in Nat, NEW s
  PROVE  \E g : IsFlat(g, s, n)
<1> DEFINE T == {m \in 0 .. n : ~ \E g : IsFlat(g, s, m)}
<1> SUFFICES ASSUME T # {} PROVE FALSE
  <2>1. n \in 0 .. n
    OBVIOUS
  <2> QED  BY <2>1, Zenon
<1>1. T \in SUBSET Nat
  OBVIOUS
<1>2. PICK m \in T : \A k \in T : m <= k
  BY <1>1, LeastNatural
<1>3. m \in 0 .. n /\ ~ \E g : IsFlat(g, s, m)
  OBVIOUS
<1>4. CASE m = 0
  <2> DEFINE g == [i \in 1 .. 0 |-> s[i]]
  <2>1. IsFlat(g, s, 0)
    BY DEF IsFlat
  <2> QED  BY <1>3, <1>4, <2>1
<1>5. CASE m # 0
  <2>1. m - 1 \in 0 .. n /\ ~ (m <= m - 1)
    BY <1>3, <1>5
  <2>2. m - 1 \notin T
    BY <1>2, <2>1
  <2>3. PICK g : IsFlat(g, s, m - 1)
    BY <2>1, <2>2
  <2> DEFINE f == [i \in 1 .. m |-> IF i = m /\ i # 1 THEN g[i - 1] \o s[i]
                                    ELSE IF i = 1 THEN s[i] ELSE g[i]]
  <2>4. \A i \in 1 .. m - 1 : g[i] = IF i = 1 THEN s[i] ELSE g[i - 1] \o s[i]
    BY <2>3 DEF IsFlat
  <2>5. \A i \in 1 .. m : i # 1 => i - 1 \in 1 .. m /\ i - 1 # m /\ i - 1 \in 1 .. m - 1
    BY <1>3
  <2>6. \A i \in 1 .. m : i # m => i \in 1 .. m - 1
    BY <1>3
  <2>7. \A i \in 1 .. m : i # 1 => f[i - 1] = g[i - 1]
    BY <2>4, <2>5
  <2>8. \A i \in 1 .. m : f[i] = IF i = 1 THEN s[i] ELSE f[i - 1] \o s[i]
    <3> TAKE i \in 1 .. m
    <3>1. f[i] = IF i = m /\ i # 1 THEN g[i - 1] \o s[i] ELSE IF i = 1 THEN s[i] ELSE g[i]
      OBVIOUS
    <3> HIDE DEF f
    <3> QED  BY <2>4, <2>6, <2>7, <3>1
  <2>9. f = [i \in 1 .. m |-> f[i]]
    OBVIOUS
  <2> HIDE DEF f
  <2>10. IsFlat(f, s, m)
    BY <2>8, <2>9 DEF IsFlat
  <2> QED  BY <1>3, <2>10
<1> QED  BY <1>4, <1>5

LEMMA FlatUnique ==
  ASSUME NEW n \in Nat, NEW s, NEW g, IsFlat(g, s, n),
         NEW m \in 0 .. n, NEW t, NEW h, IsFlat(h, t, m), \A i \in 1 .. m : t[i] = s[i]
  PROVE  \A i \in 1 .. m : h[i] = g[i]
<1> DEFINE T == {i \in 1 .. m : h[i] # g[i]}
<1> SUFFICES ASSUME T # {} PROVE FALSE
  OBVIOUS
<1>1. T \in SUBSET Nat
  OBVIOUS
<1>2. PICK k \in T : \A i \in T : k <= i
  BY <1>1, LeastNatural
<1>3. k \in 1 .. m /\ k \in 1 .. n /\ h[k] # g[k] /\ k \in Nat
  OBVIOUS
<1>4. /\ h[k] = IF k = 1 THEN t[k] ELSE h[k - 1] \o t[k]
      /\ g[k] = IF k = 1 THEN s[k] ELSE g[k - 1] \o s[k]
  BY <1>3 DEF IsFlat
<1>5. k # 1 => h[k - 1] = g[k - 1]
  <2>1. k # 1 => k - 1 \in 1 .. m /\ ~ (k <= k - 1)
    BY <1>3
  <2> QED  BY <1>2, <2>1
<1> QED  BY <1>3, <1>4, <1>5

LEMMA FlattenIs ==
  ASSUME NEW n \in Nat \ {0}, NEW s, Len(s) = n
  PROVE  \E g : IsFlat(g, s, n) /\ FlattenSeq(s) = g[n]
<1>1. FlattenSeq(s) = (CHOOSE g : IsFlat(g, s, n))[n]
  BY DEF FlattenSeq, IsFlat
<1>2. IsFlat(CHOOSE g : IsFlat(g, s, n), s, n)
  BY FlatExists, Zenon
<1> QED  BY <1>1, <1>2, Zenon

LEMMA FlattenPrefixes ==
  ASSUME NEW n \in Nat \ {0}, NEW s
  PROVE  \E g : /\ IsFlat(g, s, n)
                /\ \A m \in 1 .. n : FlattenSeq([i \in 1 .. m |-> s[i]]) = g[m]
<1>1. PICK g : IsFlat(g, s, n)
  BY FlatExists
<1>2. ASSUME NEW m \in 1 .. n
      PROVE  FlattenSeq([i \in 1 .. m |-> s[i]]) = g[m]
  <2> DEFINE t == [i \in 1 .. m |-> s[i]]
  <2>1. m \in Nat \ {0} /\ Len(t) = m /\ \A i \in 1 .. m : t[i] = s[i]
    OBVIOUS
  <2> HIDE DEF t
  <2>2. PICK h : IsFlat(h, t, m) /\ FlattenSeq(t) = h[m]
    BY <2>1, FlattenIs
  <2>3. h[m] = g[m]
    BY <1>1, <2>1, <2>2, FlatUnique
  <2> QED  BY <2>2, <2>3 DEF t
<1> QED  BY <1>1, <1>2

-----------------------------------------------------------------------------
(* What start_load_kv issues.                                              *)

CopyOps   == [key : Keys, buf : Bufs]
KernelOps == [key : Keys, val : Values]
TableOK == dram \in [Keys -> Bufs \cup {NoBuf}] /\ meta.load \in SUBSET Blocks

\* A load of the pass: of a block the metadata names, from its buffer.
LoadOK(o) == /\ o \in CopyOps /\ o.key[2] \in meta.load /\ o.buf = dram[o.key]
Occurs(s, k) == \E i \in 1 .. Len(s) : s[i].key = k
HasCopy(k) == k[2] \in meta.load /\ dram[k] # NoBuf

LEMMA ConstantFacts ==
  /\ NLayers \in Nat \ {0} /\ MaxSteps \in Nat /\ IsFiniteSet(Blocks) /\ NoBuf \notin Bufs
  /\ NoBuf = 0 /\ 0 \notin Blocks /\ Layers = 1 .. NLayers /\ Keys = Layers \X Blocks
  /\ \A l \in Layers : l \in Nat /\ l >= 1 /\ l <= NLayers
BY ConnectorConstantsOK DEF ConnectorConstantsOK, Bufs, NoBuf, Layers, Keys

LEMMA LoadOpsOfLayer ==
  ASSUME TableOK, NEW l \in Layers
  PROVE  /\ LoadOps(l) \in Seq(CopyOps)
         /\ \A i \in 1 .. Len(LoadOps(l)) : LoadOK(LoadOps(l)[i]) /\ LoadOps(l)[i].key[1] = l
         /\ \A i, j \in 1 .. Len(LoadOps(l)) :
              LoadOps(l)[i].key = LoadOps(l)[j].key => i = j
         /\ \A b \in Blocks : HasCopy(<<l, b>>) => Occurs(LoadOps(l), <<l, b>>)
<1> DEFINE B == {c \in meta.load : dram[<<l, c>>] # NoBuf}
           op(b) == [key |-> <<l, b>>, buf |-> dram[<<l, b>>]]
           S == {op(b) : b \in B}
           f == [b \in B |-> op(b)]
           s == SetToSeq(S)
<1>1. IsFiniteSet(B)
  <2>1. B \in SUBSET Blocks
    BY DEF TableOK
  <2> HIDE DEF B
  <2> QED  BY <2>1, ConstantFacts, FS_Subset
<1>2. f \in Surjection(B, S)
  <2>1. f \in [B -> S] /\ \A t \in S : \E b \in B : f[b] = t
    OBVIOUS
  <2> HIDE DEF f, B, S
  <2> QED  BY <2>1, Fun_IsSurj
<1>3. IsFiniteSet(S)
  BY <1>1, <1>2, FS_Surjection
<1>4. \A o \in S : LoadOK(o) /\ o.key[1] = l /\ o = op(o.key[2])
  <2> SUFFICES ASSUME NEW b \in B
               PROVE  LoadOK(op(b)) /\ op(b).key[1] = l /\ op(b) = op(op(b).key[2])
    OBVIOUS
  <2>1. b \in Blocks /\ b \in meta.load /\ <<l, b>> \in Keys
    BY ConstantFacts DEF TableOK
  <2>2. dram[<<l, b>>] \in Bufs
    BY <2>1 DEF TableOK
  <2>3. op(b) \in CopyOps
    BY <2>1, <2>2 DEF CopyOps
  <2> QED  BY <2>1, <2>3 DEF LoadOK
<1>5. \A b \in Blocks : HasCopy(<<l, b>>) => op(b) \in S /\ op(b).key = <<l, b>>
  BY DEF HasCopy
<1>6. LoadOps(l) = s
  BY DEF LoadOps
<1> HIDE DEF S, op, f, B
<1>7. /\ s \in Seq(S) /\ Len(s) \in Nat
      /\ \A i, j \in 1 .. Len(s) : s[i] = s[j] => i = j
      /\ \A x \in S : \E i \in 1 .. Len(s) : s[i] = x
  BY <1>3, ListOfSet
<1> HIDE DEF s
<1>8. \A i \in 1 .. Len(s) : s[i] \in S
  BY <1>7, ElementOfSeq
<1>9. s \in Seq(CopyOps)
  <2>1. S \subseteq CopyOps
    BY <1>4 DEF LoadOK
  <2> QED  BY <1>7, <2>1, SeqMonotonic
<1>10. \A i, j \in 1 .. Len(s) : s[i].key = s[j].key => i = j
  <2> SUFFICES ASSUME NEW i \in 1 .. Len(s), NEW j \in 1 .. Len(s), s[i].key = s[j].key
               PROVE  s[i] = s[j]
    BY <1>7
  <2> QED  BY <1>4, <1>8
<1>11. \A b \in Blocks : HasCopy(<<l, b>>) => Occurs(s, <<l, b>>)
  BY <1>5, <1>7 DEF Occurs
<1> QED  BY <1>4, <1>6, <1>8, <1>9, <1>10, <1>11

\* The loads of layers 1 .. m, where g[l] are those of layers 1 .. l.
FirstLoads(g, m) ==
  /\ g[m] \in Seq(CopyOps)
  /\ \A i \in 1 .. Len(g[m]) : LoadOK(g[m][i]) /\ g[m][i].key[1] <= m
  /\ \A i, j \in 1 .. Len(g[m]) : g[m][i].key = g[m][j].key => i = j
  /\ \A k \in Keys : k[1] <= m /\ HasCopy(k) => Occurs(g[m], k)
  /\ \A l \in 1 .. m : /\ Len(g[l]) \in 0 .. Len(g[m])
                       /\ \A i \in 1 .. Len(g[m]) : i > Len(g[l]) => g[m][i].key[1] > l

LEMMA OneMoreLayer ==
  ASSUME TableOK, NEW m \in Layers, m # 1, NEW g, FirstLoads(g, m - 1),
         g[m] = g[m - 1] \o LoadOps(m)
  PROVE  FirstLoads(g, m)
<1> DEFINE s == g[m - 1]
           t == LoadOps(m)
           u == g[m]
<1>1. /\ s \in Seq(CopyOps) /\ t \in Seq(CopyOps) /\ u = s \o t /\ m \in Nat /\ m - 1 \in Nat
      /\ Len(s) \in Nat /\ Len(t) \in Nat
  BY LoadOpsOfLayer, ConstantFacts, LenProperties DEF FirstLoads
<1>2. /\ \A i \in 1 .. Len(s) : LoadOK(s[i]) /\ s[i].key[1] <= m - 1
      /\ \A i, j \in 1 .. Len(s) : s[i].key = s[j].key => i = j
      /\ \A k \in Keys : k[1] <= m - 1 /\ HasCopy(k) => Occurs(s, k)
      /\ \A l \in 1 .. m - 1 : /\ Len(g[l]) \in 0 .. Len(s)
                               /\ \A i \in 1 .. Len(s) : i > Len(g[l]) => s[i].key[1] > l
  BY DEF FirstLoads
<1>3. /\ \A i \in 1 .. Len(t) : LoadOK(t[i]) /\ t[i].key[1] = m
      /\ \A i, j \in 1 .. Len(t) : t[i].key = t[j].key => i = j
      /\ \A b \in Blocks : HasCopy(<<m, b>>) => Occurs(t, <<m, b>>)
  BY LoadOpsOfLayer
<1> HIDE DEF s, t, u
<1>4. /\ u \in Seq(CopyOps) /\ Len(u) = Len(s) + Len(t)
      /\ \A i \in 1 .. Len(u) : u[i] = IF i <= Len(s) THEN s[i] ELSE t[i - Len(s)]
  BY <1>1, ConcatProperties
<1>5. ASSUME NEW i \in 1 .. Len(u)
      PROVE  \/ i \in 1 .. Len(s) /\ u[i] = s[i]
             \/ i > Len(s) /\ i - Len(s) \in 1 .. Len(t) /\ u[i] = t[i - Len(s)]
  BY <1>1, <1>4
<1>6. \A i \in 1 .. Len(u) : /\ LoadOK(u[i]) /\ u[i].key[1] <= m
                             /\ (i \in 1 .. Len(s) => u[i].key[1] <= m - 1)
                             /\ (i > Len(s) => u[i].key[1] = m)
  <2> TAKE i \in 1 .. Len(u)
  <2>1. CASE i \in 1 .. Len(s) /\ u[i] = s[i]
    <3>1. LoadOK(s[i]) /\ s[i].key[1] <= m - 1
      BY <1>2, <2>1
    <3>2. s[i].key[1] \in Nat
      BY <3>1, ConstantFacts DEF LoadOK, CopyOps
    <3> QED  BY <1>1, <2>1, <3>1, <3>2
  <2>2. CASE i > Len(s) /\ i - Len(s) \in 1 .. Len(t) /\ u[i] = t[i - Len(s)]
    BY <1>1, <1>3, <2>2
  <2> QED  BY <1>5, <2>1, <2>2
<1>7. ASSUME NEW i \in 1 .. Len(u), NEW j \in 1 .. Len(u), u[i].key = u[j].key
      PROVE  i = j
  <2>1. (i \in 1 .. Len(s)) <=> (j \in 1 .. Len(s))
    <3>1. ~ (m <= m - 1) /\ u[i].key[1] = u[j].key[1]
      BY <1>1, <1>7
    <3> QED  BY <1>5, <1>6, <3>1
  <2>2. CASE i \in 1 .. Len(s)
    <3>1. u[i] = s[i] /\ u[j] = s[j] /\ j \in 1 .. Len(s)
      BY <1>1, <1>4, <2>1, <2>2
    <3> QED  BY <1>2, <1>7, <2>2, <3>1
  <2>3. CASE i \notin 1 .. Len(s)
    <3>1. /\ i - Len(s) \in 1 .. Len(t) /\ u[i] = t[i - Len(s)]
          /\ j - Len(s) \in 1 .. Len(t) /\ u[j] = t[j - Len(s)]
      BY <1>5, <2>1, <2>3
    <3>2. i - Len(s) = j - Len(s)
      BY <1>3, <1>7, <3>1
    <3> QED  BY <1>1, <3>2
  <2> QED  BY <2>2, <2>3
<1>8. ASSUME NEW k \in Keys, k[1] <= m, HasCopy(k)
      PROVE  Occurs(u, k)
  <2>1. k[1] \in Nat /\ k = <<k[1], k[2]>> /\ k[2] \in Blocks
    BY ConstantFacts
  <2>2. CASE k[1] <= m - 1
    <3>1. PICK i \in 1 .. Len(s) : s[i].key = k
      BY <1>2, <1>8, <2>2 DEF Occurs
    <3>2. i \in 1 .. Len(u) /\ u[i] = s[i]
      BY <1>1, <1>4
    <3> QED  BY <3>1, <3>2 DEF Occurs
  <2>3. CASE k[1] = m
    <3>1. PICK i \in 1 .. Len(t) : t[i].key = k
      BY <1>3, <1>8, <2>1, <2>3 DEF Occurs
    <3>2. Len(s) + i \in 1 .. Len(u) /\ u[Len(s) + i] = t[i]
      <4>1. Len(s) + i \in 1 .. Len(u) /\ ~ (Len(s) + i <= Len(s)) /\ (Len(s) + i) - Len(s) = i
        BY <1>1, <1>4
      <4> QED  BY <1>4, <4>1
    <3> QED  BY <3>1, <3>2 DEF Occurs
  <2> QED  BY <1>1, <1>8, <2>1, <2>2, <2>3
<1>9. ASSUME NEW l \in 1 .. m
      PROVE  /\ Len(g[l]) \in 0 .. Len(u)
             /\ \A i \in 1 .. Len(u) : i > Len(g[l]) => u[i].key[1] > l
  <2>1. CASE l = m
    BY <1>1, <1>4, <2>1 DEF u
  <2>2. CASE l # m
    <3>1. l \in 1 .. m - 1
      BY <1>1, <2>2
    <3>2. Len(g[l]) \in 0 .. Len(s) /\ \A i \in 1 .. Len(s) : i > Len(g[l]) => s[i].key[1] > l
      BY <1>2, <3>1
    <3>3. Len(g[l]) \in 0 .. Len(u) /\ m > l
      BY <1>1, <1>4, <3>1, <3>2
    <3>4. ASSUME NEW i \in 1 .. Len(u), i > Len(g[l])
          PROVE  u[i].key[1] > l
      BY <1>5, <1>6, <3>2, <3>3, <3>4
    <3> QED  BY <3>3, <3>4
  <2> QED  BY <2>1, <2>2
<1> QED  BY <1>4, <1>6, <1>7, <1>8, <1>9 DEF FirstLoads, u

LEMMA FirstLoadsOfAll ==
  ASSUME TableOK, NEW g, IsFlat(g, [l \in Layers |-> LoadOps(l)], NLayers)
  PROVE  \A m \in Layers : FirstLoads(g, m)
<1> DEFINE T == {m \in Layers : ~ FirstLoads(g, m)}
<1> SUFFICES ASSUME T # {} PROVE FALSE
  OBVIOUS
<1>1. T \in SUBSET Nat
  BY ConstantFacts
<1>2. PICK m \in T : \A k \in T : m <= k
  BY <1>1, LeastNatural
<1>3. m \in Layers /\ ~ FirstLoads(g, m) /\ m \in Nat /\ m >= 1 /\ m <= NLayers /\ NLayers \in Nat
  BY ConstantFacts
<1>4. g[m] = IF m = 1 THEN LoadOps(m) ELSE g[m - 1] \o LoadOps(m)
  BY <1>3, ConstantFacts DEF IsFlat
<1>5. CASE m = 1
  <2>1. /\ g[1] \in Seq(CopyOps) /\ Len(g[1]) \in Nat
        /\ \A i \in 1 .. Len(g[1]) : LoadOK(g[1][i]) /\ g[1][i].key[1] = 1
        /\ \A i, j \in 1 .. Len(g[1]) : g[1][i].key = g[1][j].key => i = j
        /\ \A b \in Blocks : HasCopy(<<1, b>>) => Occurs(g[1], <<1, b>>)
    BY <1>3, <1>4, <1>5, LoadOpsOfLayer, LenProperties
  <2>2. \A k \in Keys : k[1] <= 1 => k = <<1, k[2]>> /\ k[2] \in Blocks
    BY ConstantFacts
  <2>3. \A l \in 1 .. 1 : l = 1
    OBVIOUS
  <2>4. \A k \in Keys : k[1] <= 1 /\ HasCopy(k) => Occurs(g[1], k)
    BY <2>1, <2>2, Zenon
  <2>5. \A i \in 1 .. Len(g[1]) : ~ (i > Len(g[1])) /\ g[1][i].key[1] <= 1
    BY <2>1
  <2>6. \A l \in 1 .. 1 : Len(g[l]) \in 0 .. Len(g[1])
    BY <2>1, <2>3
  <2>7. FirstLoads(g, 1)
    BY <2>1, <2>3, <2>4, <2>5, <2>6 DEF FirstLoads
  <2> QED  BY <1>3, <1>5, <2>7
<1>6. CASE m # 1
  <2>1. m - 1 \in Layers /\ ~ (m <= m - 1)
    BY <1>3, <1>6, ConstantFacts
  <2>2. FirstLoads(g, m - 1)
    BY <1>2, <2>1
  <2> QED  BY <1>3, <1>4, <1>6, <2>2, OneMoreLayer
<1> QED  BY <1>5, <1>6

\* start_load_kv issues one copy for every block named that has a buffer, and
\* records after the copies of each layer how many there are so far.
LEMMA LoadsOfPass ==
  ASSUME TableOK, loadsIssued \in Nat
  PROVE  /\ AllLoads \in Seq(CopyOps) /\ Len(AllLoads) \in Nat
         /\ \A i \in 1 .. Len(AllLoads) : LoadOK(AllLoads[i])
         /\ \A i, j \in 1 .. Len(AllLoads) : AllLoads[i].key = AllLoads[j].key => i = j
         /\ \A k \in Keys : HasCopy(k) => Occurs(AllLoads, k)
         /\ IssuedUpto(NLayers) = loadsIssued + Len(AllLoads)
         /\ \A l \in Layers :
              /\ IssuedUpto(l) \in Nat /\ IssuedUpto(l) <= loadsIssued + Len(AllLoads)
              /\ \A i \in 1 .. Len(AllLoads) :
                   loadsIssued + i > IssuedUpto(l) => AllLoads[i].key[1] > l
<1> DEFINE s == [l \in Layers |-> LoadOps(l)]
<1>1. NLayers \in Nat \ {0} /\ NLayers \in Layers
  BY ConstantFacts
<1>2. PICK g : /\ IsFlat(g, s, NLayers)
               /\ \A m \in 1 .. NLayers : FlattenSeq([i \in 1 .. m |-> s[i]]) = g[m]
  <2> HIDE DEF s
  <2> QED  BY <1>1, FlattenPrefixes
<1>3. ASSUME NEW m \in Layers
      PROVE  FlattenSeq([i \in 1 .. m |-> LoadOps(i)]) = g[m]
  <2>1. m \in 1 .. NLayers /\ \A i \in 1 .. m : i \in Layers
    BY ConstantFacts
  <2>2. [i \in 1 .. m |-> s[i]] = [i \in 1 .. m |-> LoadOps(i)]
    BY <2>1
  <2> HIDE DEF s
  <2> QED  BY <1>2, <2>1, <2>2
<1>4. \A m \in Layers : FirstLoads(g, m)
  BY <1>2, FirstLoadsOfAll
<1>5. AllLoads = g[NLayers]
  BY <1>1, <1>3 DEF AllLoads, Layers
<1>6. \A m \in Layers : IssuedUpto(m) = loadsIssued + Len(g[m])
  BY <1>3, Zenon DEF IssuedUpto
<1> HIDE DEF s
<1> DEFINE a == AllLoads
<1>7. /\ a \in Seq(CopyOps) /\ Len(a) \in Nat
      /\ \A i \in 1 .. Len(a) : LoadOK(a[i])
      /\ \A i, j \in 1 .. Len(a) : a[i].key = a[j].key => i = j
      /\ \A k \in Keys : k[1] <= NLayers /\ HasCopy(k) => Occurs(a, k)
      /\ \A l \in 1 .. NLayers : /\ Len(g[l]) \in 0 .. Len(a)
                                 /\ \A i \in 1 .. Len(a) : i > Len(g[l]) => a[i].key[1] > l
  BY <1>1, <1>4, <1>5, LenProperties DEF FirstLoads
<1>8. \A k \in Keys : k[1] <= NLayers
  BY ConstantFacts
<1>9. IssuedUpto(NLayers) = loadsIssued + Len(a)
  BY <1>1, <1>5, <1>6
<1>10. ASSUME NEW l \in Layers
       PROVE  /\ IssuedUpto(l) \in Nat /\ IssuedUpto(l) <= loadsIssued + Len(a)
              /\ \A i \in 1 .. Len(a) : loadsIssued + i > IssuedUpto(l) => a[i].key[1] > l
  <2>1. l \in 1 .. NLayers /\ IssuedUpto(l) = loadsIssued + Len(g[l])
    BY <1>6 DEF Layers
  <2>2. /\ Len(g[l]) \in 0 .. Len(a)
        /\ \A i \in 1 .. Len(a) : i > Len(g[l]) => a[i].key[1] > l
    BY <1>7, <2>1
  <2> HIDE DEF a
  <2>3. IssuedUpto(l) \in Nat /\ IssuedUpto(l) <= loadsIssued + Len(a)
    BY <1>7, <2>1, <2>2
  <2>4. ASSUME NEW i \in 1 .. Len(a), loadsIssued + i > IssuedUpto(l)
        PROVE  a[i].key[1] > l
    <3>1. i > Len(g[l])
      BY <1>7, <2>1, <2>2, <2>4
    <3> QED  BY <2>2, <3>1
  <2> QED  BY <2>3, <2>4
<1> QED  BY <1>7, <1>8, <1>9, <1>10

-----------------------------------------------------------------------------
(* The inductive invariant, for every caller.                              *)

\* The layers whose loads this pass has waited for (all of them between the
\* passes), and those whose saves it has issued.
Waited == IF phase[1] \in {"done", "loaded", "computed"} THEN 1 .. phase[2] ELSE Layers
Saving == IF phase[1] = "done" THEN 1 .. phase[2]
          ELSE IF phase[1] \in {"loaded", "computed"} THEN 1 .. phase[2] - 1 ELSE {}

PhaseNames == {"idle", "begun", "done", "loaded", "computed", "saved", "down"}
SchedTypes ==
  /\ cached \in [Reqs -> (SUBSET Blocks) \cup {NotCached}]
  /\ offload \in Seq(Blocks) /\ Len(offload) <= MaxOffload
  /\ meta.save \in Seq(Blocks) /\ meta.load \in Loads \cup {{}}
  /\ meta.slot \in Blocks \cup {NoSlot}
HostTypes ==
  /\ phase \in PhaseNames \X (0 .. NLayers) /\ step \in Values
  /\ dram \in [Keys -> Bufs \cup {NoBuf}] /\ events \in [Layers -> Nat]
  /\ loadsDone \in Nat /\ loadsIssued \in Nat
  /\ now \in [Keys -> Values] /\ copy \in [Keys -> SUBSET Values]
DeviceTypes ==
  /\ compute \in Seq([key : Keys, val : Values])
  /\ saves \in Seq(CopyOps) /\ loads \in Seq(CopyOps)
  /\ gpu \in [Keys -> Values] /\ heap \in [Bufs -> Values]

PhaseOK ==
  /\ phase[1] \in {"loaded", "computed"} => phase[2] \in Layers
  /\ phase[1] \notin {"done", "loaded", "computed"} => phase[2] = 0
  /\ phase[1] \notin {"idle", "down"} => meta.slot \in Blocks

BuffersDiffer == \A k, m \in Keys : k # m /\ dram[k] # NoBuf => dram[k] # dram[m]

\* A save under way is of a layer this pass saved, and writes a buffer no other
\* key has been given since.
SaveOK(o) == /\ o.key[1] \in Saving
             /\ \A m \in Keys : o.buf = dram[m] => o.key = m
SavesOK ==
  /\ \A i \in 1 .. Len(saves) : SaveOK(saves[i])
  /\ \A i, j \in 1 .. Len(saves) : saves[i].key = saves[j].key => saves[i].buf = saves[j].buf

\* A load under way is of a layer the pass has not waited for, from a buffer
\* nothing writes; and it comes after an event only if its layer does.
PendingOK(o) == /\ o.key[1] \notin Waited
                /\ \A m \in Keys : o.buf = dram[m] => o.key = m
                /\ \A j \in 1 .. Len(saves) : o.buf # saves[j].buf
EventsOK(s, done, ev) ==
  \A i \in 1 .. Len(s) : \A l \in Layers \ Waited : done + i > ev[l] => s[i].key[1] > l
LoadsOK ==
  /\ loadsDone + Len(loads) = loadsIssued
  /\ \A l \in Layers : events[l] <= loadsIssued
  /\ \A i \in 1 .. Len(loads) : PendingOK(loads[i])
  /\ \A i, j \in 1 .. Len(loads) : loads[i].key = loads[j].key => i = j
  /\ EventsOK(loads, loadsDone, events)

BaseInv == /\ SchedTypes /\ HostTypes /\ DeviceTypes
           /\ PhaseOK /\ BuffersDiffer /\ SavesOK /\ LoadsOK

-----------------------------------------------------------------------------
(* There is always a free buffer.                                          *)

LEMMA ImageSize ==
  ASSUME NEW S, IsFiniteSet(S), NEW f
  PROVE  /\ IsFiniteSet({f[x] : x \in S})
         /\ Cardinality({f[x] : x \in S}) <= Cardinality(S)
<1> DEFINE T == {f[x] : x \in S}
           g == [x \in S |-> f[x]]
<1>1. g \in [S -> T] /\ \A t \in T : \E x \in S : g[x] = t
  OBVIOUS
<1> HIDE DEF g, T
<1>2. g \in Surjection(S, T)
  BY <1>1, Fun_IsSurj
<1>3. IsFiniteSet(T) /\ Cardinality(T) <= Cardinality(S)
  BY <1>2, FS_Surjection
<1> QED  BY <1>3 DEF T

LEMMA KeysFinite ==
  /\ IsFiniteSet(Keys) /\ Cardinality(Keys) \in Nat
  /\ IsFiniteSet(Bufs) /\ Cardinality(Bufs) = 3 * Cardinality(Keys)
  /\ Bufs \in SUBSET Nat
<1> DEFINE c == Cardinality(Blocks)
<1>1. IsFiniteSet(Layers) /\ Cardinality(Layers) = NLayers /\ NLayers \in Nat
  <2>1. NLayers \in Nat \ {0}
    BY ConstantFacts
  <2>2. IsFiniteSet(1 .. NLayers)
        /\ Cardinality(1 .. NLayers) = IF 1 > NLayers THEN 0 ELSE NLayers - 1 + 1
    BY <2>1, FS_Interval
  <2> QED  BY <2>1, <2>2 DEF Layers
<1>2. IsFiniteSet(Blocks) /\ c \in Nat
  BY ConstantFacts, FS_CardinalityType
<1>3. IsFiniteSet(Keys) /\ Cardinality(Keys) = NLayers * c
  BY <1>1, <1>2, FS_Product DEF Keys
<1> HIDE DEF c
<1>4. NLayers * c \in Nat /\ 3 * NLayers * c = 3 * (NLayers * c)
  BY <1>1, <1>2
<1>5. /\ IsFiniteSet(1 .. 3 * (NLayers * c))
      /\ Cardinality(1 .. 3 * (NLayers * c)) = 3 * (NLayers * c)
  <2> DEFINE k == NLayers * c
  <2>1. k \in Nat
    BY <1>4
  <2> HIDE DEF k
  <2>2. IsFiniteSet(1 .. 3 * k)
        /\ Cardinality(1 .. 3 * k) = IF 1 > 3 * k THEN 0 ELSE 3 * k - 1 + 1
    BY <2>1, FS_Interval
  <2>3. IsFiniteSet(1 .. 3 * k) /\ Cardinality(1 .. 3 * k) = 3 * k
    BY <2>1, <2>2
  <2> QED  BY <2>3 DEF k
<1>6. Bufs = 1 .. 3 * (NLayers * c)
  BY <1>4 DEF Bufs, c
<1> QED  BY <1>3, <1>4, <1>5, <1>6

\* A stream that uses one buffer per key uses no more buffers than keys.
LEMMA BufsOfStream ==
  ASSUME NEW s \in Seq(CopyOps),
         \A i, j \in 1 .. Len(s) : s[i].key = s[j].key => s[i].buf = s[j].buf
  PROVE  /\ IsFiniteSet({s[i].buf : i \in 1 .. Len(s)})
         /\ Cardinality({s[i].buf : i \in 1 .. Len(s)}) <= Cardinality(Keys)
<1> DEFINE I == 1 .. Len(s)
           U == {s[i].buf : i \in I}
           C == {s[i].key : i \in I}
           at(k) == CHOOSE i \in I : s[i].key = k
           f == [k \in C |-> s[at(k)].buf]
<1>1. \A i \in I : s[i] \in CopyOps
  BY ElementOfSeq
<1>2. C \in SUBSET Keys
  BY <1>1 DEF CopyOps
<1>3. ASSUME NEW i \in I
      PROVE  f[s[i].key] = s[i].buf /\ s[i].key \in C
  <2>1. at(s[i].key) \in I /\ s[at(s[i].key)].key = s[i].key
    OBVIOUS
  <2>2. s[i].key \in C /\ f[s[i].key] = s[at(s[i].key)].buf
    OBVIOUS
  <2> HIDE DEF at, f, C
  <2> QED  BY <2>1, <2>2
<1>4. \A k \in C : \E i \in I : s[i].key = k
  OBVIOUS
<1> HIDE DEF f
<1>5. U = {f[k] : k \in C}
  <2>1. \A x \in U : \E k \in C : f[k] = x
    BY <1>3
  <2>2. \A k \in C : f[k] \in U
    BY <1>3, <1>4
  <2> HIDE DEF U, C
  <2> QED  BY <2>1, <2>2
<1> HIDE DEF C, U
<1>6. IsFiniteSet(C) /\ Cardinality(C) <= Cardinality(Keys) /\ Cardinality(C) \in Nat
  BY <1>2, KeysFinite, FS_Subset, FS_CardinalityType
<1>7. IsFiniteSet(U) /\ Cardinality(U) <= Cardinality(C)
  BY <1>5, <1>6, ImageSize
<1>8. Cardinality(U) \in Nat
  BY <1>7, FS_CardinalityType
<1>9. Cardinality(U) <= Cardinality(Keys)
  BY <1>6, <1>7, <1>8, KeysFinite
<1> QED  BY <1>7, <1>9 DEF U, I

\* The table holds at most one buffer per key and the two streams one more per
\* key each: as many are free as keys have none.
LEMMA EnoughFree ==
  ASSUME BaseInv, NEW G \in SUBSET Keys, \A k \in G : dram[k] = NoBuf
  PROVE  /\ IsFiniteSet(Bufs \ Used) /\ Bufs \ Used \in SUBSET Nat
         /\ Cardinality(G) <= Cardinality(Bufs \ Used)
         /\ IsFiniteSet(G) /\ Cardinality(G) \in Nat /\ Cardinality(Bufs \ Used) \in Nat
<1> DEFINE K == Cardinality(Keys)
           H == Keys \ G
           D == {dram[k] : k \in H}
           S == {saves[i].buf : i \in 1 .. Len(saves)}
           L == {loads[i].buf : i \in 1 .. Len(loads)}
           U == D \cup (S \cup L)
           F == Bufs \ Used
<1>1. IsFiniteSet(G) /\ Cardinality(G) \in Nat /\ Cardinality(G) <= K /\ K \in Nat
  BY KeysFinite, FS_Subset, FS_CardinalityType
<1>2. IsFiniteSet(H) /\ Cardinality(H) = K - Cardinality(G)
  <2>1. Keys \cap G = G
    OBVIOUS
  <2>2. /\ IsFiniteSet(Keys \ G)
        /\ Cardinality(Keys \ G) = Cardinality(Keys) - Cardinality(Keys \cap G)
    BY KeysFinite, FS_Difference
  <2> QED  BY <2>1, <2>2
<1>3. IsFiniteSet(D) /\ Cardinality(D) <= K - Cardinality(G) /\ Cardinality(D) \in Nat
  <2>1. IsFiniteSet(D) /\ Cardinality(D) <= K - Cardinality(G)
    <3> HIDE DEF H, K
    <3> QED  BY <1>2, ImageSize
  <2> HIDE DEF D
  <2> QED  BY <2>1, FS_CardinalityType
<1>4. IsFiniteSet(S) /\ Cardinality(S) <= K
  BY BufsOfStream DEF BaseInv, SavesOK, DeviceTypes
<1>5. IsFiniteSet(L) /\ Cardinality(L) <= K
  <2>1. \A i, j \in 1 .. Len(loads) : loads[i].key = loads[j].key => loads[i].buf = loads[j].buf
    BY DEF BaseInv, LoadsOK
  <2> QED  BY <2>1, BufsOfStream DEF BaseInv, DeviceTypes
<1>6. F \subseteq Bufs /\ Bufs \ U \subseteq F
  <2>1. NoBuf \notin Bufs
    BY ConstantFacts
  <2>2. Used = {dram[k] : k \in Keys} \cup S \cup L
    BY DEF Used
  <2> HIDE DEF S, L
  <2> QED  BY <2>1, <2>2
<1> HIDE DEF F, D, S, L, H
<1>7. /\ IsFiniteSet(S \cup L) /\ Cardinality(S \cup L) <= K + K
      /\ Cardinality(S \cup L) \in Nat
  <2>1. /\ IsFiniteSet(S \cup L) /\ IsFiniteSet(S \cap L)
        /\ Cardinality(S \cup L) = Cardinality(S) + Cardinality(L) - Cardinality(S \cap L)
    <3>1. S \cap L \in SUBSET S
      OBVIOUS
    <3> QED  BY <1>4, <1>5, <3>1, FS_Union, FS_Subset
  <2>2. /\ Cardinality(S \cup L) \in Nat /\ Cardinality(S \cap L) \in Nat
        /\ Cardinality(S) \in Nat /\ Cardinality(L) \in Nat
    BY <1>4, <1>5, <2>1, FS_CardinalityType
  <2> QED  BY <1>1, <1>4, <1>5, <2>1, <2>2
<1>8. /\ IsFiniteSet(U) /\ Cardinality(U) <= 3 * K - Cardinality(G) /\ Cardinality(U) \in Nat
  <2> DEFINE E == S \cup L
  <2>0. IsFiniteSet(E) /\ Cardinality(E) <= K + K /\ Cardinality(E) \in Nat
    BY <1>7
  <2> HIDE DEF E
  <2>1. /\ IsFiniteSet(D \cup E) /\ IsFiniteSet(D \cap E)
        /\ Cardinality(D \cup E) = Cardinality(D) + Cardinality(E) - Cardinality(D \cap E)
    <3>1. D \cap E \in SUBSET D
      OBVIOUS
    <3> QED  BY <1>3, <2>0, <3>1, FS_Union, FS_Subset
  <2>2. Cardinality(D \cup E) \in Nat /\ Cardinality(D \cap E) \in Nat
    BY <2>1, FS_CardinalityType
  <2>3. /\ IsFiniteSet(D \cup E) /\ Cardinality(D \cup E) <= 3 * K - Cardinality(G)
        /\ Cardinality(D \cup E) \in Nat
    BY <1>1, <1>3, <2>0, <2>1, <2>2
  <2> QED  BY <2>3 DEF E
<1> HIDE DEF U
<1>9. /\ IsFiniteSet(Bufs \ U) /\ Cardinality(Bufs \ U) >= Cardinality(G)
      /\ Cardinality(Bufs \ U) \in Nat
  <2>1. /\ IsFiniteSet(Bufs \ U)
        /\ Cardinality(Bufs \ U) = 3 * K - Cardinality(Bufs \cap U)
    BY KeysFinite, FS_Difference
  <2>2. Bufs \cap U \in SUBSET U
    OBVIOUS
  <2>3. IsFiniteSet(Bufs \cap U) /\ Cardinality(Bufs \cap U) <= Cardinality(U)
    BY <1>8, <2>2, FS_Subset
  <2>4. Cardinality(Bufs \cap U) \in Nat /\ Cardinality(Bufs \ U) \in Nat
    BY <2>1, <2>3, FS_CardinalityType
  <2> QED  BY <1>1, <1>8, <2>1, <2>3, <2>4
<1>10. IsFiniteSet(F) /\ Cardinality(Bufs \ U) <= Cardinality(F) /\ Cardinality(F) \in Nat
  <2>1. IsFiniteSet(F)
    BY <1>6, KeysFinite, FS_Subset
  <2> QED  BY <1>6, <2>1, FS_Subset, FS_CardinalityType
<1>11. F \in SUBSET Nat
  BY <1>6, KeysFinite
<1>12. Cardinality(G) <= Cardinality(F)
  BY <1>1, <1>9, <1>10
<1> QED  BY <1>1, <1>10, <1>11, <1>12 DEF F

LEMMA FreeBufIsFree ==
  ASSUME IsFiniteSet(Bufs \ Used), Bufs \ Used \in SUBSET Nat,
         NEW n \in Nat, n < Cardinality(Bufs \ Used)
  PROVE  /\ FreeBuf(n) \in Bufs \ Used
         /\ Cardinality({y \in Bufs \ Used : y < FreeBuf(n)}) = n
<1> DEFINE F == Bufs \ Used
<1>1. \E x \in F : Cardinality({y \in F : y < x}) = n
  <2> HIDE DEF F
  <2>1. IsFiniteSet(F) /\ F \in SUBSET Nat /\ n < Cardinality(F)
    BY DEF F
  <2> QED  BY <2>1, NthExists
<1>2. FreeBuf(n) = CHOOSE x \in F : Cardinality({y \in F : y < x}) = n
  BY DEF FreeBuf
<1> HIDE DEF F
<1>3. FreeBuf(n) \in F /\ Cardinality({y \in F : y < FreeBuf(n)}) = n
  BY <1>1, <1>2, Zenon
<1> QED  BY <1>3 DEF F

-----------------------------------------------------------------------------
(* The table save_kv_layer leaves.                                         *)

SaveKeys(l) == [i \in 1 .. Len(SaveList(l)) |-> <<l, SaveList(l)[i]>>]
Fresh(l)    == SetToSeq({k \in ToSet(SaveKeys(l)) : Held(k) = NoBuf})
TableAt(l)  == [k \in Keys |->
                 IF k \in ToSet(Fresh(l))
                 THEN FreeBuf((CHOOSE i \in 1 .. Len(Fresh(l)) : Fresh(l)[i] = k) - 1)
                 ELSE IF k \in ToSet(SaveKeys(l)) THEN Held(k) ELSE dram[k]]
SaveOps(l)  == [i \in 1 .. Len(SaveKeys(l)) |->
                 [key |-> SaveKeys(l)[i], buf |-> TableAt(l)[SaveKeys(l)[i]]]]

LEMMA KeysSaved ==
  ASSUME BaseInv, NEW l \in Layers
  PROVE  /\ SaveKeys(l) \in Seq(Keys) /\ Len(SaveKeys(l)) \in Nat
         /\ \A k \in ToSet(SaveKeys(l)) : k \in Keys /\ k[1] = l
         /\ \A i \in 1 .. Len(SaveKeys(l)) : SaveKeys(l)[i] \in ToSet(SaveKeys(l))
<1> DEFINE named == SaveList(l)
<1>1. named \in Seq(Blocks) /\ Len(named) \in Nat
  <2>1. meta.save \in Seq(Blocks) /\ << >> \in Seq(Blocks)
    BY DEF BaseInv, SchedTypes
  <2> QED  BY <2>1, LenProperties DEF SaveList
<1> HIDE DEF named
<1>2. \A i \in 1 .. Len(named) : named[i] \in Blocks
  BY <1>1, ElementOfSeq
<1>3. \A i \in 1 .. Len(named) : <<l, named[i]>> \in Keys
  BY <1>2 DEF Keys
<1> DEFINE s == SaveKeys(l)
<1>4. /\ s \in Seq(Keys) /\ Len(s) = Len(named)
      /\ \A i \in 1 .. Len(named) : s[i] = <<l, named[i]>>
  BY <1>1, <1>3 DEF SaveKeys, named
<1> HIDE DEF s
<1>5. ToSet(s) = {s[i] : i \in 1 .. Len(s)}
  BY <1>1, <1>4, LenProperties DEF ToSet
<1>6. \A k \in ToSet(s) : k \in Keys /\ k[1] = l
  BY <1>3, <1>4, <1>5
<1>7. \A i \in 1 .. Len(s) : s[i] \in ToSet(s)
  BY <1>5
<1> QED  BY <1>1, <1>4, <1>6, <1>7 DEF s

LEMMA TableSaved ==
  ASSUME BaseInv, NEW l \in Layers
  PROVE  /\ \A k \in Keys : \/ TableAt(l)[k] = dram[k]
                            \/ /\ TableAt(l)[k] \in Bufs \ Used /\ dram[k] = NoBuf
                               /\ k \in ToSet(SaveKeys(l))
         /\ \A k \in ToSet(SaveKeys(l)) : TableAt(l)[k] \in Bufs
         /\ \A k, m \in Keys : k # m /\ TableAt(l)[k] # NoBuf => TableAt(l)[k] # TableAt(l)[m]
         /\ TableAt(l) \in [Keys -> Bufs \cup {NoBuf}]
<1> DEFINE at == TableAt(l)
           B == ToSet(SaveKeys(l))
           G == {k \in B : Held(k) = NoBuf}
           f == Fresh(l)
           n == Cardinality(G)
           nth(k) == CHOOSE i \in 1 .. n : f[i] = k
           F == Bufs \ Used
<1>1. \A k \in B : k \in Keys
  BY KeysSaved
<1>2. dram \in [Keys -> Bufs \cup {NoBuf}] /\ NoBuf \notin Bufs
  BY ConstantFacts DEF BaseInv, HostTypes
<1>3. /\ IsFiniteSet(F) /\ F \in SUBSET Nat /\ n <= Cardinality(F)
      /\ IsFiniteSet(G) /\ n \in Nat /\ Cardinality(F) \in Nat
  <2>1. G \in SUBSET Keys /\ \A k \in G : dram[k] = NoBuf
    BY <1>1 DEF Held
  <2> HIDE DEF G
  <2> QED  BY <2>1, EnoughFree
<1>4. /\ f \in Seq(G) /\ Len(f) = n
      /\ \A x \in G : \E i \in 1 .. n : f[i] = x
  <2>1. f = SetToSeq(G)
    BY DEF Fresh
  <2> HIDE DEF G, f
  <2> QED  BY <1>3, <2>1, ListOfSet
<1>5. ToSet(f) = G
  <2> HIDE DEF f, G, n
  <2>1. ToSet(f) = {f[i] : i \in 1 .. n}
    BY <1>4, LenProperties DEF ToSet
  <2>2. \A i \in 1 .. n : f[i] \in G
    BY <1>4, ElementOfSeq
  <2> QED  BY <1>4, <2>1, <2>2
<1>6. \A k \in G : nth(k) \in 1 .. n /\ f[nth(k)] = k
  <2> HIDE DEF f, G, n
  <2> QED  BY <1>4
<1>7. \A k \in Keys : at[k] = IF k \in G THEN FreeBuf(nth(k) - 1) ELSE dram[k]
  <2>1. \A k \in Keys : at[k] = IF k \in ToSet(f) THEN FreeBuf(nth(k) - 1)
                                ELSE IF k \in B THEN Held(k) ELSE dram[k]
    BY <1>4 DEF TableAt
  <2> HIDE DEF f, G, n, nth, at
  <2> QED  BY <1>5, <2>1 DEF Held
<1>71. \A k \in G : k \in B /\ dram[k] = NoBuf
  BY DEF Held
<1>72. \A k \in B : k \notin G => dram[k] # NoBuf
  BY DEF Held
<1> HIDE DEF at, f, G, n, B, nth
<1>8. ASSUME NEW k \in G
      PROVE  /\ at[k] \in F /\ Cardinality({y \in F : y < at[k]}) = nth(k) - 1
             /\ nth(k) - 1 \in Nat /\ k \in Keys
  <2>1. nth(k) - 1 \in Nat /\ nth(k) - 1 < Cardinality(F) /\ k \in Keys
    BY <1>1, <1>3, <1>6, <1>71
  <2>2. FreeBuf(nth(k) - 1) \in F
        /\ Cardinality({y \in F : y < FreeBuf(nth(k) - 1)}) = nth(k) - 1
    BY <1>3, <2>1, FreeBufIsFree
  <2>3. at[k] = FreeBuf(nth(k) - 1)
    BY <1>7, <2>1
  <2> QED  BY <2>1, <2>2, <2>3
<1> HIDE DEF F
<1>9. \A k, m \in G : at[k] = at[m] => k = m
  <2> SUFFICES ASSUME NEW k \in G, NEW m \in G, at[k] = at[m] PROVE k = m
    OBVIOUS
  <2>1. nth(k) - 1 = nth(m) - 1
    BY <1>8
  <2>2. nth(k) = nth(m)
    BY <1>6, <2>1, <1>3
  <2> QED  BY <1>6, <2>2
<1>10. \A k \in Keys : k \notin G => at[k] = dram[k]
  BY <1>7
<1>11. \A k \in G : at[k] \in Bufs /\ at[k] \notin Used /\ at[k] # NoBuf
  BY <1>2, <1>8 DEF F
<1>12. \A k \in Keys : dram[k] \in Used
  BY DEF Used
<1>13. ASSUME NEW k \in Keys, NEW m \in Keys, k # m, at[k] # NoBuf
       PROVE  at[k] # at[m]
  <2>1. CASE k \in G /\ m \in G
    BY <1>9, <1>13, <2>1
  <2>2. CASE k \in G /\ m \notin G
    BY <1>10, <1>11, <1>12, <2>2
  <2>3. CASE k \notin G /\ m \in G
    BY <1>10, <1>11, <1>12, <2>3
  <2>4. CASE k \notin G /\ m \notin G
    BY <1>10, <1>13, <2>4 DEF BaseInv, BuffersDiffer
  <2> QED  BY <2>1, <2>2, <2>3, <2>4
<1>14. \A k \in B : at[k] \in Bufs
  BY <1>1, <1>2, <1>10, <1>11, <1>72
<1>15. \A k \in Keys : at[k] \in Bufs \cup {NoBuf}
  BY <1>2, <1>10, <1>11
<1>16. at = [k \in Keys |-> at[k]]
  BY DEF at, TableAt
<1>17. at \in [Keys -> Bufs \cup {NoBuf}]
  BY <1>15, <1>16
<1>18. \A k \in Keys : \/ at[k] = dram[k]
                       \/ at[k] \in Bufs \ Used /\ dram[k] = NoBuf /\ k \in B
  BY <1>10, <1>11, <1>71
<1> QED  BY <1>13, <1>14, <1>17, <1>18 DEF at, B

-----------------------------------------------------------------------------
(* Every step keeps the invariant.                                         *)

LEMMA PhaseCases ==
  ASSUME HostTypes, PhaseOK
  PROVE  /\ phase = <<phase[1], phase[2]>> /\ phase[1] \in PhaseNames
         /\ phase[2] \in 0 .. NLayers
         /\ Saving \subseteq Waited /\ Waited \subseteq Layers
<1>1. phase = <<phase[1], phase[2]>> /\ phase[1] \in PhaseNames /\ phase[2] \in 0 .. NLayers
  BY DEF HostTypes
<1>2. NLayers \in Nat \ {0}
  BY ConstantFacts
<1>3. Saving \subseteq Waited /\ Waited \subseteq Layers
  BY <1>1, <1>2 DEF Saving, Waited, Layers, PhaseOK
<1> QED  BY <1>1, <1>3

LEMMA BaseInit == Init => BaseInv
<1> SUFFICES ASSUME Init PROVE BaseInv
  OBVIOUS
<1>1. /\ NLayers \in Nat \ {0} /\ MaxSteps \in Nat /\ MaxOffload \in Nat /\ NoBuf \notin Bufs
      /\ NoBuf = 0 /\ Layers = 1 .. NLayers
  BY ConstantFacts, ConnectorConstantsOK DEF ConnectorConstantsOK
<1>2. 0 \in Values /\ 0 \in 0 .. NLayers
  BY <1>1 DEF Values
<1>3. << >> \in Seq(Blocks) /\ << >> \in Seq(CopyOps) /\ << >> \in Seq([key : Keys, val : Values])
      /\ Len(<< >>) = 0 /\ (1 .. 0) = {}
  OBVIOUS
<1>4. SchedTypes
  BY <1>1, <1>3 DEF Init, SchedTypes, NoMeta, NotCached, NoSlot
<1>5. HostTypes
  BY <1>1, <1>2 DEF Init, HostTypes, PhaseNames
<1>6. DeviceTypes
  BY <1>2, <1>3 DEF Init, DeviceTypes
<1>7. PhaseOK
  BY DEF Init, PhaseOK
<1>8. BuffersDiffer
  BY DEF Init, BuffersDiffer
<1>9. SavesOK
  BY <1>3 DEF Init, SavesOK
<1>10. LoadsOK
  BY <1>1, <1>3 DEF Init, LoadsOK, EventsOK
<1> QED  BY <1>4, <1>5, <1>6, <1>7, <1>8, <1>9, <1>10 DEF BaseInv

\* The scheduler's steps leave what the worker keeps alone.
LEMMA BaseRequestFinished ==
  ASSUME BaseInv, NEW r \in Reqs, NEW bs \in Finishes, RequestFinished(r, bs)
  PROVE  BaseInv'
<1>1. bs \in SUBSET Blocks
  BY ConnectorConstantsOK DEF ConnectorConstantsOK
<1>2. UNCHANGED <<offload, meta, phase, step, dram, events, loadsIssued, gpu, heap, compute,
                  saves, loads, loadsDone, now, copy>>
  BY DEF RequestFinished, deviceVars
<1>3. SchedTypes'
  BY <1>1, <1>2 DEF BaseInv, SchedTypes, RequestFinished
<1>4. HostTypes' /\ DeviceTypes' /\ PhaseOK' /\ BuffersDiffer'
  BY <1>2 DEF BaseInv, HostTypes, DeviceTypes, PhaseOK, BuffersDiffer
<1>5. SavesOK' /\ LoadsOK'
  BY <1>2 DEF BaseInv, SavesOK, SaveOK, LoadsOK, PendingOK, EventsOK, Saving, Waited
<1> QED  BY <1>3, <1>4, <1>5 DEF BaseInv

LEMMA BaseHandlePreemption ==
  ASSUME BaseInv, NEW r \in Reqs, HandlePreemption(r)
  PROVE  BaseInv'
<1> DEFINE B == cached[r]
           s == SetToSeq(B)
<1>1. B \in SUBSET Blocks /\ IsFiniteSet(B)
  <2>1. B \in SUBSET Blocks
    BY DEF HandlePreemption, BaseInv, SchedTypes
  <2> HIDE DEF B
  <2> QED  BY <2>1, ConstantFacts, FS_Subset
<1>2. UNCHANGED <<cached, meta, phase, step, dram, events, loadsIssued, gpu, heap, compute,
                  saves, loads, loadsDone, now, copy>>
  BY DEF HandlePreemption, deviceVars
<1>3. offload' \in {offload, offload \o s} /\ Len(offload) + Cardinality(B) <= MaxOffload
  BY DEF HandlePreemption
<1>4. s \in Seq(Blocks) /\ Len(s) = Cardinality(B)
  <2> HIDE DEF B
  <2>1. s \in Seq(B) /\ Len(s) = Cardinality(B)
    BY <1>1, ListOfSet
  <2> QED  BY <1>1, <2>1, SeqMonotonic
<1> HIDE DEF s, B
<1>5. offload' \in Seq(Blocks) /\ Len(offload') <= MaxOffload
  <2>1. offload \in Seq(Blocks) /\ Len(offload) <= MaxOffload
    BY DEF BaseInv, SchedTypes
  <2> QED  BY <1>3, <1>4, <2>1, ConcatProperties
<1>6. SchedTypes'
  BY <1>2, <1>5 DEF BaseInv, SchedTypes
<1>7. HostTypes' /\ DeviceTypes' /\ PhaseOK' /\ BuffersDiffer'
  BY <1>2 DEF BaseInv, HostTypes, DeviceTypes, PhaseOK, BuffersDiffer
<1>8. SavesOK' /\ LoadsOK'
  BY <1>2 DEF BaseInv, SavesOK, SaveOK, LoadsOK, PendingOK, EventsOK, Saving, Waited
<1> QED  BY <1>6, <1>7, <1>8 DEF BaseInv

LEMMA BaseBegin ==
  ASSUME BaseInv, Begin
  PROVE  BaseInv'
<1>1. PICK L \in Loads, b \in Blocks : meta' = [save |-> offload, load |-> L, slot |-> b]
  BY DEF Begin, Taken
<1>2. UNCHANGED <<cached, dram, events, loadsIssued, gpu, heap, compute,
                  saves, loads, loadsDone, now, copy>>
  BY DEF Begin, deviceVars
<1>3. /\ phase = <<"idle", 0>> /\ phase' = <<"begun", 0>> /\ step' = step + 1
      /\ step < MaxSteps /\ offload' = << >>
  BY DEF Begin
<1>4. 0 \in 0 .. NLayers /\ MaxSteps \in Nat /\ MaxOffload \in Nat
  BY ConstantFacts, ConnectorConstantsOK DEF ConnectorConstantsOK
<1>5. SchedTypes'
  <2>1. offload' \in Seq(Blocks) /\ Len(offload') = 0
    BY <1>3
  <2> QED  BY <1>1, <1>2, <1>4, <2>1 DEF BaseInv, SchedTypes
<1>6. HostTypes'
  <2>1. step' \in Values
    BY <1>3, <1>4 DEF BaseInv, HostTypes, Values
  <2> QED  BY <1>2, <1>3, <1>4, <2>1 DEF BaseInv, HostTypes, PhaseNames
<1>7. DeviceTypes' /\ BuffersDiffer'
  BY <1>2 DEF BaseInv, DeviceTypes, BuffersDiffer
<1>8. PhaseOK'
  BY <1>1, <1>3 DEF PhaseOK
<1>9. Saving' = Saving /\ Waited' = Waited
  BY <1>3 DEF Saving, Waited
<1>10. SavesOK' /\ LoadsOK'
  BY <1>2, <1>9 DEF BaseInv, SavesOK, SaveOK, LoadsOK, PendingOK, EventsOK
<1> QED  BY <1>5, <1>6, <1>7, <1>8, <1>10 DEF BaseInv

\* Before the loads of a pass are issued the streams of the worker are empty.
LEMMA StreamsEmpty ==
  ASSUME BaseInv, phase = <<"begun", 0>>
  PROVE  /\ Len(saves) = 0 /\ Len(loads) = 0 /\ saves = << >> /\ loads = << >>
         /\ loadsDone = loadsIssued
<1>1. saves \in Seq(CopyOps) /\ loads \in Seq(CopyOps) /\ Len(saves) \in Nat /\ Len(loads) \in Nat
  BY LenProperties DEF BaseInv, DeviceTypes
<1>2. Saving = {} /\ Waited = Layers
  BY DEF Saving, Waited
<1>3. Len(saves) = 0
  <2>1. Len(saves) # 0 => 1 \in 1 .. Len(saves)
    BY <1>1
  <2> QED  BY <1>2, <2>1 DEF BaseInv, SavesOK, SaveOK
<1>4. Len(loads) = 0
  <2>1. Len(loads) # 0 => 1 \in 1 .. Len(loads) /\ loads[1] \in CopyOps
    BY <1>1, ElementOfSeq
  <2>2. Len(loads) # 0 => loads[1].key[1] \in Layers
    BY <2>1 DEF CopyOps, Keys
  <2> QED  BY <1>2, <2>1, <2>2 DEF BaseInv, LoadsOK, PendingOK
<1>5. saves = << >> /\ loads = << >>
  BY <1>1, <1>3, <1>4, EmptySeq
<1>6. loadsDone = loadsIssued
  BY <1>4 DEF BaseInv, LoadsOK, HostTypes
<1> QED  BY <1>3, <1>4, <1>5, <1>6

LEMMA TableIsOK == BaseInv => TableOK
BY ConnectorConstantsOK DEF BaseInv, SchedTypes, HostTypes, TableOK, ConnectorConstantsOK

LEMMA BaseStartLoad ==
  ASSUME BaseInv, StartLoad
  PROVE  BaseInv'
<1> DEFINE a == AllLoads
<1>1. UNCHANGED <<cached, offload, meta, step, dram, loadsDone, compute, saves, gpu, heap, copy>>
  BY DEF StartLoad, schedVars
<1>2. /\ phase = <<"begun", 0>> /\ phase' = <<"done", 0>>
      /\ loads' = loads \o a /\ loadsIssued' = IssuedUpto(NLayers)
      /\ events' = IF meta.load = {} THEN events ELSE [l \in Layers |-> IssuedUpto(l)]
      /\ now' = [k \in Keys |-> IF k[2] \in meta.load /\ dram[k] # NoBuf
                                THEN heap[dram[k]] ELSE now[k]]
  BY DEF StartLoad
<1>3. /\ Len(saves) = 0 /\ Len(loads) = 0 /\ saves = << >> /\ loads = << >>
      /\ loadsDone = loadsIssued /\ loadsIssued \in Nat
  BY <1>2, StreamsEmpty DEF BaseInv, HostTypes
<1>4. /\ a \in Seq(CopyOps) /\ Len(a) \in Nat
      /\ \A i \in 1 .. Len(a) : LoadOK(a[i])
      /\ \A i, j \in 1 .. Len(a) : a[i].key = a[j].key => i = j
      /\ IssuedUpto(NLayers) = loadsIssued + Len(a)
      /\ \A l \in Layers :
           /\ IssuedUpto(l) \in Nat /\ IssuedUpto(l) <= loadsIssued + Len(a)
           /\ \A i \in 1 .. Len(a) : loadsIssued + i > IssuedUpto(l) => a[i].key[1] > l
  BY <1>3, TableIsOK, LoadsOfPass
<1> HIDE DEF a
<1>5. loads' = a
  BY <1>2, <1>3, <1>4, ConcatEmptySeq
<1>6. SchedTypes' /\ BuffersDiffer'
  BY <1>1 DEF BaseInv, SchedTypes, BuffersDiffer
<1>7. HostTypes'
  <2>1. phase' \in PhaseNames \X (0 .. NLayers)
    BY <1>2, ConstantFacts DEF PhaseNames
  <2>2. loadsIssued' \in Nat
    BY <1>2, <1>3, <1>4
  <2>3. events' \in [Layers -> Nat]
    BY <1>2, <1>4 DEF BaseInv, HostTypes
  <2>4. now' \in [Keys -> Values]
    <3>1. \A k \in Keys : dram[k] # NoBuf => heap[dram[k]] \in Values
      BY DEF BaseInv, HostTypes, DeviceTypes
    <3> QED  BY <1>2, <3>1 DEF BaseInv, HostTypes
  <2> QED  BY <1>1, <2>1, <2>2, <2>3, <2>4 DEF BaseInv, HostTypes
<1>8. DeviceTypes'
  BY <1>1, <1>4, <1>5 DEF BaseInv, DeviceTypes
<1>9. PhaseOK'
  BY <1>1, <1>2 DEF BaseInv, PhaseOK
<1>10. SavesOK'
  BY <1>1, <1>3 DEF SavesOK
<1>11. Waited' = {} /\ Saving' = {}
  BY <1>2 DEF Waited, Saving
<1>12. ASSUME NEW i \in 1 .. Len(a), NEW o, o = a[i]
       PROVE  PendingOK(o)'
  <2>1. /\ o.key[1] \notin Waited' /\ o.key \in Keys /\ o.buf = dram[o.key]
        /\ o.buf \in Bufs /\ o.buf # NoBuf
    BY <1>4, <1>11, <1>12, ConstantFacts DEF LoadOK, CopyOps
  <2>2. \A m \in Keys : o.buf = dram[m] => o.key = m
    BY <2>1 DEF BaseInv, BuffersDiffer
  <2>3. \A j \in 1 .. Len(saves') : FALSE
    BY <1>1, <1>3
  <2> QED  BY <1>1, <2>1, <2>2, <2>3 DEF PendingOK
<1>13. ASSUME NEW l \in Layers, NEW i \in 1 .. Len(a), loadsDone + i > events'[l]
       PROVE  a[i].key[1] > l
  <2>1. meta.load # {}
    BY <1>4 DEF LoadOK
  <2>2. events'[l] = IssuedUpto(l)
    BY <1>2, <2>1
  <2> QED  BY <1>3, <1>4, <1>13, <2>2
<1>14. \A l \in Layers : events'[l] <= loadsIssued'
  <2> TAKE l \in Layers
  <2>1. CASE meta.load = {}
    <3>1. events[l] <= loadsIssued /\ events[l] \in Nat
      BY DEF BaseInv, LoadsOK, HostTypes
    <3> QED  BY <1>2, <1>3, <1>4, <2>1, <3>1
  <2>2. CASE meta.load # {}
    BY <1>2, <1>4, <2>2
  <2> QED  BY <2>1, <2>2
<1>15. LoadsOK'
  <2>1. loadsDone' + Len(loads') = loadsIssued'
    BY <1>1, <1>2, <1>3, <1>4, <1>5
  <2>2. EventsOK(loads, loadsDone, events)'
    BY <1>1, <1>5, <1>13 DEF EventsOK
  <2>3. \A i \in 1 .. Len(loads') : PendingOK(loads[i])'
    BY <1>5, <1>12 DEF PendingOK
  <2> QED  BY <1>4, <1>5, <1>14, <2>1, <2>2, <2>3 DEF LoadsOK
<1> QED  BY <1>6, <1>7, <1>8, <1>9, <1>10, <1>15 DEF BaseInv

LEMMA BaseWaitForLayerLoad ==
  ASSUME BaseInv, NEW l \in Layers, WaitForLayerLoad(l)
  PROVE  BaseInv'
<1>1. UNCHANGED <<cached, offload, meta, step, dram, loadsIssued, loadsDone, compute, saves,
                  loads, gpu, heap, now, copy>>
  BY DEF WaitForLayerLoad, schedVars, deviceVars
<1>2. /\ phase = <<"done", l - 1>> /\ phase' = <<"loaded", l>> /\ loadsDone >= events[l]
      /\ events' = [events EXCEPT ![l] = 0]
  BY DEF WaitForLayerLoad, LoadedUpto
<1>3. /\ l \in Nat /\ l >= 1 /\ l <= NLayers /\ NLayers \in Nat /\ Layers = 1 .. NLayers
      /\ events \in [Layers -> Nat] /\ loadsDone \in Nat /\ loadsIssued \in Nat
      /\ loads \in Seq(CopyOps)
  BY ConstantFacts DEF BaseInv, HostTypes, DeviceTypes
<1>4. /\ Waited = 1 .. l - 1 /\ Waited' = 1 .. l /\ Saving' = Saving
      /\ Layers \ Waited' \subseteq Layers \ Waited
  BY <1>2, <1>3 DEF Waited, Saving
<1>5. SchedTypes' /\ DeviceTypes' /\ BuffersDiffer'
  BY <1>1 DEF BaseInv, SchedTypes, DeviceTypes, BuffersDiffer
<1>6. HostTypes'
  BY <1>1, <1>2, <1>3 DEF BaseInv, HostTypes, PhaseNames
<1>7. PhaseOK'
  BY <1>1, <1>2 DEF BaseInv, PhaseOK
<1>8. SavesOK'
  BY <1>1, <1>4 DEF BaseInv, SavesOK, SaveOK
<1>9. ASSUME NEW i \in 1 .. Len(loads)
      PROVE  loads[i].key[1] > l
  <2>1. l \in Layers \ Waited /\ loadsDone + i > events[l]
    BY <1>2, <1>3, <1>4
  <2> QED  BY <2>1 DEF BaseInv, LoadsOK, EventsOK
<1>10. \A i \in 1 .. Len(loads) : PendingOK(loads[i]) /\ PendingOK(loads[i])'
  <2> SUFFICES ASSUME NEW i \in 1 .. Len(loads)
               PROVE  PendingOK(loads[i]) /\ PendingOK(loads[i])'
    OBVIOUS
  <2>1. PendingOK(loads[i])
    BY DEF BaseInv, LoadsOK
  <2>2. loads[i].key[1] \notin 1 .. l
    BY <1>3, <1>9
  <2> QED  BY <1>1, <1>4, <2>1, <2>2 DEF PendingOK
<1>11. EventsOK(loads, loadsDone, events)'
  <2> SUFFICES ASSUME NEW i \in 1 .. Len(loads), NEW m \in Layers \ Waited',
                      loadsDone + i > events'[m]
               PROVE  loads[i].key[1] > m
    BY <1>1 DEF EventsOK
  <2>1. m # l /\ events'[m] = events[m] /\ m \in Layers \ Waited
    BY <1>2, <1>3, <1>4
  <2> QED  BY <2>1 DEF BaseInv, LoadsOK, EventsOK
<1>12. \A m \in Layers : events'[m] <= loadsIssued
  BY <1>2, <1>3 DEF BaseInv, LoadsOK
<1>13. LoadsOK'
  BY <1>1, <1>10, <1>11, <1>12 DEF BaseInv, LoadsOK
<1> QED  BY <1>5, <1>6, <1>7, <1>8, <1>13 DEF BaseInv

LEMMA BaseKernels ==
  ASSUME BaseInv, NEW l \in Layers, Kernels(l)
  PROVE  BaseInv'
<1> DEFINE o == [key |-> <<l, meta.slot>>, val |-> step]
<1>1. UNCHANGED <<cached, offload, meta, step, dram, events, loadsIssued, loadsDone, saves,
                  loads, gpu, heap, copy>>
  BY DEF Kernels, schedVars
<1>2. /\ phase = <<"loaded", l>> /\ phase' = <<"computed", l>>
      /\ compute' = Append(compute, o) /\ now' = [now EXCEPT ![<<l, meta.slot>>] = step]
  BY DEF Kernels
<1>3. l \in 0 .. NLayers /\ meta.slot \in Blocks /\ <<l, meta.slot>> \in Keys /\ step \in Values
  BY <1>2, ConstantFacts DEF BaseInv, PhaseOK, HostTypes
<1>4. Waited' = Waited /\ Saving' = Saving
  BY <1>2 DEF Waited, Saving
<1>5. SchedTypes' /\ BuffersDiffer'
  BY <1>1 DEF BaseInv, SchedTypes, BuffersDiffer
<1>6. HostTypes'
  <2>1. now' \in [Keys -> Values]
    BY <1>2, <1>3 DEF BaseInv, HostTypes
  <2> QED  BY <1>1, <1>2, <1>3, <2>1 DEF BaseInv, HostTypes, PhaseNames
<1>7. DeviceTypes'
  <2>1. o \in [key : Keys, val : Values]
    BY <1>3
  <2> HIDE DEF o
  <2>2. compute' \in Seq([key : Keys, val : Values])
    BY <1>2, <2>1, AppendProperties DEF BaseInv, DeviceTypes
  <2> QED  BY <1>1, <2>2 DEF BaseInv, DeviceTypes
<1>8. PhaseOK'
  BY <1>1, <1>2, <1>3 DEF BaseInv, PhaseOK
<1>9. SavesOK' /\ LoadsOK'
  BY <1>1, <1>4 DEF BaseInv, SavesOK, SaveOK, LoadsOK, PendingOK, EventsOK
<1> QED  BY <1>5, <1>6, <1>7, <1>8, <1>9 DEF BaseInv

\* What save_kv_layer does, in the names used above.
LEMMA SaveStep ==
  ASSUME NEW l \in Layers, Save(l)
  PROVE  /\ phase = <<"computed", l>> /\ phase' = <<"done", l>>
         /\ dram' = TableAt(l) /\ saves' = saves \o SaveOps(l)
         /\ copy' = [k \in Keys |-> IF k \in ToSet(SaveKeys(l)) THEN {gpu[k], now[k]} ELSE copy[k]]
         /\ UNCHANGED <<cached, offload, meta, step, events, loadsIssued, gpu, heap, compute,
                        loads, loadsDone, now>>
<1>1. phase = <<"computed", l>> /\ phase' = <<"done", l>>
  BY DEF Save
<1>2. dram' = TableAt(l)
  BY DEF Save, TableAt, Fresh, SaveKeys
<1>3. saves' = saves \o SaveOps(l)
  BY DEF Save, SaveOps, TableAt, Fresh, SaveKeys
<1>4. copy' = [k \in Keys |-> IF k \in ToSet(SaveKeys(l)) THEN {gpu[k], now[k]} ELSE copy[k]]
  BY DEF Save, SaveKeys
<1>5. UNCHANGED <<cached, offload, meta, step, events, loadsIssued, gpu, heap, compute,
                  loads, loadsDone, now>>
  BY DEF Save, schedVars
<1> QED  BY <1>1, <1>2, <1>3, <1>4, <1>5

LEMMA ConcatOf ==
  ASSUME NEW S, NEW s \in Seq(S), NEW t \in Seq(S), NEW u, u = s \o t
  PROVE  /\ u \in Seq(S) /\ Len(u) = Len(s) + Len(t)
         /\ \A i \in 1 .. Len(u) : u[i] = IF i <= Len(s) THEN s[i] ELSE t[i - Len(s)]
BY ConcatProperties

LEMMA SaveStream ==
  ASSUME BaseInv, NEW l \in Layers, Save(l)
  PROVE  /\ saves' \in Seq(CopyOps)
         /\ \A i \in 1 .. Len(saves') :
              \/ i \in 1 .. Len(saves) /\ saves'[i] = saves[i]
              \/ /\ saves'[i].key \in ToSet(SaveKeys(l)) /\ saves'[i].buf = dram'[saves'[i].key]
                 /\ saves'[i] \in CopyOps
         /\ \A i \in 1 .. Len(saves) : i \in 1 .. Len(saves') /\ saves'[i] = saves[i]
         /\ \A k \in ToSet(SaveKeys(l)) :
              \E i \in 1 .. Len(saves') : saves'[i].key = k /\ saves'[i].buf = dram'[k]
<1> DEFINE b == SaveKeys(l)
           t == SaveOps(l)
           at == TableAt(l)
<1>1. /\ b \in Seq(Keys) /\ Len(b) \in Nat
      /\ \A k \in ToSet(b) : k \in Keys /\ k[1] = l
      /\ \A i \in 1 .. Len(b) : b[i] \in ToSet(b)
  BY KeysSaved
<1>2. \A k \in ToSet(b) : at[k] \in Bufs
  BY TableSaved
<1>3. dram' = at /\ saves' = saves \o t
  BY SaveStep
<1>4. \A k \in ToSet(b) : \E i \in 1 .. Len(b) : b[i] = k
  BY <1>1, LenProperties DEF ToSet
<1>5. t = [i \in 1 .. Len(b) |-> [key |-> b[i], buf |-> at[b[i]]]]
  BY DEF SaveOps
<1> HIDE DEF b, at, t
<1>6. \A i \in 1 .. Len(b) : [key |-> b[i], buf |-> at[b[i]]] \in CopyOps
  BY <1>1, <1>2 DEF CopyOps
<1>7. /\ t \in Seq(CopyOps) /\ Len(t) = Len(b)
      /\ \A i \in 1 .. Len(b) : t[i].key = b[i] /\ t[i].buf = at[b[i]] /\ t[i] \in CopyOps
  BY <1>1, <1>5, <1>6
<1>8. saves \in Seq(CopyOps) /\ Len(saves) \in Nat
  BY LenProperties DEF BaseInv, DeviceTypes
<1>9. /\ saves' \in Seq(CopyOps) /\ Len(saves') = Len(saves) + Len(b)
      /\ \A i \in 1 .. Len(saves') : saves'[i] = IF i <= Len(saves) THEN saves[i]
                                                 ELSE t[i - Len(saves)]
  <2>0. t \in Seq(CopyOps) /\ saves \in Seq(CopyOps) /\ saves' = saves \o t
    BY <1>3, <1>7, <1>8
  <2>1. /\ saves' \in Seq(CopyOps) /\ Len(saves') = Len(saves) + Len(t)
        /\ \A i \in 1 .. Len(saves') : saves'[i] = IF i <= Len(saves) THEN saves[i]
                                                   ELSE t[i - Len(saves)]
    BY <2>0, ConcatOf
  <2> QED  BY <1>7, <2>1
<1>10. ASSUME NEW i \in 1 .. Len(saves')
       PROVE  \/ i \in 1 .. Len(saves) /\ saves'[i] = saves[i]
              \/ i - Len(saves) \in 1 .. Len(b) /\ saves'[i] = t[i - Len(saves)]
  BY <1>1, <1>8, <1>9
<1>11. \A i \in 1 .. Len(saves') :
         \/ i \in 1 .. Len(saves) /\ saves'[i] = saves[i]
         \/ /\ saves'[i].key \in ToSet(b) /\ saves'[i].buf = dram'[saves'[i].key]
            /\ saves'[i] \in CopyOps
  BY <1>1, <1>3, <1>7, <1>10
<1>12. \A i \in 1 .. Len(saves) : i \in 1 .. Len(saves') /\ saves'[i] = saves[i]
  BY <1>1, <1>8, <1>9
<1>13. ASSUME NEW k \in ToSet(b)
       PROVE  \E i \in 1 .. Len(saves') : saves'[i].key = k /\ saves'[i].buf = dram'[k]
  <2>1. PICK j \in 1 .. Len(b) : b[j] = k
    BY <1>4
  <2> DEFINE i == Len(saves) + j
  <2>2. /\ i \in 1 .. Len(saves) + Len(b) /\ ~ (i <= Len(saves)) /\ i - Len(saves) = j
    BY <1>1, <1>8
  <2> HIDE DEF i
  <2>3. i \in 1 .. Len(saves') /\ saves'[i] = t[j]
    BY <1>9, <2>2
  <2> QED  BY <1>3, <1>7, <2>1, <2>3
<1> QED  BY <1>9, <1>11, <1>12, <1>13 DEF b

LEMMA BaseSave ==
  ASSUME BaseInv, NEW l \in Layers, Save(l)
  PROVE  BaseInv'
<1> DEFINE B == ToSet(SaveKeys(l))
<1>1. /\ phase = <<"computed", l>> /\ phase' = <<"done", l>>
      /\ dram' = TableAt(l)
      /\ copy' = [k \in Keys |-> IF k \in B THEN {gpu[k], now[k]} ELSE copy[k]]
  BY SaveStep
<1>2. UNCHANGED <<cached, offload, meta, step, events, loadsIssued, gpu, heap, compute,
                  loads, loadsDone, now>>
  BY SaveStep
<1>3. \A k \in B : k \in Keys /\ k[1] = l
  BY KeysSaved
<1>4. /\ \A k \in Keys : dram'[k] = dram[k] \/ (dram'[k] \in Bufs \ Used /\ k \in B)
      /\ \A k \in B : dram'[k] \in Bufs
      /\ \A k, m \in Keys : k # m /\ dram'[k] # NoBuf => dram'[k] # dram'[m]
      /\ dram' \in [Keys -> Bufs \cup {NoBuf}]
  BY <1>1, TableSaved
<1>5. /\ saves' \in Seq(CopyOps)
      /\ \A i \in 1 .. Len(saves') :
           \/ i \in 1 .. Len(saves) /\ saves'[i] = saves[i]
           \/ /\ saves'[i].key \in B /\ saves'[i].buf = dram'[saves'[i].key]
              /\ saves'[i] \in CopyOps
  BY SaveStream
<1> HIDE DEF B
<1>6. /\ l \in Nat /\ l >= 1 /\ l <= NLayers /\ NLayers \in Nat /\ NoBuf \notin Bufs
  BY ConstantFacts
<1>7. Waited' = Waited /\ Waited = 1 .. l /\ Saving = 1 .. l - 1 /\ Saving' = 1 .. l
  BY <1>1, <1>6 DEF Waited, Saving
<1>8. SchedTypes' /\ BuffersDiffer'
  BY <1>2, <1>4 DEF BaseInv, SchedTypes, BuffersDiffer
<1>9. HostTypes'
  <2>1. copy' \in [Keys -> SUBSET Values]
    BY <1>1 DEF BaseInv, HostTypes, DeviceTypes
  <2>2. phase' \in PhaseNames \X (0 .. NLayers)
    BY <1>1, <1>6 DEF PhaseNames
  <2> QED  BY <1>2, <1>4, <2>1, <2>2 DEF BaseInv, HostTypes
<1>10. DeviceTypes'
  BY <1>2, <1>5 DEF BaseInv, DeviceTypes
<1>11. PhaseOK'
  BY <1>1, <1>2 DEF BaseInv, PhaseOK
<1>12. \A i \in 1 .. Len(saves) : saves[i].buf \in Used /\ SaveOK(saves[i])
  BY DEF Used, BaseInv, SavesOK
<1>13. \A i \in 1 .. Len(loads) : loads[i].buf \in Used /\ PendingOK(loads[i])
  BY DEF Used, BaseInv, LoadsOK
<1>14. SavesOK'
  <2>1. ASSUME NEW i \in 1 .. Len(saves')
        PROVE  SaveOK(saves[i])'
    <3>1. CASE i \in 1 .. Len(saves) /\ saves'[i] = saves[i]
      <4>1. saves'[i].key[1] \in Saving'
        BY <1>6, <1>7, <1>12, <3>1 DEF SaveOK
      <4>2. \A m \in Keys : saves'[i].buf = dram'[m] => saves'[i].key = m
        BY <1>4, <1>12, <3>1 DEF SaveOK
      <4> QED  BY <4>1, <4>2 DEF SaveOK
    <3>2. CASE saves'[i].key \in B /\ saves'[i].buf = dram'[saves'[i].key]
      <4>1. saves'[i].key[1] \in Saving' /\ saves'[i].key \in Keys
        BY <1>3, <1>6, <1>7, <3>2
      <4>2. \A m \in Keys : saves'[i].buf = dram'[m] => saves'[i].key = m
        BY <1>4, <1>6, <3>2, <4>1
      <4> QED  BY <4>1, <4>2 DEF SaveOK
    <3> QED  BY <1>5, <3>1, <3>2
  <2>2. ASSUME NEW i \in 1 .. Len(saves'), NEW j \in 1 .. Len(saves'),
               saves'[i].key = saves'[j].key
        PROVE  saves'[i].buf = saves'[j].buf
    <3>1. \A m \in 1 .. Len(saves) : saves[m].key[1] \in 1 .. l - 1
      BY <1>7, <1>12 DEF SaveOK
    <3>2. l \notin 1 .. l - 1
      BY <1>6
    <3>3. CASE i \in 1 .. Len(saves) /\ saves'[i] = saves[i]
      <4>1. saves'[j].key \notin B
        BY <1>3, <2>2, <3>1, <3>2, <3>3
      <4>2. j \in 1 .. Len(saves) /\ saves'[j] = saves[j]
        BY <1>5, <4>1
      <4> QED  BY <2>2, <3>3, <4>2 DEF BaseInv, SavesOK
    <3>4. CASE saves'[i].key \in B /\ saves'[i].buf = dram'[saves'[i].key]
      <4>1. ~ (j \in 1 .. Len(saves) /\ saves'[j] = saves[j])
        BY <1>3, <2>2, <3>1, <3>2, <3>4
      <4>2. saves'[j].buf = dram'[saves'[j].key]
        BY <1>5, <4>1
      <4> QED  BY <2>2, <3>4, <4>2
    <3> QED  BY <1>5, <3>3, <3>4
  <2> QED  BY <2>1, <2>2 DEF SavesOK
<1>15. ASSUME NEW i \in 1 .. Len(loads)
       PROVE  PendingOK(loads[i])'
  <2>1. loads[i].key[1] \notin Waited'
    BY <1>7, <1>13 DEF PendingOK
  <2>2. \A m \in Keys : loads[i].buf = dram'[m] => loads[i].key = m
    BY <1>4, <1>13 DEF PendingOK
  <2>3. \A j \in 1 .. Len(saves') : loads[i].buf # saves'[j].buf
    <3> TAKE j \in 1 .. Len(saves')
    <3>1. CASE j \in 1 .. Len(saves) /\ saves'[j] = saves[j]
      BY <1>13, <3>1 DEF PendingOK
    <3>2. CASE saves'[j].key \in B /\ saves'[j].buf = dram'[saves'[j].key]
      <4>1. saves'[j].key \in Keys /\ saves'[j].key[1] \in Waited'
        BY <1>3, <1>6, <1>7, <3>2
      <4> QED  BY <2>1, <2>2, <3>2, <4>1
    <3> QED  BY <1>5, <3>1, <3>2
  <2> QED  BY <1>2, <2>1, <2>2, <2>3 DEF PendingOK
<1>16. LoadsOK'
  <2>1. EventsOK(loads, loadsDone, events)'
    BY <1>2, <1>7 DEF BaseInv, LoadsOK, EventsOK
  <2> QED  BY <1>2, <1>15, <2>1 DEF BaseInv, LoadsOK
<1> QED  BY <1>8, <1>9, <1>10, <1>11, <1>14, <1>16 DEF BaseInv

LEMMA BaseWaitForSave ==
  ASSUME BaseInv, WaitForSave
  PROVE  BaseInv'
<1>1. UNCHANGED <<cached, offload, meta, step, dram, events, loadsIssued, loadsDone, compute,
                  saves, loads, gpu, heap, now, copy>>
  BY DEF WaitForSave, schedVars, deviceVars
<1>2. phase = <<"done", NLayers>> /\ phase' = <<"saved", 0>> /\ Len(saves) = 0
  BY DEF WaitForSave, AllSaved
<1>3. Waited' = Waited /\ 0 \in 0 .. NLayers
  BY <1>2, ConstantFacts DEF Waited
<1>4. SchedTypes' /\ DeviceTypes' /\ BuffersDiffer'
  BY <1>1 DEF BaseInv, SchedTypes, DeviceTypes, BuffersDiffer
<1>5. HostTypes'
  BY <1>1, <1>2, <1>3 DEF BaseInv, HostTypes, PhaseNames
<1>6. PhaseOK'
  BY <1>1, <1>2 DEF BaseInv, PhaseOK
<1>7. SavesOK'
  BY <1>1, <1>2 DEF SavesOK
<1>8. LoadsOK'
  BY <1>1, <1>3 DEF BaseInv, LoadsOK, PendingOK, EventsOK
<1> QED  BY <1>4, <1>5, <1>6, <1>7, <1>8 DEF BaseInv

LEMMA BaseEnd ==
  ASSUME BaseInv, End
  PROVE  BaseInv'
<1>1. UNCHANGED <<cached, offload, step, dram, events, loadsIssued, loadsDone, compute,
                  saves, loads, gpu, heap, now, copy>>
  BY DEF End, schedVars, deviceVars
<1>2. phase = <<"saved", 0>> /\ phase' = <<"idle", 0>> /\ meta' = NoMeta
  BY DEF End
<1>3. Waited' = Waited /\ Saving' = Saving /\ 0 \in 0 .. NLayers
  BY <1>2, ConstantFacts DEF Waited, Saving
<1>4. SchedTypes'
  <2>1. << >> \in Seq(Blocks)
    OBVIOUS
  <2> QED  BY <1>1, <1>2, <2>1 DEF BaseInv, SchedTypes, NoMeta
<1>5. DeviceTypes' /\ BuffersDiffer'
  BY <1>1 DEF BaseInv, DeviceTypes, BuffersDiffer
<1>6. HostTypes'
  BY <1>1, <1>2, <1>3 DEF BaseInv, HostTypes, PhaseNames
<1>7. PhaseOK'
  BY <1>2 DEF PhaseOK
<1>8. SavesOK' /\ LoadsOK'
  BY <1>1, <1>3 DEF BaseInv, SavesOK, SaveOK, LoadsOK, PendingOK, EventsOK
<1> QED  BY <1>4, <1>5, <1>6, <1>7, <1>8 DEF BaseInv

\* A table with fewer buffers.
LEMMA FewerBuffers ==
  ASSUME BaseInv, \A k \in Keys : dram'[k] \in {dram[k], NoBuf},
         dram' \in [Keys -> Bufs \cup {NoBuf}], Waited' = Waited, Saving' = Saving,
         UNCHANGED <<loadsDone, loadsIssued, events, saves, loads>>
  PROVE  BuffersDiffer' /\ SavesOK' /\ LoadsOK'
<1>1. NoBuf \notin Bufs /\ saves \in Seq(CopyOps) /\ loads \in Seq(CopyOps)
  BY ConstantFacts DEF BaseInv, DeviceTypes
<1>2. /\ \A i \in 1 .. Len(saves) : saves[i].buf \in Bufs
      /\ \A i \in 1 .. Len(loads) : loads[i].buf \in Bufs
  <2>1. /\ \A i \in 1 .. Len(saves) : saves[i] \in CopyOps
        /\ \A i \in 1 .. Len(loads) : loads[i] \in CopyOps
    BY <1>1, ElementOfSeq
  <2> QED  BY <2>1 DEF CopyOps
<1>3. BuffersDiffer'
  BY DEF BaseInv, BuffersDiffer
<1>5. SavesOK'
  <2>1. \A i \in 1 .. Len(saves) : SaveOK(saves[i])
    BY DEF BaseInv, SavesOK
  <2>2. \A i \in 1 .. Len(saves) : SaveOK(saves[i])'
    <3> TAKE i \in 1 .. Len(saves)
    <3>1. saves[i].key[1] \in Saving /\ \A m \in Keys : saves[i].buf = dram[m] => saves[i].key = m
      BY <2>1 DEF SaveOK
    <3>2. \A m \in Keys : saves[i].buf = dram'[m] => saves[i].key = m
      BY <1>1, <1>2, <3>1
    <3> QED  BY <3>1, <3>2 DEF SaveOK
  <2> QED  BY <2>2 DEF BaseInv, SavesOK
<1>6. LoadsOK'
  <2>1. \A i \in 1 .. Len(loads) : PendingOK(loads[i])
    BY DEF BaseInv, LoadsOK
  <2>2. \A i \in 1 .. Len(loads) : PendingOK(loads[i])'
    <3> TAKE i \in 1 .. Len(loads)
    <3>1. /\ loads[i].key[1] \notin Waited
          /\ \A m \in Keys : loads[i].buf = dram[m] => loads[i].key = m
          /\ \A j \in 1 .. Len(saves) : loads[i].buf # saves[j].buf
      BY <2>1 DEF PendingOK
    <3>2. \A m \in Keys : loads[i].buf = dram'[m] => loads[i].key = m
      BY <1>1, <1>2, <3>1
    <3> QED  BY <3>1, <3>2 DEF PendingOK
  <2>3. EventsOK(loads, loadsDone, events)'
    BY DEF BaseInv, LoadsOK, EventsOK
  <2> QED  BY <2>2, <2>3 DEF BaseInv, LoadsOK
<1> QED  BY <1>3, <1>5, <1>6

LEMMA BaseFreeBlock ==
  ASSUME BaseInv, NEW k \in Keys, FreeBlock(k)
  PROVE  BaseInv'
<1>1. UNCHANGED <<cached, offload, meta, phase, step, events, loadsIssued, loadsDone, compute,
                  saves, loads, gpu, heap, now, copy>>
  BY DEF FreeBlock, schedVars, deviceVars
<1>2. dram' = [dram EXCEPT ![k] = NoBuf] /\ dram \in [Keys -> Bufs \cup {NoBuf}]
  BY DEF FreeBlock, BaseInv, HostTypes
<1>3. Waited' = Waited /\ Saving' = Saving
  BY <1>1 DEF Waited, Saving
<1>4. dram' \in [Keys -> Bufs \cup {NoBuf}] /\ \A m \in Keys : dram'[m] \in {dram[m], NoBuf}
  BY <1>2
<1>5. BuffersDiffer' /\ SavesOK' /\ LoadsOK'
  BY <1>1, <1>3, <1>4, FewerBuffers
<1>6. SchedTypes' /\ HostTypes' /\ DeviceTypes' /\ PhaseOK'
  BY <1>1, <1>4 DEF BaseInv, SchedTypes, HostTypes, DeviceTypes, PhaseOK
<1> QED  BY <1>5, <1>6 DEF BaseInv

LEMMA BaseShutdown ==
  ASSUME BaseInv, Shutdown
  PROVE  BaseInv'
<1>1. UNCHANGED <<cached, offload, meta, step, events, loadsIssued, loadsDone, compute,
                  saves, loads, gpu, heap, now, copy>>
  BY DEF Shutdown, schedVars, deviceVars
<1>2. phase = <<"idle", 0>> /\ phase' = <<"down", 0>> /\ dram' = [k \in Keys |-> NoBuf]
  BY DEF Shutdown
<1>3. Waited' = Waited /\ Saving' = Saving /\ 0 \in 0 .. NLayers
  BY <1>2, ConstantFacts DEF Waited, Saving
<1>4. dram' \in [Keys -> Bufs \cup {NoBuf}] /\ \A m \in Keys : dram'[m] \in {dram[m], NoBuf}
  BY <1>2
<1>5. BuffersDiffer' /\ SavesOK' /\ LoadsOK'
  BY <1>1, <1>3, <1>4, FewerBuffers
<1>6. SchedTypes' /\ DeviceTypes' /\ PhaseOK'
  BY <1>1, <1>2 DEF BaseInv, SchedTypes, DeviceTypes, PhaseOK
<1>7. HostTypes'
  BY <1>1, <1>2, <1>3, <1>4 DEF BaseInv, HostTypes, PhaseNames
<1> QED  BY <1>5, <1>6, <1>7 DEF BaseInv

LEMMA TailOf ==
  ASSUME NEW S, NEW s \in Seq(S), s # << >>, NEW t, t = Tail(s)
  PROVE  /\ Head(s) = s[1] /\ s[1] \in S /\ 1 \in 1 .. Len(s) /\ t \in Seq(S)
         /\ Len(s) \in Nat /\ Len(t) \in Nat /\ Len(t) = Len(s) - 1
         /\ \A i \in 1 .. Len(t) : i + 1 \in 1 .. Len(s) /\ i + 1 # 1 /\ t[i] = s[i + 1]
         /\ \A i \in 1 .. Len(s) : i # 1 => i - 1 \in 1 .. Len(t) /\ t[i - 1] = s[i]
<1>1. Len(s) \in Nat \ {0}
  BY EmptySeq
<1>2. /\ t \in Seq(S) /\ Len(t) = Len(s) - 1 /\ \A i \in 1 .. Len(t) : t[i] = s[i + 1]
  BY HeadTailProperties
<1>3. Head(s) = s[1] /\ s[1] \in S /\ 1 \in 1 .. Len(s)
  BY <1>1, ElementOfSeq
<1>4. \A i \in 1 .. Len(s) : i # 1 => i - 1 \in 1 .. Len(t) /\ t[i - 1] = s[i]
  <2> SUFFICES ASSUME NEW i \in 1 .. Len(s), i # 1
               PROVE  i - 1 \in 1 .. Len(t) /\ t[i - 1] = s[i]
    OBVIOUS
  <2>1. i - 1 \in 1 .. Len(t) /\ (i - 1) + 1 = i
    BY <1>1, <1>2
  <2> QED  BY <1>2, <2>1
<1> QED  BY <1>1, <1>2, <1>3, <1>4

LEMMA BaseDoKernel ==
  ASSUME BaseInv, DoKernel
  PROVE  BaseInv'
<1> DEFINE E == [key : Keys, val : Values]
<1>1. UNCHANGED <<cached, offload, meta, phase, step, dram, events, loadsIssued, loadsDone,
                  saves, loads, heap, now, copy>>
  BY DEF DoKernel, hostVars, schedVars
<1>2. /\ compute # << >> /\ compute' = Tail(compute) /\ compute \in Seq(E)
      /\ gpu' = [gpu EXCEPT ![Head(compute).key] = Head(compute).val]
  BY DEF DoKernel, BaseInv, DeviceTypes
<1> HIDE DEF E
<1>3. Head(compute) \in E /\ compute' \in Seq(E)
  BY <1>2, HeadTailProperties
<1>4. DeviceTypes'
  BY <1>1, <1>2, <1>3 DEF BaseInv, DeviceTypes, E
<1>5. SchedTypes' /\ HostTypes' /\ PhaseOK' /\ BuffersDiffer' /\ SavesOK' /\ LoadsOK'
  BY <1>1 DEF BaseInv, SchedTypes, HostTypes, PhaseOK, BuffersDiffer, SavesOK, SaveOK,
              LoadsOK, PendingOK, EventsOK, Saving, Waited
<1> QED  BY <1>4, <1>5 DEF BaseInv

LEMMA BaseDoSave ==
  ASSUME BaseInv, DoSave
  PROVE  BaseInv'
<1>1. UNCHANGED <<cached, offload, meta, phase, step, dram, events, loadsIssued, loadsDone,
                  compute, loads, gpu, now, copy>>
  BY DEF DoSave, hostVars, schedVars
<1>2. /\ saves # << >> /\ saves' = Tail(saves) /\ saves \in Seq(CopyOps)
      /\ heap' = [heap EXCEPT ![Head(saves).buf] = gpu[Head(saves).key]]
  BY DEF DoSave, BaseInv, DeviceTypes
<1>3. /\ Head(saves) = saves[1] /\ saves[1] \in CopyOps /\ saves' \in Seq(CopyOps)
      /\ \A i \in 1 .. Len(saves') : i + 1 \in 1 .. Len(saves) /\ saves'[i] = saves[i + 1]
  BY <1>2, TailOf
<1>4. DeviceTypes'
  BY <1>1, <1>2, <1>3 DEF BaseInv, DeviceTypes, CopyOps
<1>5. SchedTypes' /\ HostTypes' /\ PhaseOK' /\ BuffersDiffer'
  BY <1>1 DEF BaseInv, SchedTypes, HostTypes, PhaseOK, BuffersDiffer
<1>6. Saving' = Saving /\ Waited' = Waited
  BY <1>1 DEF Saving, Waited
<1>7. SavesOK'
  <2>1. \A i \in 1 .. Len(saves') : SaveOK(saves[i])'
    BY <1>1, <1>3, <1>6 DEF BaseInv, SavesOK, SaveOK
  <2>2. \A i, j \in 1 .. Len(saves') :
          saves'[i].key = saves'[j].key => saves'[i].buf = saves'[j].buf
    BY <1>3 DEF BaseInv, SavesOK
  <2> QED  BY <2>1, <2>2 DEF SavesOK
<1>8. LoadsOK'
  <2>1. \A i \in 1 .. Len(loads) : PendingOK(loads[i])'
    <3> SUFFICES ASSUME NEW i \in 1 .. Len(loads) PROVE PendingOK(loads[i])'
      BY <1>1
    <3>1. PendingOK(loads[i])
      BY DEF BaseInv, LoadsOK
    <3>2. \A j \in 1 .. Len(saves') : loads[i].buf # saves'[j].buf
      BY <1>3, <3>1 DEF PendingOK
    <3> QED  BY <1>1, <1>6, <3>1, <3>2 DEF PendingOK
  <2> QED  BY <1>1, <1>6, <2>1 DEF BaseInv, LoadsOK, EventsOK
<1> QED  BY <1>4, <1>5, <1>7, <1>8 DEF BaseInv

LEMMA BaseDoLoad ==
  ASSUME BaseInv, DoLoad
  PROVE  BaseInv'
<1>1. UNCHANGED <<cached, offload, meta, phase, step, dram, events, loadsIssued, heap,
                  compute, saves, now, copy>>
  BY DEF DoLoad, hostVars, schedVars
<1>2. /\ loads # << >> /\ loads' = Tail(loads) /\ loads \in Seq(CopyOps)
      /\ gpu' = [gpu EXCEPT ![Head(loads).key] = heap[Head(loads).buf]]
      /\ loadsDone' = loadsDone + 1
  BY DEF DoLoad, BaseInv, DeviceTypes
<1>3. /\ Head(loads) = loads[1] /\ loads[1] \in CopyOps /\ loads' \in Seq(CopyOps)
      /\ Len(loads) \in Nat /\ Len(loads') = Len(loads) - 1
      /\ \A i \in 1 .. Len(loads') : i + 1 \in 1 .. Len(loads) /\ loads'[i] = loads[i + 1]
  BY <1>2, TailOf
<1>4. loadsDone \in Nat /\ loadsIssued \in Nat /\ loadsDone + Len(loads) = loadsIssued
  BY DEF BaseInv, HostTypes, LoadsOK
<1>5. DeviceTypes'
  BY <1>1, <1>2, <1>3 DEF BaseInv, DeviceTypes, CopyOps
<1>6. SchedTypes' /\ PhaseOK' /\ BuffersDiffer' /\ HostTypes'
  BY <1>1, <1>2, <1>4 DEF BaseInv, SchedTypes, HostTypes, PhaseOK, BuffersDiffer
<1>7. Saving' = Saving /\ Waited' = Waited
  BY <1>1 DEF Saving, Waited
<1>8. SavesOK'
  BY <1>1, <1>7 DEF BaseInv, SavesOK, SaveOK
<1>9. LoadsOK'
  <2>1. \A i \in 1 .. Len(loads') : PendingOK(loads[i])'
    <3> SUFFICES ASSUME NEW i \in 1 .. Len(loads') PROVE PendingOK(loads[i])'
      OBVIOUS
    <3>1. PendingOK(loads[i + 1]) /\ loads'[i] = loads[i + 1]
      BY <1>3 DEF BaseInv, LoadsOK
    <3> QED  BY <1>1, <1>7, <3>1 DEF PendingOK
  <2>2. \A i, j \in 1 .. Len(loads') : loads'[i].key = loads'[j].key => i = j
    <3> SUFFICES ASSUME NEW i \in 1 .. Len(loads'), NEW j \in 1 .. Len(loads'),
                        loads'[i].key = loads'[j].key
                 PROVE  i = j
      OBVIOUS
    <3>1. i + 1 = j + 1
      BY <1>3 DEF BaseInv, LoadsOK
    <3> QED  BY <3>1
  <2>3. EventsOK(loads, loadsDone, events)'
    <3> SUFFICES ASSUME NEW i \in 1 .. Len(loads'), NEW l \in Layers \ Waited,
                        loadsDone' + i > events[l]
                 PROVE  loads'[i].key[1] > l
      BY <1>1, <1>7 DEF EventsOK
    <3>1. i + 1 \in 1 .. Len(loads) /\ loadsDone + (i + 1) > events[l]
      BY <1>2, <1>3, <1>4
    <3> QED  BY <1>3, <3>1 DEF BaseInv, LoadsOK, EventsOK
  <2>4. loadsDone' + Len(loads') = loadsIssued
    BY <1>2, <1>3, <1>4
  <2> QED  BY <1>1, <2>1, <2>2, <2>3, <2>4 DEF BaseInv, LoadsOK
<1> QED  BY <1>5, <1>6, <1>8, <1>9 DEF BaseInv

LEMMA BaseStep == BaseInv /\ [Next]_vars => BaseInv'
<1> SUFFICES ASSUME BaseInv, [Next]_vars PROVE BaseInv'
  OBVIOUS
<1>1. CASE Scheduler
  BY <1>1, BaseRequestFinished, BaseHandlePreemption DEF Scheduler
<1>2. CASE Begin
  BY <1>2, BaseBegin
<1>3. CASE Worker
  BY <1>3, BaseStartLoad, BaseWaitForSave, BaseEnd, BaseWaitForLayerLoad, BaseKernels, BaseSave
     DEF Worker, Layer
<1>4. CASE Device
  BY <1>4, BaseDoKernel, BaseDoSave, BaseDoLoad DEF Device
<1>5. CASE Shutdown
  BY <1>5, BaseShutdown
<1>6. CASE \E k \in Keys : FreeBlock(k)
  BY <1>6, BaseFreeBlock
<1>7. CASE UNCHANGED vars
  BY <1>7 DEF vars, BaseInv, SchedTypes, HostTypes, DeviceTypes, PhaseOK, BuffersDiffer,
              SavesOK, SaveOK, LoadsOK, PendingOK, EventsOK, Saving, Waited
<1> QED  BY <1>1, <1>2, <1>3, <1>4, <1>5, <1>6, <1>7 DEF Next

LEMMA AlwaysBase == Spec => []BaseInv
BY BaseInit, BaseStep, PTL DEF Spec

LEMMA BaseIsTyped == BaseInv => TypeOK
<1> SUFFICES ASSUME BaseInv PROVE TypeOK
  OBVIOUS
<1>1. \A r \in Reqs : cached[r] \in (SUBSET Blocks) \cup {NotCached}
  BY DEF BaseInv, SchedTypes
<1>2. ASSUME NEW s \in Seq(Blocks)
      PROVE  ToSet(s) \subseteq Blocks
  <2>1. ToSet(s) = {s[i] : i \in 1 .. Len(s)}
    BY LenProperties DEF ToSet
  <2> QED  BY <2>1, ElementOfSeq
<1>3. /\ Len(offload) <= MaxOffload /\ ToSet(offload) \subseteq Blocks
      /\ ToSet(meta.save) \subseteq Blocks /\ meta.load \in Loads \cup {{}}
      /\ meta.slot \in Blocks \cup {NoSlot}
  BY <1>2 DEF BaseInv, SchedTypes
<1>4. /\ phase \in {"idle", "begun", "done", "loaded", "computed", "saved", "down"}
                   \X (0 .. NLayers)
      /\ step \in Values
      /\ \A k \in Keys : dram[k] \in Bufs \cup {NoBuf} /\ gpu[k] \in Values
  BY DEF BaseInv, HostTypes, DeviceTypes, PhaseNames
<1>5. /\ \A i \in 1 .. Len(compute) : compute[i] \in [key : Keys, val : Values]
      /\ \A i \in 1 .. Len(saves) : saves[i] \in CopyOps
      /\ \A i \in 1 .. Len(loads) : loads[i] \in CopyOps
  BY ElementOfSeq DEF BaseInv, DeviceTypes
<1>6. Ops(compute) /\ Ops(saves) /\ Ops(loads)
  BY <1>5 DEF Ops, CopyOps
<1> QED  BY <1>1, <1>3, <1>4, <1>6 DEF TypeOK, BaseInv, BuffersDiffer, LoadsOK

\* What each variable may hold, for any caller: no two keys share a pinned
\* buffer, whatever is freed and allocated again while copies are under way,
\* and the loads never run ahead of their events (connector.py:142-202).
THEOREM TypeCorrect == Spec => []TypeOK
BY AlwaysBase, BaseIsTyped, PTL

-----------------------------------------------------------------------------
(* What the blocks and the buffers hold, whatever order the streams go on   *)
(* in: no save waits for the kernels, and only vLLM's reading of a pass's   *)
(* sampled tokens keeps the kernels of two passes apart.                    *)

\* The layers whose kernels the pass has launched.
Computed == IF phase[1] \in {"done", "computed"} THEN 1 .. phase[2]
            ELSE IF phase[1] = "loaded" THEN 1 .. phase[2] - 1
            ELSE IF phase[1] = "saved" THEN Layers ELSE {}

\* A kernel under way is the only one of its block, of this pass, and writes
\* what the block is to hold.
KernelsOK ==
  /\ \A i \in 1 .. Len(compute) :
       compute[i].key[1] \in Computed /\ compute[i].val = now[compute[i].key]
  /\ \A i, j \in 1 .. Len(compute) : compute[i].key = compute[j].key => i = j

\* A save under way may store what its block holds and what it is to hold.
SavesCurrent ==
  \A i \in 1 .. Len(saves) : {gpu[saves[i].key], now[saves[i].key]} \subseteq copy[saves[i].key]

\* A buffer in the table holds a last save of its block, or that save is under way.
StoredOK ==
  \A k \in Keys : dram[k] # NoBuf =>
    heap[dram[k]] \in copy[k] \/ \E i \in 1 .. Len(saves) : saves[i].buf = dram[k]

\* A load under way will bring what its block is to hold.
LoadsCurrent == \A i \in 1 .. Len(loads) : heap[loads[i].buf] = now[loads[i].key]

\* A block holds what it is to hold, or a kernel or a load of it is under way.
ValuesOK ==
  \A k \in Keys : gpu[k] = now[k] \/ Occurs(compute, k) \/ Occurs(loads, k)

DataInv == KernelsOK /\ SavesCurrent /\ StoredOK /\ LoadsCurrent /\ ValuesOK

LEMMA DataInit == Init => DataInv
<1> SUFFICES ASSUME Init PROVE DataInv
  OBVIOUS
<1>1. NoBuf \notin Bufs /\ Len(<< >>) = 0 /\ (1 .. 0) = {}
  BY ConstantFacts
<1> QED  BY <1>1 DEF Init, DataInv, KernelsOK, SavesCurrent, StoredOK, LoadsCurrent, ValuesOK

\* A step that leaves the device and what the host recorded alone keeps it all,
\* if the pass has still launched the kernels under way.
LEMMA DataUnchanged ==
  ASSUME DataInv,
         UNCHANGED <<compute, saves, loads, gpu, heap, now, copy, dram>>,
         Computed \subseteq Computed' \/ compute = << >>
  PROVE  DataInv'
<1>1. compute = << >> => Len(compute) = 0
  OBVIOUS
<1>2. KernelsOK'
  BY <1>1 DEF DataInv, KernelsOK
<1>3. SavesCurrent' /\ StoredOK' /\ LoadsCurrent' /\ ValuesOK'
  BY DEF DataInv, SavesCurrent, StoredOK, LoadsCurrent, ValuesOK, Occurs
<1> QED  BY <1>2, <1>3 DEF DataInv

\* Between the passes no kernel is under way.
LEMMA NoKernel ==
  ASSUME BaseInv, DataInv, Computed = {}
  PROVE  compute = << >> /\ Len(compute) = 0
<1>1. compute \in Seq([key : Keys, val : Values]) /\ Len(compute) \in Nat
  BY LenProperties DEF BaseInv, DeviceTypes
<1>2. Len(compute) # 0 => 1 \in 1 .. Len(compute)
  BY <1>1
<1>3. Len(compute) = 0
  BY <1>2 DEF DataInv, KernelsOK
<1> QED  BY <1>1, <1>3, EmptySeq

\* The keys of the operations under way, as the phase bounds them.
LEMMA StreamKeys ==
  ASSUME BaseInv
  PROVE  /\ \A i \in 1 .. Len(saves) : saves[i] \in CopyOps /\ saves[i].key[1] \in Saving
         /\ \A i \in 1 .. Len(loads) : loads[i] \in CopyOps /\ loads[i].key[1] \notin Waited
         /\ \A i \in 1 .. Len(loads) : \A j \in 1 .. Len(saves) :
              loads[i].buf # saves[j].buf /\ loads[i].key # saves[j].key
         /\ Saving \subseteq Waited
         /\ phase[1] # "idle" => Computed \subseteq Waited
<1>1. Saving \subseteq Waited /\ (phase[1] # "idle" => Computed \subseteq Waited)
  <2>1. phase[2] \in Nat /\ Saving \subseteq Waited
    BY PhaseCases, ConstantFacts DEF BaseInv
  <2> QED  BY <2>1 DEF Computed, Waited
<1>2. /\ \A i \in 1 .. Len(saves) : saves[i] \in CopyOps
      /\ \A i \in 1 .. Len(loads) : loads[i] \in CopyOps
  BY ElementOfSeq DEF BaseInv, DeviceTypes
<1>3. /\ \A i \in 1 .. Len(saves) : saves[i].key[1] \in Saving
      /\ \A i \in 1 .. Len(loads) : loads[i].key[1] \notin Waited
      /\ \A i \in 1 .. Len(loads) : \A j \in 1 .. Len(saves) : loads[i].buf # saves[j].buf
  BY DEF BaseInv, SavesOK, SaveOK, LoadsOK, PendingOK
<1>4. \A i \in 1 .. Len(loads) : \A j \in 1 .. Len(saves) : loads[i].key # saves[j].key
  BY <1>1, <1>3
<1> QED  BY <1>1, <1>2, <1>3, <1>4

LEMMA DataQuiet ==
  ASSUME BaseInv, DataInv,
         \/ Scheduler \/ Begin \/ WaitForSave \/ End \/ \E l \in Layers : WaitForLayerLoad(l)
  PROVE  DataInv'
<1>1. CASE Scheduler
  <2>1. UNCHANGED <<compute, saves, loads, gpu, heap, now, copy, dram, phase>>
    BY <1>1 DEF Scheduler, HandlePreemption, RequestFinished, deviceVars
  <2> QED  BY <2>1, DataUnchanged DEF Computed
<1>2. CASE Begin
  <2>1. UNCHANGED <<compute, saves, loads, gpu, heap, now, copy, dram>> /\ phase = <<"idle", 0>>
    BY <1>2 DEF Begin, deviceVars
  <2>2. Computed = {}
    BY <2>1 DEF Computed
  <2> QED  BY <2>1, <2>2, DataUnchanged
<1>3. CASE WaitForSave
  <2>1. /\ UNCHANGED <<compute, saves, loads, gpu, heap, now, copy, dram>>
        /\ phase = <<"done", NLayers>> /\ phase' = <<"saved", 0>>
    BY <1>3 DEF WaitForSave, deviceVars
  <2>2. Computed = Layers /\ Computed' = Layers
    BY <2>1 DEF Computed, Layers
  <2> QED  BY <2>1, <2>2, DataUnchanged
<1>4. CASE End
  <2>1. UNCHANGED <<compute, saves, loads, gpu, heap, now, copy, dram>> /\ compute = << >>
    BY <1>4 DEF End, deviceVars
  <2> QED  BY <2>1, DataUnchanged
<1>5. ASSUME NEW l \in Layers, WaitForLayerLoad(l)
      PROVE  DataInv'
  <2>1. /\ UNCHANGED <<compute, saves, loads, gpu, heap, now, copy, dram>>
        /\ phase = <<"done", l - 1>> /\ phase' = <<"loaded", l>>
    BY <1>5 DEF WaitForLayerLoad, deviceVars
  <2>2. Computed = 1 .. l - 1 /\ Computed' = 1 .. l - 1
    BY <2>1 DEF Computed
  <2> QED  BY <2>1, <2>2, DataUnchanged
<1> QED  BY <1>1, <1>2, <1>3, <1>4, <1>5

LEMMA DataStartLoad ==
  ASSUME BaseInv, DataInv, StartLoad
  PROVE  DataInv'
<1> DEFINE a == AllLoads
<1>1. UNCHANGED <<dram, compute, saves, gpu, heap, copy>>
  BY DEF StartLoad
<1>2. /\ phase = <<"begun", 0>> /\ phase' = <<"done", 0>> /\ loads' = loads \o a
      /\ now' = [k \in Keys |-> IF k[2] \in meta.load /\ dram[k] # NoBuf
                                THEN heap[dram[k]] ELSE now[k]]
  BY DEF StartLoad
<1>3. Len(saves) = 0 /\ Len(loads) = 0 /\ loads = << >> /\ loadsIssued \in Nat
  BY <1>2, StreamsEmpty DEF BaseInv, HostTypes
<1>4. /\ a \in Seq(CopyOps)
      /\ \A i \in 1 .. Len(a) : LoadOK(a[i])
      /\ \A k \in Keys : HasCopy(k) => Occurs(a, k)
  BY <1>3, TableIsOK, LoadsOfPass
<1> HIDE DEF a
<1>5. loads' = a
  BY <1>2, <1>3, <1>4, ConcatEmptySeq
<1>6. compute = << >> /\ Len(compute) = 0
  <2>1. Computed = {}
    BY <1>2 DEF Computed
  <2> QED  BY <2>1, NoKernel
<1>7. KernelsOK'
  BY <1>1, <1>6 DEF KernelsOK
<1>8. SavesCurrent'
  BY <1>1, <1>3 DEF SavesCurrent
<1>9. StoredOK'
  BY <1>1 DEF DataInv, StoredOK
<1>10. LoadsCurrent'
  <2> SUFFICES ASSUME NEW i \in 1 .. Len(a)
               PROVE  heap[a[i].buf] = now'[a[i].key]
    BY <1>1, <1>5 DEF LoadsCurrent
  <2>1. /\ a[i].key \in Keys /\ a[i].key[2] \in meta.load /\ a[i].buf = dram[a[i].key]
        /\ a[i].buf # NoBuf
    BY <1>4, ConstantFacts DEF LoadOK, CopyOps
  <2> QED  BY <1>2, <2>1
<1>11. ValuesOK'
  <2> SUFFICES ASSUME NEW k \in Keys
               PROVE  gpu[k] = now'[k] \/ Occurs(a, k)
    BY <1>1, <1>5 DEF ValuesOK, Occurs
  <2>1. CASE HasCopy(k)
    BY <1>4, <2>1
  <2>2. CASE ~ HasCopy(k)
    <3>1. now'[k] = now[k]
      BY <1>2, <2>2 DEF HasCopy
    <3> QED  BY <1>3, <1>6, <3>1 DEF DataInv, ValuesOK, Occurs
  <2> QED  BY <2>1, <2>2
<1> QED  BY <1>7, <1>8, <1>9, <1>10, <1>11 DEF DataInv

LEMMA DataKernels ==
  ASSUME BaseInv, DataInv, NEW l \in Layers, Kernels(l)
  PROVE  DataInv'
<1> DEFINE k == <<l, meta.slot>>
           o == [key |-> k, val |-> step]
           n == Len(compute)
<1>1. UNCHANGED <<meta, step, dram, saves, loads, gpu, heap, copy>>
  BY DEF Kernels
<1>2. /\ phase = <<"loaded", l>> /\ phase' = <<"computed", l>>
      /\ compute' = Append(compute, o) /\ now' = [now EXCEPT ![k] = step]
  BY DEF Kernels
<1>3. k \in Keys /\ k[1] = l /\ l \in Nat /\ l >= 1 /\ now \in [Keys -> Values] /\ step \in Values
  BY <1>2, ConstantFacts DEF BaseInv, PhaseOK, HostTypes
<1>4. o.key = k /\ o.val = step /\ o \in KernelOps
  BY <1>3 DEF KernelOps
<1> HIDE DEF o
<1>5. /\ n \in Nat /\ Len(compute') = n + 1 /\ compute'[n + 1] = o
      /\ \A i \in 1 .. n : compute'[i] = compute[i] /\ compute[i].key \in Keys
  <2>1. compute \in Seq(KernelOps)
    BY DEF BaseInv, DeviceTypes, KernelOps
  <2>2. n \in Nat /\ \A i \in 1 .. n : compute[i] \in KernelOps
    BY <2>1, ElementOfSeq, LenProperties
  <2>3. \A i \in 1 .. n : compute[i].key \in Keys
    BY <2>2 DEF KernelOps
  <2>4. /\ Len(compute') = n + 1 /\ compute'[n + 1] = o
        /\ \A i \in 1 .. n : compute'[i] = compute[i]
    BY <1>2, <1>4, <2>1, AppendProperties
  <2> QED  BY <2>2, <2>3, <2>4
<1> HIDE DEF k, n
<1>6. now'[k] = step /\ \A m \in Keys : m # k => now'[m] = now[m]
  BY <1>2, <1>3
<1>7. Computed = 1 .. l - 1 /\ Computed' = 1 .. l /\ Waited = 1 .. l /\ Saving = 1 .. l - 1
  BY <1>2, <1>3 DEF Computed, Waited, Saving
<1>8. \A i \in 1 .. n : /\ compute[i].key \in Keys /\ compute[i].key # k
                        /\ compute[i].key[1] \in 1 .. l - 1 /\ compute[i].val = now[compute[i].key]
  <2>1. \A i \in 1 .. n : /\ compute[i].key[1] \in 1 .. l - 1
                          /\ compute[i].val = now[compute[i].key]
    BY <1>7 DEF DataInv, KernelsOK, n
  <2>2. l \notin 1 .. l - 1
    BY <1>3
  <2> QED  BY <1>3, <1>5, <2>1, <2>2
<1>9. KernelsOK'
  <2>1. ASSUME NEW i \in 1 .. n + 1
        PROVE  compute'[i].key[1] \in 1 .. l /\ compute'[i].val = now'[compute'[i].key]
    <3>1. CASE i \in 1 .. n
      BY <1>3, <1>5, <1>6, <1>8, <3>1
    <3>2. CASE i = n + 1
      BY <1>3, <1>4, <1>5, <1>6, <3>2
    <3> QED  BY <1>5, <3>1, <3>2
  <2>2. ASSUME NEW i \in 1 .. n + 1, NEW j \in 1 .. n + 1, compute'[i].key = compute'[j].key
        PROVE  i = j
    <3>1. \A m \in 1 .. n + 1 : m \in 1 .. n \/ m = n + 1
      BY <1>5
    <3>2. CASE i \in 1 .. n /\ j \in 1 .. n
      BY <1>5, <2>2, <3>2 DEF DataInv, KernelsOK, n
    <3>3. CASE ~ (i \in 1 .. n /\ j \in 1 .. n)
      BY <1>4, <1>5, <1>8, <2>2, <3>1, <3>3
    <3> QED  BY <3>2, <3>3
  <2> QED  BY <1>5, <1>7, <2>1, <2>2 DEF KernelsOK
<1>10. LoadsCurrent'
  <2> SUFFICES ASSUME NEW i \in 1 .. Len(loads)
               PROVE  heap[loads[i].buf] = now'[loads[i].key]
    BY <1>1 DEF LoadsCurrent
  <2>1. l \in Waited
    BY <1>3, <1>7
  <2>2. loads[i].key # k /\ loads[i].key \in Keys
    BY <1>3, <2>1, StreamKeys DEF CopyOps
  <2> QED  BY <1>6, <2>2 DEF DataInv, LoadsCurrent
<1>11. SavesCurrent'
  <2> SUFFICES ASSUME NEW i \in 1 .. Len(saves)
               PROVE  {gpu[saves[i].key], now'[saves[i].key]} \subseteq copy[saves[i].key]
    BY <1>1 DEF SavesCurrent
  <2>1. l \notin Saving
    BY <1>3, <1>7
  <2>2. saves[i].key # k /\ saves[i].key \in Keys
    BY <1>3, <2>1, StreamKeys DEF CopyOps
  <2> QED  BY <1>6, <2>2 DEF DataInv, SavesCurrent
<1>12. StoredOK'
  BY <1>1 DEF DataInv, StoredOK
<1>13. ValuesOK'
  <2> SUFFICES ASSUME NEW m \in Keys
               PROVE  gpu[m] = now'[m] \/ Occurs(compute', m) \/ Occurs(loads, m)
    BY <1>1 DEF ValuesOK, Occurs
  <2>1. CASE m = k
    <3>1. n + 1 \in 1 .. Len(compute') /\ compute'[n + 1].key = k
      BY <1>4, <1>5
    <3> QED  BY <2>1, <3>1 DEF Occurs
  <2>2. CASE m # k
    <3>1. Occurs(compute, m) => Occurs(compute', m)
      <4>1. ASSUME NEW i \in 1 .. n, compute[i].key = m
            PROVE  i \in 1 .. Len(compute') /\ compute'[i].key = m
        BY <1>5, <4>1
      <4> QED  BY <4>1 DEF Occurs, n
    <3> QED  BY <1>6, <2>2, <3>1 DEF DataInv, ValuesOK
  <2> QED  BY <2>1, <2>2
<1> QED  BY <1>9, <1>10, <1>11, <1>12, <1>13 DEF DataInv

LEMMA DataSave ==
  ASSUME BaseInv, DataInv, NEW l \in Layers, Save(l)
  PROVE  DataInv'
<1> DEFINE B == ToSet(SaveKeys(l))
<1>1. /\ phase = <<"computed", l>> /\ phase' = <<"done", l>> /\ dram' = TableAt(l)
      /\ copy' = [k \in Keys |-> IF k \in B THEN {gpu[k], now[k]} ELSE copy[k]]
      /\ UNCHANGED <<gpu, heap, compute, loads, now>>
  BY SaveStep
<1>2. \A k \in B : k \in Keys /\ k[1] = l
  BY KeysSaved
<1>3. \A k \in Keys : k \notin B => dram'[k] = dram[k]
  BY <1>1, TableSaved
<1>4. /\ \A i \in 1 .. Len(saves') :
           \/ i \in 1 .. Len(saves) /\ saves'[i] = saves[i]
           \/ saves'[i].key \in B
      /\ \A i \in 1 .. Len(saves) : i \in 1 .. Len(saves') /\ saves'[i] = saves[i]
      /\ \A k \in B : \E i \in 1 .. Len(saves') : saves'[i].key = k /\ saves'[i].buf = dram'[k]
  BY SaveStream
<1> HIDE DEF B
<1>5. Computed = 1 .. l /\ Computed' = 1 .. l
  BY <1>1 DEF Computed
<1>6. KernelsOK'
  BY <1>1, <1>5 DEF DataInv, KernelsOK
<1>7. SavesCurrent'
  <2> SUFFICES ASSUME NEW i \in 1 .. Len(saves')
               PROVE  {gpu[saves'[i].key], now[saves'[i].key]} \subseteq copy'[saves'[i].key]
    BY <1>1 DEF SavesCurrent
  <2>1. CASE saves'[i].key \in B
    BY <1>1, <1>2, <2>1
  <2>2. CASE saves'[i].key \notin B
    <3>1. i \in 1 .. Len(saves) /\ saves'[i] = saves[i] /\ saves[i].key \in Keys
      BY <1>4, <2>2, StreamKeys DEF CopyOps
    <3> QED  BY <1>1, <2>2, <3>1 DEF DataInv, SavesCurrent
  <2> QED  BY <2>1, <2>2
<1>8. StoredOK'
  <2> SUFFICES ASSUME NEW k \in Keys, dram'[k] # NoBuf
               PROVE  \/ heap[dram'[k]] \in copy'[k]
                      \/ \E i \in 1 .. Len(saves') : saves'[i].buf = dram'[k]
    BY <1>1 DEF StoredOK
  <2>1. CASE k \in B
    BY <1>4, <2>1
  <2>2. CASE k \notin B
    <3>1. dram'[k] = dram[k] /\ copy'[k] = copy[k]
      BY <1>1, <1>3, <2>2
    <3>2. \/ heap[dram[k]] \in copy[k]
          \/ \E i \in 1 .. Len(saves) : saves[i].buf = dram[k]
      BY <3>1 DEF DataInv, StoredOK
    <3> QED  BY <1>4, <3>1, <3>2
  <2> QED  BY <2>1, <2>2
<1>9. LoadsCurrent' /\ ValuesOK'
  BY <1>1 DEF DataInv, LoadsCurrent, ValuesOK, Occurs
<1> QED  BY <1>6, <1>7, <1>8, <1>9 DEF DataInv

LEMMA DataDropBuffers ==
  ASSUME BaseInv, DataInv, Shutdown \/ \E k \in Keys : FreeBlock(k)
  PROVE  DataInv'
<1>1. /\ UNCHANGED <<compute, saves, loads, gpu, heap, now, copy>>
      /\ \A m \in Keys : dram'[m] \in {dram[m], NoBuf}
      /\ phase' = phase \/ phase = <<"idle", 0>>
  <2>1. CASE Shutdown
    BY <2>1 DEF Shutdown, deviceVars
  <2>2. ASSUME NEW k \in Keys, FreeBlock(k)
        PROVE  /\ UNCHANGED <<phase, compute, saves, loads, gpu, heap, now, copy>>
               /\ \A m \in Keys : dram'[m] \in {dram[m], NoBuf}
    BY <2>2 DEF FreeBlock, deviceVars, BaseInv, HostTypes
  <2> QED  BY <2>1, <2>2
<1>2. Computed' = Computed \/ Computed = {}
  BY <1>1 DEF Computed
<1>3. KernelsOK'
  BY <1>1, <1>2 DEF DataInv, KernelsOK
<1>4. StoredOK'
  BY <1>1 DEF DataInv, StoredOK
<1>5. SavesCurrent' /\ LoadsCurrent' /\ ValuesOK'
  BY <1>1 DEF DataInv, SavesCurrent, LoadsCurrent, ValuesOK, Occurs
<1> QED  BY <1>3, <1>4, <1>5 DEF DataInv

LEMMA DataDoKernel ==
  ASSUME BaseInv, DataInv, DoKernel
  PROVE  DataInv'
<1> DEFINE k == compute[1].key
<1>1. UNCHANGED <<phase, dram, saves, loads, heap, now, copy>>
  BY DEF DoKernel, hostVars
<1>2. /\ compute # << >> /\ compute' = Tail(compute)
      /\ compute \in Seq(KernelOps)
  BY DEF DoKernel, BaseInv, DeviceTypes, KernelOps
<1>3. /\ Head(compute) = compute[1] /\ compute[1] \in KernelOps
      /\ 1 \in 1 .. Len(compute)
      /\ \A i \in 1 .. Len(compute') : i + 1 \in 1 .. Len(compute) /\ compute'[i] = compute[i + 1]
      /\ \A i \in 1 .. Len(compute) :
           i # 1 => i - 1 \in 1 .. Len(compute') /\ compute'[i - 1] = compute[i]
  BY <1>2, TailOf
<1>4. /\ gpu' = [gpu EXCEPT ![k] = now[k]] /\ k \in Keys /\ gpu \in [Keys -> Values]
  BY <1>3 DEF DoKernel, BaseInv, DeviceTypes, KernelOps, DataInv, KernelsOK
<1>5. \A i \in 1 .. Len(compute) : compute[i].key # k => i # 1
  OBVIOUS
<1> HIDE DEF k
<1>6. \A m \in Keys : gpu'[m] = IF m = k THEN now[m] ELSE gpu[m]
  BY <1>4
<1>7. KernelsOK'
  <2>1. Computed' = Computed
    BY <1>1 DEF Computed
  <2>2. \A i, j \in 1 .. Len(compute') : compute'[i].key = compute'[j].key => i = j
    <3> SUFFICES ASSUME NEW i \in 1 .. Len(compute'), NEW j \in 1 .. Len(compute'),
                        compute'[i].key = compute'[j].key
                 PROVE  i = j
      OBVIOUS
    <3>1. i + 1 = j + 1
      BY <1>3 DEF DataInv, KernelsOK
    <3> QED  BY <3>1
  <2>3. \A i \in 1 .. Len(compute') :
          compute'[i].key[1] \in Computed /\ compute'[i].val = now[compute'[i].key]
    <3> TAKE i \in 1 .. Len(compute')
    <3>1. i + 1 \in 1 .. Len(compute) /\ compute'[i] = compute[i + 1]
      BY <1>3
    <3> QED  BY <3>1 DEF DataInv, KernelsOK
  <2> QED  BY <1>1, <2>1, <2>2, <2>3 DEF KernelsOK
<1>8. SavesCurrent'
  <2> SUFFICES ASSUME NEW i \in 1 .. Len(saves)
               PROVE  {gpu'[saves[i].key], now[saves[i].key]} \subseteq copy[saves[i].key]
    BY <1>1 DEF SavesCurrent
  <2>1. saves[i].key \in Keys
    BY StreamKeys DEF CopyOps
  <2> QED  BY <1>6, <2>1 DEF DataInv, SavesCurrent
<1>9. StoredOK' /\ LoadsCurrent'
  BY <1>1 DEF DataInv, StoredOK, LoadsCurrent
<1>10. ValuesOK'
  <2> SUFFICES ASSUME NEW m \in Keys
               PROVE  gpu'[m] = now[m] \/ Occurs(compute', m) \/ Occurs(loads, m)
    BY <1>1 DEF ValuesOK, Occurs
  <2>1. CASE m = k
    BY <1>6, <2>1
  <2>2. CASE m # k
    <3>1. Occurs(compute, m) => Occurs(compute', m)
      BY <1>3, <1>5, <2>2 DEF Occurs
    <3> QED  BY <1>6, <2>2, <3>1 DEF DataInv, ValuesOK
  <2> QED  BY <2>1, <2>2
<1> QED  BY <1>7, <1>8, <1>9, <1>10 DEF DataInv

LEMMA DataDoSave ==
  ASSUME BaseInv, DataInv, DoSave
  PROVE  DataInv'
<1> DEFINE k == saves[1].key
           x == saves[1].buf
<1>1. UNCHANGED <<phase, dram, compute, loads, gpu, now, copy>>
  BY DEF DoSave, hostVars
<1>2. saves # << >> /\ saves' = Tail(saves) /\ saves \in Seq(CopyOps)
  BY DEF DoSave, BaseInv, DeviceTypes
<1>3. /\ Head(saves) = saves[1] /\ saves[1] \in CopyOps /\ 1 \in 1 .. Len(saves)
      /\ \A i \in 1 .. Len(saves') : i + 1 \in 1 .. Len(saves) /\ saves'[i] = saves[i + 1]
      /\ \A i \in 1 .. Len(saves) :
           i # 1 => i - 1 \in 1 .. Len(saves') /\ saves'[i - 1] = saves[i]
  BY <1>2, TailOf
<1>4. heap' = [heap EXCEPT ![x] = gpu[k]] /\ k \in Keys /\ x \in Bufs /\ heap \in [Bufs -> Values]
  BY <1>3 DEF DoSave, CopyOps, BaseInv, DeviceTypes
<1>5. gpu[k] \in copy[k] /\ \A m \in Keys : x = dram[m] => k = m
  BY <1>3 DEF DataInv, SavesCurrent, BaseInv, SavesOK, SaveOK
<1>6. \A i \in 1 .. Len(loads) : loads[i].buf # x /\ loads[i].buf \in Bufs
  BY <1>3, StreamKeys DEF CopyOps
<1>61. \A i \in 1 .. Len(saves) : saves[i].buf # x => i # 1
  OBVIOUS
<1> HIDE DEF k, x
<1>7. SavesCurrent'
  BY <1>1, <1>3 DEF DataInv, SavesCurrent
<1>8. LoadsCurrent'
  <2> SUFFICES ASSUME NEW i \in 1 .. Len(loads)
               PROVE  heap'[loads[i].buf] = now[loads[i].key]
    BY <1>1 DEF LoadsCurrent
  <2>1. heap'[loads[i].buf] = heap[loads[i].buf]
    BY <1>4, <1>6
  <2> QED  BY <2>1 DEF DataInv, LoadsCurrent
<1>9. StoredOK'
  <2> SUFFICES ASSUME NEW m \in Keys, dram[m] # NoBuf
               PROVE  \/ heap'[dram[m]] \in copy[m]
                      \/ \E i \in 1 .. Len(saves') : saves'[i].buf = dram[m]
    BY <1>1 DEF StoredOK
  <2>1. dram[m] \in Bufs
    BY DEF BaseInv, HostTypes
  <2>2. CASE dram[m] = x
    BY <1>4, <1>5, <2>2
  <2>3. CASE dram[m] # x
    <3>1. heap'[dram[m]] = heap[dram[m]]
      BY <1>4, <2>1, <2>3
    <3>2. CASE heap[dram[m]] \in copy[m]
      BY <3>1, <3>2
    <3>3. CASE heap[dram[m]] \notin copy[m]
      <4>1. PICK i \in 1 .. Len(saves) : saves[i].buf = dram[m]
        BY <3>3 DEF DataInv, StoredOK
      <4>2. i # 1
        BY <1>61, <2>3, <4>1
      <4> QED  BY <1>3, <4>1, <4>2
    <3> QED  BY <3>2, <3>3
  <2> QED  BY <2>2, <2>3
<1>10. KernelsOK' /\ ValuesOK'
  <2>1. Computed' = Computed
    BY <1>1 DEF Computed
  <2> QED  BY <1>1, <2>1 DEF DataInv, KernelsOK, ValuesOK, Occurs
<1> QED  BY <1>7, <1>8, <1>9, <1>10 DEF DataInv

LEMMA DataDoLoad ==
  ASSUME BaseInv, DataInv, DoLoad
  PROVE  DataInv'
<1> DEFINE k == loads[1].key
           x == loads[1].buf
<1>1. UNCHANGED <<phase, dram, compute, saves, heap, now, copy>>
  BY DEF DoLoad, hostVars
<1>2. loads # << >> /\ loads' = Tail(loads) /\ loads \in Seq(CopyOps)
  BY DEF DoLoad, BaseInv, DeviceTypes
<1>3. /\ Head(loads) = loads[1] /\ loads[1] \in CopyOps /\ 1 \in 1 .. Len(loads)
      /\ \A i \in 1 .. Len(loads') : i + 1 \in 1 .. Len(loads) /\ loads'[i] = loads[i + 1]
      /\ \A i \in 1 .. Len(loads) :
           i # 1 => i - 1 \in 1 .. Len(loads') /\ loads'[i - 1] = loads[i]
  BY <1>2, TailOf
<1>4. gpu' = [gpu EXCEPT ![k] = heap[x]] /\ k \in Keys /\ gpu \in [Keys -> Values]
  BY <1>3 DEF DoLoad, CopyOps, BaseInv, DeviceTypes
<1>5. heap[x] = now[k]
  BY <1>3 DEF DataInv, LoadsCurrent
<1>6. \A i \in 1 .. Len(saves) : saves[i].key # k /\ saves[i].key \in Keys
  BY <1>3, StreamKeys DEF CopyOps
<1>7. \A i \in 1 .. Len(loads) : loads[i].key # k => i # 1
  OBVIOUS
<1> HIDE DEF k, x
<1>8. SavesCurrent'
  <2> SUFFICES ASSUME NEW i \in 1 .. Len(saves)
               PROVE  {gpu'[saves[i].key], now[saves[i].key]} \subseteq copy[saves[i].key]
    BY <1>1 DEF SavesCurrent
  <2>1. gpu'[saves[i].key] = gpu[saves[i].key]
    BY <1>4, <1>6
  <2> QED  BY <2>1 DEF DataInv, SavesCurrent
<1>9. LoadsCurrent'
  BY <1>1, <1>3 DEF DataInv, LoadsCurrent
<1>10. ValuesOK'
  <2> SUFFICES ASSUME NEW m \in Keys
               PROVE  gpu'[m] = now[m] \/ Occurs(compute, m) \/ Occurs(loads', m)
    BY <1>1 DEF ValuesOK, Occurs
  <2>1. CASE m = k
    BY <1>4, <1>5, <2>1
  <2>2. CASE m # k
    <3>1. gpu'[m] = gpu[m]
      BY <1>4, <2>2
    <3>2. Occurs(loads, m) => Occurs(loads', m)
      BY <1>3, <1>7, <2>2 DEF Occurs
    <3> QED  BY <3>1, <3>2 DEF DataInv, ValuesOK
  <2> QED  BY <2>1, <2>2
<1>11. KernelsOK' /\ StoredOK'
  <2>1. Computed' = Computed
    BY <1>1 DEF Computed
  <2> QED  BY <1>1, <2>1 DEF DataInv, KernelsOK, StoredOK
<1> QED  BY <1>8, <1>9, <1>10, <1>11 DEF DataInv

LEMMA DataStep == BaseInv /\ DataInv /\ [Next]_vars => DataInv'
<1> SUFFICES ASSUME BaseInv, DataInv, [Next]_vars PROVE DataInv'
  OBVIOUS
<1>1. CASE Scheduler \/ Begin
  BY <1>1, DataQuiet
<1>2. CASE Worker
  <2>1. CASE StartLoad
    BY <2>1, DataStartLoad
  <2>2. CASE WaitForSave \/ End
    BY <2>2, DataQuiet
  <2>3. ASSUME NEW l \in Layers, Layer(l)
        PROVE  DataInv'
    BY <2>3, DataQuiet, DataKernels, DataSave DEF Layer
  <2> QED  BY <1>2, <2>1, <2>2, <2>3 DEF Worker
<1>3. CASE Device
  BY <1>3, DataDoKernel, DataDoSave, DataDoLoad DEF Device
<1>4. CASE Shutdown \/ \E k \in Keys : FreeBlock(k)
  BY <1>4, DataDropBuffers
<1>5. CASE UNCHANGED vars
  BY <1>5, DataUnchanged DEF vars, Computed
<1> QED  BY <1>1, <1>2, <1>3, <1>4, <1>5 DEF Next

LEMMA DataSaved ==
  ASSUME BaseInv, DataInv
  PROVE  SavedIsStored
<1> SUFFICES ASSUME phase = <<"saved", 0>>, NEW k \in Keys, dram[k] # NoBuf
             PROVE  heap[dram[k]] \in copy[k]
  BY DEF SavedIsStored
<1>1. Saving = {}
  BY DEF Saving
<1>2. ~ \E i \in 1 .. Len(saves) : saves[i].buf = dram[k]
  BY <1>1, StreamKeys
<1> QED  BY <1>2 DEF DataInv, StoredOK

LEMMA DataRead ==
  ASSUME BaseInv, DataInv
  PROVE  KernelsReadCurrent
<1> SUFFICES ASSUME NEW l \in Layers, phase = <<"loaded", l>>, NEW b \in Blocks
             PROVE  gpu[<<l, b>>] = now[<<l, b>>]
  BY DEF KernelsReadCurrent
<1> DEFINE k == <<l, b>>
<1>1. k[1] = l /\ k \in Keys /\ l \in Nat /\ l >= 1
  BY ConstantFacts
<1>2. Computed = 1 .. l - 1 /\ Waited = 1 .. l
  BY DEF Computed, Waited
<1> HIDE DEF k
<1>3. l \in Waited /\ l \notin Computed
  BY <1>1, <1>2
<1>4. ~ Occurs(loads, k)
  BY <1>1, <1>3, StreamKeys DEF Occurs
<1>5. ~ Occurs(compute, k)
  BY <1>1, <1>3 DEF Occurs, DataInv, KernelsOK
<1> QED  BY <1>1, <1>4, <1>5 DEF DataInv, ValuesOK, k

\* After wait_for_save every buffer in the table holds what its own block held
\* between its last save and the end of that pass's saves: no buffer freed and
\* given to another key, no load still under way and no later kernel spoils it,
\* whatever order the three streams go on in (connector.py:142-172).
THEOREM SavesArrive == Spec => []SavedIsStored
<1>1. BaseInv /\ DataInv => SavedIsStored
  BY DataSaved
<1>2. BaseInv /\ DataInv /\ [Next]_vars => DataInv'
  BY DataStep
<1> QED  BY <1>1, <1>2, AlwaysBase, DataInit, PTL DEF Spec

\* When wait_for_layer_load returns, the kernels of the layer read from every
\* block what the calls made so far put there, though the loads of later layers
\* and the kernels of earlier ones are under way (connector.py:174-202).
THEOREM ReadsAreCurrent == Spec => []KernelsReadCurrent
<1>1. BaseInv /\ DataInv => KernelsReadCurrent
  BY DataRead
<1>2. BaseInv /\ DataInv /\ [Next]_vars => DataInv'
  BY DataStep
<1> QED  BY <1>1, <1>2, AlwaysBase, DataInit, PTL DEF Spec
=============================================================================
