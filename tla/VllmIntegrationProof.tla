------------------------ MODULE VllmIntegrationProof ------------------------
(***************************************************************************)
(* Of what is put into vLLM's own code, for any constants.                  *)
(*                                                                         *)
(* The patched scheduler (BlockLevelSwap): every request is in one queue    *)
(* and once, and no block in two tables; vLLM's text outlives any sequence  *)
(* of calls that do not overlap; and the block scorer's victim is one of    *)
(* the coldest there are.                                                  *)
(*                                                                         *)
(* The attention hooks (AttentionHooks): a module's scores are reported at  *)
(* most once in a step as long as hooks are not installed again after an    *)
(* uninstall; those of a module that gives its weights when asked are       *)
(* reported at least every interval steps, and a change in the middle of a  *)
(* step costs one more; and the collector's own block ids tell the blocks   *)
(* of a step apart.                                                        *)
(***************************************************************************)
EXTENDS BlockLevelSwap, AttentionHooks, SequenceTheorems, FiniteSetTheorems, FunctionTheorems,
        WellFoundedInduction, TLAPS

-----------------------------------------------------------------------------
(* Numbers and sequences.                                                  *)

\* The least member of a set of natural numbers: what stands in for induction.
LEMMA LeastNatural ==
  ASSUME NEW T \in SUBSET Nat, T # {} PROVE \E m \in T : \A k \in T : m <= k
<1> DEFINE R == OpToRel(<, Nat)
<1>1. IsWellFoundedOn(R, Nat)
  BY NatLessThanWellFounded
<1>2. \A x, y \in Nat : y < x => <<y, x>> \in R
  BY DEF OpToRel
<1> HIDE DEF R
<1>3. PICK m \in T : \A k \in T : ~ (<<k, m>> \in R)
  BY <1>1, WFMin
<1>4. \A k \in T : ~ (k < m)
  BY <1>2, <1>3, Zenon
<1>5. QED
  BY <1>4

\* Nth lists a finite set of numbers, each once.
LEMMA NthIs ==
  ASSUME NEW S \in SUBSET Nat, IsFiniteSet(S)
  PROVE  /\ Cardinality(S) \in Nat
         /\ \A i \in 1 .. Cardinality(S) : Nth(S, i) \in S
         /\ \A i, j \in 1 .. Cardinality(S) : Nth(S, i) = Nth(S, j) => i = j
         /\ \A x \in S : \E i \in 1 .. Cardinality(S) : Nth(S, i) = x
<1> DEFINE n == Cardinality(S)
           UpTo(x) == {c \in S : c <= x}
           rank == [x \in S |-> Cardinality(UpTo(x))]
<1>1. n \in Nat
  BY FS_CardinalityType
<1>2. ASSUME NEW x \in S
      PROVE  IsFiniteSet(UpTo(x)) /\ Cardinality(UpTo(x)) \in 1 .. n
  <2>1. UpTo(x) \subseteq S /\ x \in UpTo(x)
    OBVIOUS
  <2> HIDE DEF UpTo
  <2>2. IsFiniteSet(UpTo(x)) /\ Cardinality(UpTo(x)) <= n
    BY <2>1, FS_Subset
  <2>3. Cardinality(UpTo(x)) \in Nat /\ Cardinality(UpTo(x)) # 0
    BY <2>1, <2>2, FS_CardinalityType, FS_EmptySet
  <2>4. QED
    BY <1>1, <2>2, <2>3
<1>3. ASSUME NEW x \in S, NEW y \in S, x < y PROVE Cardinality(UpTo(x)) # Cardinality(UpTo(y))
  <2>0. x \in Nat /\ y \in Nat /\ \A c \in S : c \in Nat
    OBVIOUS
  <2>1. UpTo(x) \subseteq UpTo(y) /\ y \in UpTo(y) /\ y \notin UpTo(x)
    <3>1. \A c \in S : c <= x => c <= y
      BY <1>3, <2>0
    <3>2. y <= y /\ ~ (y <= x)
      BY <1>3, <2>0
    <3>3. QED
      BY <3>1, <3>2
  <2>2. IsFiniteSet(UpTo(y))
    BY <1>2
  <2> HIDE DEF UpTo
  <2>3. QED
    BY <2>1, <2>2, FS_Subset
<1>4. \A x, y \in S : rank[x] = rank[y] => x = y
  <2> SUFFICES ASSUME NEW x \in S, NEW y \in S, rank[x] = rank[y] PROVE x = y
    OBVIOUS
  <2>1. rank[x] = Cardinality(UpTo(x)) /\ rank[y] = Cardinality(UpTo(y))
    OBVIOUS
  <2> HIDE DEF rank, UpTo
  <2>2. ~ (x < y) /\ ~ (y < x)
    BY <1>3, <2>1
  <2>3. QED
    BY <2>2
<1>5. rank \in [S -> 1 .. n]
  <2> HIDE DEF UpTo
  <2> QED
    BY <1>2
<1>6. \A x \in S, i \in 1 .. n : rank[x] = i <=> Cardinality({c \in S : c <= x}) = i
  OBVIOUS
<1> HIDE DEF rank, n
<1>7. rank \in Injection(S, 1 .. n)
  BY <1>4, <1>5, Fun_IsInj
<1>8. IsFiniteSet(1 .. n) /\ Cardinality(1 .. n) = n
  <2>1. IsFiniteSet(1 .. n) /\ Cardinality(1 .. n) = IF 1 > n THEN 0 ELSE n - 1 + 1
    BY <1>1, FS_Interval
  <2> QED
    BY <1>1, <2>1
<1>9. rank \in Surjection(S, 1 .. n)
  BY <1>7, <1>8, FS_Injection DEF n
<1>10. ASSUME NEW i \in 1 .. n PROVE Nth(S, i) \in S /\ rank[Nth(S, i)] = i
  <2>1. PICK x \in S : rank[x] = i
    BY <1>9, Fun_IsSurj, Zenon DEF Surjection
  <2>2. Cardinality({c \in S : c <= x}) = i
    BY <1>6, <2>1
  <2>3. Nth(S, i) \in S /\ Cardinality({c \in S : c <= Nth(S, i)}) = i
    BY <2>2 DEF Nth
  <2>4. QED
    BY <1>6, <2>3
<1>11. \A i, j \in 1 .. n : Nth(S, i) = Nth(S, j) => i = j
  BY <1>10
<1>12. ASSUME NEW x \in S PROVE \E i \in 1 .. n : Nth(S, i) = x
  <2>1. rank[x] \in 1 .. n
    BY <1>5
  <2>2. Nth(S, rank[x]) = x
    BY <1>4, <1>10, <2>1
  <2>3. QED
    BY <2>1, <2>2
<1>13. QED
  BY <1>1, <1>10, <1>11, <1>12 DEF n

\* A sequence of different members, and what the sequence operators of the
\* queues do to it and to its members.
Once(s) == \A i, j \in 1 .. Len(s) : s[i] = s[j] => i = j
Line(s) == s \in Seq(Reqs) /\ Once(s)

LEMMA LineSet ==
  ASSUME NEW s, Line(s)
  PROVE  /\ DOMAIN s = 1 .. Len(s) /\ Len(s) \in Nat /\ ToSet(s) \subseteq Reqs
         /\ \A r : r \in ToSet(s) <=> \E i \in 1 .. Len(s) : s[i] = r
         /\ s = << >> <=> Len(s) = 0
<1>1. s \in Seq(Reqs) /\ Len(s) \in Nat /\ DOMAIN s = 1 .. Len(s)
  BY DEF Line
<1>2. \A i \in 1 .. Len(s) : s[i] \in Reqs
  BY <1>1
<1>3. s = << >> <=> Len(s) = 0
  BY <1>1, EmptySeq
<1>4. QED
  BY <1>1, <1>2, <1>3 DEF ToSet

LEMMA LineEmpty == Line(<< >>) /\ ToSet(<< >>) = {}
  BY DEF Line, Once, ToSet

LEMMA LineConcat ==
  ASSUME NEW s, NEW t, Line(s), Line(t), ToSet(s) \cap ToSet(t) = {}
  PROVE  Line(s \o t) /\ ToSet(s \o t) = ToSet(s) \cup ToSet(t)
<1>1. s \in Seq(Reqs) /\ t \in Seq(Reqs) /\ Once(s) /\ Once(t)
  BY DEF Line
<1>2. Len(s) \in Nat /\ Len(t) \in Nat
  BY <1>1
<1>3. /\ s \o t \in Seq(Reqs) /\ Len(s \o t) = Len(s) + Len(t)
      /\ \A i \in 1 .. Len(s) + Len(t) : (s \o t)[i] = IF i <= Len(s) THEN s[i] ELSE t[i - Len(s)]
  BY <1>1, ConcatProperties
<1>4. /\ \A i \in 1 .. Len(s) : s[i] \in ToSet(s)
      /\ \A i \in 1 .. Len(t) : t[i] \in ToSet(t)
  BY <1>1 DEF ToSet
<1>5. \A i \in 1 .. Len(s), j \in 1 .. Len(t) : s[i] # t[j]
  BY <1>4
<1>6. Once(s \o t)
  <2> SUFFICES ASSUME NEW i \in 1 .. Len(s) + Len(t), NEW j \in 1 .. Len(s) + Len(t),
                      (s \o t)[i] = (s \o t)[j]
               PROVE  i = j
    BY <1>3 DEF Once
  <2>1. CASE i <= Len(s) /\ j <= Len(s)
    BY <1>1, <1>2, <1>3, <2>1 DEF Once
  <2>2. CASE i > Len(s) /\ j > Len(s)
    <3>1. i - Len(s) \in 1 .. Len(t) /\ j - Len(s) \in 1 .. Len(t)
      BY <1>2, <2>2
    <3>2. t[i - Len(s)] = t[j - Len(s)]
      BY <1>2, <1>3, <2>2
    <3>3. i - Len(s) = j - Len(s)
      BY <1>1, <3>1, <3>2 DEF Once
    <3>4. QED
      BY <1>2, <3>3
  <2>3. CASE i <= Len(s) /\ j > Len(s)
    BY <1>2, <1>3, <1>5, <2>3
  <2>4. CASE i > Len(s) /\ j <= Len(s)
    BY <1>2, <1>3, <1>5, <2>4
  <2>5. QED
    BY <1>2, <2>1, <2>2, <2>3, <2>4
<1>7. Line(s \o t)
  BY <1>3, <1>6 DEF Line
<1>8. ASSUME NEW r PROVE r \in ToSet(s \o t) <=> r \in ToSet(s) \/ r \in ToSet(t)
  <2>1. ASSUME NEW i \in 1 .. Len(s) + Len(t), (s \o t)[i] = r
        PROVE  r \in ToSet(s) \/ r \in ToSet(t)
    <3>1. CASE i <= Len(s)
      BY <1>2, <1>3, <1>4, <2>1, <3>1
    <3>2. CASE i > Len(s)
      <4>1. i - Len(s) \in 1 .. Len(t) /\ t[i - Len(s)] = r
        BY <1>2, <1>3, <2>1, <3>2
      <4>2. QED
        BY <1>4, <4>1
    <3>3. QED
      BY <1>2, <3>1, <3>2
  <2>2. ASSUME NEW i \in 1 .. Len(s), s[i] = r PROVE \E k \in 1 .. Len(s) + Len(t) : (s \o t)[k] = r
    BY <1>2, <1>3, <2>2
  <2>3. ASSUME NEW i \in 1 .. Len(t), t[i] = r PROVE \E k \in 1 .. Len(s) + Len(t) : (s \o t)[k] = r
    <3>1. Len(s) + i \in 1 .. Len(s) + Len(t) /\ (s \o t)[Len(s) + i] = t[Len(s) + i - Len(s)]
      BY <1>2, <1>3
    <3>2. Len(s) + i - Len(s) = i
      BY <1>2
    <3>3. QED
      BY <2>3, <3>1, <3>2
  <2>4. r \in ToSet(s \o t) <=> \E i \in 1 .. Len(s) + Len(t) : (s \o t)[i] = r
    <3> DEFINE u == s \o t
    <3>1. Line(u) /\ Len(u) = Len(s) + Len(t)
      BY <1>3, <1>7
    <3> HIDE DEF u
    <3>2. r \in ToSet(u) <=> \E i \in 1 .. Len(s) + Len(t) : u[i] = r
      BY <3>1, LineSet
    <3>3. QED
      BY <3>2 DEF u
  <2>5. /\ r \in ToSet(s) => \E i \in 1 .. Len(s) : s[i] = r
        /\ r \in ToSet(t) => \E i \in 1 .. Len(t) : t[i] = r
    BY LineSet
  <2>6. QED
    BY <2>1, <2>2, <2>3, <2>4, <2>5
<1>9. QED
  BY <1>7, <1>8

LEMMA LineSingle == ASSUME NEW r \in Reqs PROVE Line(<<r>>) /\ ToSet(<<r>>) = {r}
  BY DEF Line, Once, ToSet

LEMMA LineAppend ==
  ASSUME NEW s, Line(s), NEW r \in Reqs, r \notin ToSet(s)
  PROVE  Line(Append(s, r)) /\ ToSet(Append(s, r)) = ToSet(s) \cup {r}
<1>1. Append(s, r) = s \o <<r>>
  BY AppendIsConcat DEF Line
<1>2. QED
  BY <1>1, LineSingle, LineConcat

LEMMA LineCons ==
  ASSUME NEW s, Line(s), NEW r \in Reqs, r \notin ToSet(s)
  PROVE  Line(<<r>> \o s) /\ ToSet(<<r>> \o s) = ToSet(s) \cup {r}
  BY LineSingle, LineConcat

\* Of a part of a sequence between two places.
LEMMA LineSub ==
  ASSUME NEW s, Line(s), NEW m \in Nat \ {0}, NEW n \in Nat, n <= Len(s)
  PROVE  /\ Line(SubSeq(s, m, n))
         /\ ToSet(SubSeq(s, m, n)) = {s[i] : i \in m .. n}
         /\ Len(SubSeq(s, m, n)) = IF m <= n THEN n - m + 1 ELSE 0
         /\ \A i \in 1 .. n - m + 1 : SubSeq(s, m, n)[i] = s[m + i - 1]
<1>1. s \in Seq(Reqs) /\ Once(s) /\ Len(s) \in Nat
  BY DEF Line
<1>2. \A i \in m .. n : i \in 1 .. Len(s) /\ s[i] \in Reqs
  BY <1>1
<1> DEFINE t == SubSeq(s, m, n)
<1>3. /\ t \in Seq(Reqs) /\ Len(t) = IF m <= n THEN n - m + 1 ELSE 0
      /\ \A i \in 1 .. n - m + 1 : t[i] = s[m + i - 1]
  BY <1>2, SubSeqProperties
<1> HIDE DEF t
<1>4. \A i \in 1 .. Len(t) : t[i] = s[m + i - 1] /\ m + i - 1 \in m .. n
  <2>1. Len(t) = IF m <= n THEN n - m + 1 ELSE 0
    BY <1>3
  <2>2. \A i \in 1 .. Len(t) : i \in 1 .. n - m + 1 /\ m + i - 1 \in m .. n
    BY <2>1
  <2>3. QED
    BY <1>3, <2>2
<1>5. Once(t)
  <2> SUFFICES ASSUME NEW i \in 1 .. Len(t), NEW j \in 1 .. Len(t), t[i] = t[j] PROVE i = j
    BY DEF Once
  <2>1. m + i - 1 = m + j - 1
    BY <1>1, <1>2, <1>4 DEF Once
  <2>2. QED
    BY <2>1
<1>6. Line(t)
  BY <1>3, <1>5 DEF Line
<1>7. ASSUME NEW i \in m .. n PROVE \E k \in 1 .. Len(t) : t[k] = s[i]
  <2>1. i - m + 1 \in 1 .. Len(t) /\ m + (i - m + 1) - 1 = i
    BY <1>3
  <2>2. t[i - m + 1] = s[i]
    BY <1>4, <2>1
  <2>3. QED
    BY <2>1, <2>2
<1>8. ToSet(t) = {s[i] : i \in m .. n}
  <2>1. \A r : r \in ToSet(t) <=> \E i \in 1 .. Len(t) : t[i] = r
    BY <1>6, LineSet
  <2>2. \A r \in ToSet(t) : \E i \in m .. n : s[i] = r
    BY <1>4, <2>1
  <2>3. \A i \in m .. n : s[i] \in ToSet(t)
    BY <1>7, <2>1
  <2>4. QED
    BY <2>2, <2>3
<1>9. QED
  BY <1>3, <1>6, <1>8 DEF t

LEMMA LineTail ==
  ASSUME NEW s, Line(s), s # << >>
  PROVE  /\ Head(s) = s[1] /\ Head(s) \in Reqs /\ Head(s) \in ToSet(s)
         /\ Line(Tail(s)) /\ ToSet(Tail(s)) = ToSet(s) \ {Head(s)}
         /\ Len(Tail(s)) = Len(s) - 1
         /\ \A i \in 1 .. Len(s) - 1 : Tail(s)[i] = s[i + 1]
<1>1. s \in Seq(Reqs) /\ Once(s) /\ Len(s) \in Nat /\ Len(s) # 0
  BY LineSet DEF Line
<1>2. Tail(s) = SubSeq(s, 2, Len(s)) /\ Head(s) = s[1]
  BY <1>1, TailIsSubSeq
<1>3. /\ Line(Tail(s)) /\ ToSet(Tail(s)) = {s[i] : i \in 2 .. Len(s)}
      /\ Len(Tail(s)) = Len(s) - 1
      /\ \A i \in 1 .. Len(s) - 1 : Tail(s)[i] = s[2 + i - 1]
  <2> DEFINE t == SubSeq(s, 2, Len(s))
  <2>1. PICK n \in Nat \ {0} : n = Len(s)
    BY <1>1
  <2>2. 2 \in Nat \ {0} /\ n <= Len(s)
    BY <2>1
  <2>3. /\ Line(SubSeq(s, 2, n)) /\ ToSet(SubSeq(s, 2, n)) = {s[i] : i \in 2 .. n}
        /\ Len(SubSeq(s, 2, n)) = IF 2 <= n THEN n - 2 + 1 ELSE 0
        /\ \A i \in 1 .. n - 2 + 1 : SubSeq(s, 2, n)[i] = s[2 + i - 1]
    BY <2>2, LineSub
  <2>4. SubSeq(s, 2, n) = t
    BY <2>1
  <2> HIDE DEF t
  <2>5. n - 2 + 1 = n - 1 /\ (IF 2 <= n THEN n - 2 + 1 ELSE 0) = n - 1
    OBVIOUS
  <2>6. /\ Line(t) /\ ToSet(t) = {s[i] : i \in 2 .. n} /\ Len(t) = n - 1
        /\ \A i \in 1 .. n - 1 : t[i] = s[2 + i - 1]
    BY <2>3, <2>4, <2>5
  <2>7. QED
    BY <1>2, <2>1, <2>6 DEF t
<1>4. \A r : r \in ToSet(s) <=> \E i \in 1 .. Len(s) : s[i] = r
  BY LineSet
<1>5. s[1] \in Reqs /\ s[1] \in ToSet(s)
  BY <1>1, <1>4
<1>6. {s[i] : i \in 2 .. Len(s)} = ToSet(s) \ {s[1]}
  BY <1>1, <1>4 DEF Once
<1>7. \A i \in 1 .. Len(s) - 1 : Tail(s)[i] = s[i + 1]
  BY <1>1, <1>3
<1>8. QED
  BY <1>2, <1>3, <1>5, <1>6, <1>7

LEMMA LineRemove ==
  ASSUME NEW s, Line(s), NEW k \in 1 .. Len(s)
  PROVE  Line(RemoveAt(s, k)) /\ ToSet(RemoveAt(s, k)) = ToSet(s) \ {s[k]}
<1>1. Once(s) /\ Len(s) \in Nat
  BY LineSet DEF Line
<1> DEFINE a == SubSeq(s, 1, k - 1)
           b == SubSeq(s, k + 1, Len(s))
<1>2. Line(a) /\ ToSet(a) = {s[i] : i \in 1 .. k - 1}
  <2>1. 1 \in Nat \ {0} /\ k - 1 \in Nat /\ k - 1 <= Len(s)
    BY <1>1
  <2>2. QED
    BY <2>1, LineSub
<1>3. Line(b) /\ ToSet(b) = {s[i] : i \in k + 1 .. Len(s)}
  <2>1. k + 1 \in Nat \ {0} /\ Len(s) <= Len(s)
    BY <1>1
  <2>2. QED
    BY <1>1, <2>1, LineSub
<1>4. RemoveAt(s, k) = a \o b
  BY DEF RemoveAt
<1> HIDE DEF a, b
<1>5. ToSet(a) \cap ToSet(b) = {}
  BY <1>1, <1>2, <1>3 DEF Once
<1>6. ToSet(a) \cup ToSet(b) = ToSet(s) \ {s[k]}
  <2>1. \A r : r \in ToSet(s) <=> \E i \in 1 .. Len(s) : s[i] = r
    BY LineSet
  <2>2. \A r : r \in ToSet(a) \/ r \in ToSet(b) <=> \E i \in 1 .. Len(s) : i # k /\ s[i] = r
    BY <1>1, <1>2, <1>3
  <2>3. \A i \in 1 .. Len(s) : i # k <=> s[i] # s[k]
    BY <1>1 DEF Once
  <2>4. QED
    BY <2>1, <2>2, <2>3
<1>7. QED
  BY <1>2, <1>3, <1>4, <1>5, <1>6, LineConcat

LEMMA LineOnly ==
  ASSUME NEW s, Line(s), NEW K \in SUBSET (1 .. Len(s))
  PROVE  Line(Only(s, K)) /\ ToSet(Only(s, K)) = {s[i] : i \in K}
<1>1. s \in Seq(Reqs) /\ Once(s) /\ Len(s) \in Nat
  BY DEF Line
<1>2. K \in SUBSET Nat /\ IsFiniteSet(K)
  <2>1. IsFiniteSet(1 .. Len(s))
    <3>1. 1 \in Int /\ Len(s) \in Int
      BY <1>1
    <3>2. QED
      BY <3>1, FS_Interval
  <2>2. K \subseteq 1 .. Len(s) /\ 1 .. Len(s) \subseteq Nat
    BY <1>1
  <2>3. QED
    BY <2>1, <2>2, FS_Subset
<1> DEFINE n == Cardinality(K)
           t == Only(s, K)
<1>3. /\ n \in Nat /\ \A i \in 1 .. n : Nth(K, i) \in K
      /\ \A i, j \in 1 .. n : Nth(K, i) = Nth(K, j) => i = j
      /\ \A x \in K : \E i \in 1 .. n : Nth(K, i) = x
  BY <1>2, NthIs
<1>4. DOMAIN t = 1 .. n /\ \A i \in 1 .. n : t[i] = s[Nth(K, i)]
  BY DEF Only
<1>5. t = [i \in 1 .. n |-> t[i]]
  BY DEF Only
<1> HIDE DEF n, t
<1>6. \A i \in 1 .. n : t[i] \in Reqs
  <2>1. \A k \in K : s[k] \in Reqs
    BY <1>1
  <2>2. QED
    BY <1>3, <1>4, <2>1
<1>7. t \in Seq(Reqs) /\ Len(t) = n
  BY <1>3, <1>4, <1>5, <1>6, IsASeq
<1>8. Once(t)
  BY <1>1, <1>3, <1>4, <1>7 DEF Once
<1>9. ToSet(t) = {s[i] : i \in K}
  <2>1. ToSet(t) = {t[i] : i \in 1 .. n}
    BY <1>4 DEF ToSet
  <2>2. ASSUME NEW i \in 1 .. n PROVE t[i] \in {s[k] : k \in K}
    <3>1. Nth(K, i) \in K /\ t[i] = s[Nth(K, i)]
      BY <1>3, <1>4
    <3>2. QED
      BY <3>1
  <2>3. ASSUME NEW k \in K PROVE s[k] \in ToSet(t)
    <3>1. PICK i \in 1 .. n : Nth(K, i) = k
      BY <1>3
    <3>2. QED
      BY <1>4, <2>1, <3>1
  <2>4. QED
    BY <2>1, <2>2, <2>3
<1>10. QED
  BY <1>7, <1>8, <1>9 DEF Line, t
-----------------------------------------------------------------------------
(* Scores.                                                                 *)

Score == [sum : Nat, n : 1 .. 5]
\* A mean in sixtieths: the means of up to five numbers are compared as these.
Share(k)   == IF k = 1 THEN 60 ELSE IF k = 2 THEN 30 ELSE IF k = 3 THEN 20
              ELSE IF k = 4 THEN 15 ELSE 12
Sixtieths(x) == x.sum * Share(x.n)

LEMMA BelowIs ==
  ASSUME NEW x \in Score, NEW y \in Score
  PROVE  /\ Sixtieths(x) \in Nat /\ Sixtieths(y) \in Nat
         /\ Below(x, y) <=> Sixtieths(x) < Sixtieths(y)
<1>1. PICK a \in Nat, b \in Nat, k \in 1 .. 5, m \in 1 .. 5 :
        x.sum = a /\ y.sum = b /\ x.n = k /\ y.n = m
  BY DEF Score
<1>2. Sixtieths(x) = a * Share(k) /\ Sixtieths(y) = b * Share(m)
      /\ (Below(x, y) <=> a * m < b * k)
  BY <1>1 DEF Below, Sixtieths
<1>3. a * Share(k) \in Nat /\ b * Share(m) \in Nat
  BY DEF Share
<1>4. a * m < b * k <=> a * Share(k) < b * Share(m)
  <2>1. CASE k = 1
    BY <2>1 DEF Share
  <2>2. CASE k = 2
    BY <2>2 DEF Share
  <2>3. CASE k = 3
    BY <2>3 DEF Share
  <2>4. CASE k = 4
    BY <2>4 DEF Share
  <2>5. CASE k = 5
    BY <2>5 DEF Share
  <2>6. QED
    BY <2>1, <2>2, <2>3, <2>4, <2>5
<1>5. QED
  BY <1>2, <1>3, <1>4

\* There is a first of the least, and FirstLeast is it.
LEMMA FirstLeastIs ==
  ASSUME NEW n \in Nat \ {0}, NEW f \in [1 .. n -> Score]
  PROVE  FirstLeast(f) \in 1 .. n /\ \A j \in 1 .. n : ~Below(f[j], f[FirstLeast(f)])
<1> DEFINE w(i) == Sixtieths(f[i])
           W == {w(i) : i \in 1 .. n}
<1>1. \A i, j \in 1 .. n : w(i) \in Nat /\ (Below(f[i], f[j]) <=> w(i) < w(j))
  BY BelowIs
<1>2. PICK a \in 1 .. n : \A j \in 1 .. n : w(a) <= w(j)
  <2>1. W \in SUBSET Nat /\ W # {}
    <3>1. 1 \in 1 .. n
      OBVIOUS
    <3> HIDE DEF w
    <3>2. QED
      BY <1>1, <3>1
  <2>2. PICK m \in W : \A k \in W : m <= k
    <3> HIDE DEF W
    <3> QED
      BY <2>1, LeastNatural
  <2>3. QED
    BY <2>2
<1> DEFINE A == {i \in 1 .. n : w(i) = w(a)}
<1>3. PICK i \in A : \A j \in A : i <= j
  <2>1. A \in SUBSET Nat /\ A # {}
    OBVIOUS
  <2> HIDE DEF A
  <2>2. QED
    BY <2>1, LeastNatural
<1>4. ASSUME NEW j \in 1 .. n
      PROVE  ~Below(f[j], f[i]) /\ (j < i => Below(f[i], f[j]))
  <2>1. w(i) = w(a) /\ i \in 1 .. n /\ w(a) <= w(j) /\ w(a) \in Nat /\ w(j) \in Nat
    BY <1>1, <1>2, <1>3
  <2>2. j < i => w(j) # w(a)
    BY <1>3, <2>1
  <2> HIDE DEF w
  <2>3. QED
    BY <1>1, <2>1, <2>2
<1>5. DOMAIN f = 1 .. n /\ i \in 1 .. n
  BY <1>3
<1>6. \E k \in DOMAIN f : \A j \in DOMAIN f :
        ~Below(f[j], f[k]) /\ (j < k => Below(f[k], f[j]))
  BY <1>4, <1>5
<1>7. FirstLeast(f) \in DOMAIN f
      /\ \A j \in DOMAIN f : ~Below(f[j], f[FirstLeast(f)])
  BY <1>6 DEF FirstLeast
<1>8. QED
  BY <1>5, <1>7

LEMMA TotalIs == ASSUME NEW n \in Nat, NEW f \in [1 .. n -> Nat] PROVE Total(f) \in Nat
<1>1. \A i \in 1 .. 5 : Value(f, i) \in Nat
  BY DEF Value
<1>2. QED
  BY <1>1 DEF Total

\* What the table of a request says its blocks are worth.
LEMMA ImportanceIs ==
  ASSUME NEW n \in 1 .. 5, NEW i \in 1 .. n PROVE Importance(i, n) \in Nat
<1>1. CASE n <= 1 \/ i \in {1, n}
  BY <1>1 DEF Importance
<1>2. CASE ~ (n <= 1 \/ i \in {1, n})
  <2>1. \/ n = 3 /\ i - 1 = 1
        \/ n = 4 /\ i - 1 \in {1, 2}
        \/ n = 5 /\ i - 1 \in {1, 2, 3}
    BY <1>2
  <2>2. Importance(i, n) = Dip[n][i - 1]
    BY <1>2 DEF Importance
  <2>3. /\ Dip[3][1] = 150 /\ Dip[4][1] = 183 /\ Dip[4][2] = 183
        /\ Dip[5][1] = 223 /\ Dip[5][2] = 150 /\ Dip[5][3] = 223
    BY DEF Dip
  <2>4. QED
    BY <2>1, <2>2, <2>3
<1>3. QED
  BY <1>1, <1>2

-----------------------------------------------------------------------------
(* The scheduler.                                                          *)

\* A request is in one queue, and once; it is there until it is done.
Queues ==
  /\ Line(waiting) /\ Line(todo) /\ Line(served)
  /\ ToSet(waiting) \cap ToSet(todo) = {} /\ ToSet(waiting) \cap ToSet(served) = {}
  /\ ToSet(todo) \cap ToSet(served) = {}
Lengths ==
  /\ length \in [Reqs -> Nat]
  /\ \A r \in Reqs : length[r] \in Prompt[r] .. FullLen[r]
  /\ \A r \in ToSet(waiting) \cup ToSet(todo) : length[r] < FullLen[r]
\* A block is in one table of t, and once.
Own(t) == \A r, q \in Reqs : \A i \in 1 .. Len(t[r]), j \in 1 .. Len(t[q]) :
            t[r][i] = t[q][j] => r = q /\ i = j
Tables ==
  /\ table \in [Reqs -> Seq(BlockIds)] /\ Own(table)
  /\ \A r \in Reqs : Len(table[r]) = IF r \in RunningReqs THEN length[r] ELSE 0
\* The scores follow from what is remembered of the tables.
Follow == scores = [b \in DOMAIN info |-> Importance(info[b].pos, info[b].n)]
Scorers == loaded \in BOOLEAN /\ scorer \in {None, 1, 2, 4}
VInv == Queues /\ Lengths /\ Tables /\ Follow /\ Scorers

LEMMA Sizes ==
  /\ NumBlocks \in Nat /\ NumBlocks # 0 /\ Reqs \subseteq Nat
  /\ \A r \in Reqs : /\ Prompt[r] \in Nat /\ Prompt[r] > 0 /\ FullLen[r] \in Nat
                     /\ Prompt[r] < FullLen[r] /\ FullLen[r] <= 5
BY VictimConstantsOK DEF VictimConstantsOK

LEMMA InitVInv == ASSUME VictimInit PROVE VInv
<1>1. /\ loaded = FALSE /\ scorer = None /\ waiting = << >> /\ todo = << >> /\ served = << >>
      /\ table = [r \in Reqs |-> << >>] /\ length = Prompt /\ info = << >> /\ scores = << >>
  BY DEF VictimInit
<1>2. Queues /\ ToSet(waiting) = {} /\ ToSet(todo) = {} /\ ToSet(served) = {}
  BY <1>1, LineEmpty DEF Queues
<1>3. Lengths
  BY <1>1, <1>2, Sizes, VictimConstantsOK DEF Lengths, VictimConstantsOK
<1>4. Tables
  BY <1>1, <1>2 DEF Tables, Own, RunningReqs
<1>5. Follow
  BY <1>1 DEF Follow
<1>6. QED
  BY <1>1, <1>2, <1>3, <1>4, <1>5 DEF VInv, Scorers

LEMMA FreeIs ==
  ASSUME Tables
  PROVE  /\ Free \in SUBSET Nat /\ IsFiniteSet(Free)
         /\ \A b \in Free : b \in BlockIds
         /\ \A b \in Free, r \in Reqs : \A i \in 1 .. Len(table[r]) : table[r][i] # b
<1>1. IsFiniteSet(BlockIds)
  <2>1. 1 \in Int /\ NumBlocks \in Int
    BY Sizes
  <2>2. QED
    BY <2>1, FS_Interval DEF BlockIds
<1>2. Free \subseteq BlockIds /\ BlockIds \subseteq Nat
  BY Sizes DEF Free, BlockIds
<1>3. IsFiniteSet(Free)
  BY <1>1, <1>2, FS_Subset
<1>4. ASSUME NEW b \in Free, NEW r \in Reqs, NEW i \in 1 .. Len(table[r]) PROVE table[r][i] # b
  <2>1. b \notin ToSet(table[r])
    BY DEF Free
  <2>2. DOMAIN table[r] = 1 .. Len(table[r])
    BY DEF Tables
  <2>3. QED
    BY <2>1, <2>2 DEF ToSet
<1>5. QED
  BY <1>2, <1>3, <1>4

\* Another table for one request, of its own blocks and of such as no other has.
LEMMA TableChange ==
  ASSUME table \in [Reqs -> Seq(BlockIds)], Own(table), NEW r \in Reqs, NEW s \in Seq(BlockIds),
         \A i, j \in 1 .. Len(s) : s[i] = s[j] => i = j,
         \A q \in Reqs : q # r =>
           \A i \in 1 .. Len(table[q]), j \in 1 .. Len(s) : table[q][i] # s[j]
  PROVE  /\ [table EXCEPT ![r] = s] \in [Reqs -> Seq(BlockIds)]
         /\ Own([table EXCEPT ![r] = s])
<1> DEFINE t == [table EXCEPT ![r] = s]
<1>1. t \in [Reqs -> Seq(BlockIds)] /\ t[r] = s /\ \A q \in Reqs : q # r => t[q] = table[q]
  OBVIOUS
<1> HIDE DEF t
<1>2. ASSUME NEW p \in Reqs, NEW q \in Reqs, NEW i \in 1 .. Len(t[p]), NEW j \in 1 .. Len(t[q]),
             t[p][i] = t[q][j]
      PROVE  p = q /\ i = j
  <2>1. CASE p = r /\ q = r
    BY <1>1, <1>2, <2>1
  <2>2. CASE p # r /\ q # r
    BY <1>1, <1>2, <2>2 DEF Own
  <2>3. CASE p = r /\ q # r
    BY <1>1, <1>2, <2>3
  <2>4. CASE p # r /\ q = r
    BY <1>1, <1>2, <2>4
  <2>5. QED
    BY <2>1, <2>2, <2>3, <2>4
<1>3. Own(t)
  BY <1>2 DEF Own
<1>4. QED
  BY <1>1, <1>3 DEF t

LEMMA TableEmptied ==
  ASSUME table \in [Reqs -> Seq(BlockIds)], Own(table), NEW r \in Reqs
  PROVE  /\ [table EXCEPT ![r] = << >>] \in [Reqs -> Seq(BlockIds)]
         /\ Own([table EXCEPT ![r] = << >>])
<1>1. << >> \in Seq(BlockIds) /\ 1 .. Len(<< >>) = {}
  OBVIOUS
<1>2. QED
  BY <1>1, TableChange

LEMMA ArriveKeeps == ASSUME VInv, Arrive PROVE VInv'
<1>1. PICK r \in Reqs : ~Known(r) /\ waiting' = Append(waiting, r)
  BY DEF Arrive
<1>2. UNCHANGED <<loaded, scorer, todo, served, table, length, info, scores>>
  BY DEF Arrive, trackerVars
<1>3. r \notin ToSet(waiting) /\ r \notin ToSet(todo) /\ r \notin ToSet(served)
  <2>1. /\ Line(waiting \o todo) /\ ToSet(waiting \o todo) = ToSet(waiting) \cup ToSet(todo)
    BY LineConcat DEF VInv, Queues
  <2>2. ToSet((waiting \o todo) \o served) = ToSet(waiting \o todo) \cup ToSet(served)
    BY <2>1, LineConcat DEF VInv, Queues
  <2>3. QED
    BY <1>1, <2>1, <2>2 DEF Known
<1>4. length[r] = Prompt[r]
  BY <1>1 DEF Known
<1>5. Line(waiting') /\ ToSet(waiting') = ToSet(waiting) \cup {r}
  BY <1>1, <1>3, LineAppend DEF VInv, Queues
<1>6. Queues'
  BY <1>2, <1>3, <1>5 DEF VInv, Queues
<1>7. Lengths'
  BY <1>2, <1>4, <1>5, Sizes DEF VInv, Lengths
<1>8. Tables' /\ Follow' /\ Scorers'
  BY <1>2 DEF VInv, Tables, Own, RunningReqs, Follow, Scorers
<1>9. QED
  BY <1>6, <1>7, <1>8 DEF VInv

LEMMA EndPassKeeps == ASSUME VInv, EndPass PROVE VInv'
<1> DEFINE K == {i \in DOMAIN served : ~Done(served[i])}
<1>1. /\ todo = << >> /\ served' = << >> /\ todo' = Only(served, K)
      /\ table' = [r \in Reqs |-> IF r \in ToSet(served) /\ Done(r) THEN << >> ELSE table[r]]
      /\ UNCHANGED <<loaded, scorer, waiting, length, info, scores>>
  BY DEF EndPass, trackerVars
<1>2. Line(served) /\ DOMAIN served = 1 .. Len(served)
      /\ \A r : r \in ToSet(served) <=> \E i \in 1 .. Len(served) : served[i] = r
  BY LineSet DEF VInv, Queues
<1>3. Line(todo') /\ ToSet(todo') = {served[i] : i \in K}
  <2>1. K \in SUBSET (1 .. Len(served))
    BY <1>2
  <2> HIDE DEF K
  <2>2. QED
    BY <1>1, <1>2, <2>1, LineOnly
<1>4. ToSet(todo') = {r \in ToSet(served) : ~Done(r)}
  BY <1>2, <1>3
<1>5. Line(served') /\ ToSet(served') = {} /\ ToSet(todo) = {}
  BY <1>1, LineEmpty
<1> HIDE DEF K
<1>6. Queues'
  BY <1>1, <1>3, <1>4, <1>5 DEF VInv, Queues
<1>7. ToSet(served) \subseteq Reqs
  BY <1>2, LineSet
<1>8. Lengths'
  <2>1. ASSUME NEW r \in ToSet(todo') PROVE length[r] < FullLen[r]
    <3>1. r \in Reqs /\ length[r] # FullLen[r]
      BY <1>4, <1>7 DEF Done
    <3>2. length[r] \in Prompt[r] .. FullLen[r]
      BY <3>1 DEF VInv, Lengths
    <3>3. QED
      BY <3>1, <3>2, Sizes
  <2>2. QED
    BY <1>1, <2>1 DEF VInv, Lengths
<1>9. Tables'
  <2>1. table \in [Reqs -> Seq(BlockIds)] /\ Own(table)
    BY DEF VInv, Tables
  <2>2. \A r \in Reqs : table'[r] = table[r] \/ Len(table'[r]) = 0
    BY <1>1
  <2>3. << >> \in Seq(BlockIds)
    OBVIOUS
  <2>4. table' \in [Reqs -> Seq(BlockIds)]
    BY <1>1, <2>1, <2>3
  <2>5. Own(table')
    BY <2>1, <2>2 DEF Own
  <2>6. ASSUME NEW r \in Reqs PROVE Len(table'[r]) = IF r \in ToSet(todo') THEN length[r] ELSE 0
    <3>1. Len(table[r]) = IF r \in ToSet(served) THEN length[r] ELSE 0
      BY <1>5 DEF VInv, Tables, RunningReqs
    <3>2. CASE r \in ToSet(served) /\ Done(r)
      BY <1>1, <1>4, <3>2
    <3>3. CASE ~ (r \in ToSet(served) /\ Done(r))
      BY <1>1, <1>4, <3>1, <3>3
    <3>4. QED
      BY <3>2, <3>3
  <2>7. QED
    BY <1>1, <1>5, <2>4, <2>5, <2>6 DEF Tables, RunningReqs
<1>10. Follow' /\ Scorers'
  BY <1>1 DEF VInv, Follow, Scorers
<1>11. QED
  BY <1>6, <1>8, <1>9, <1>10 DEF VInv

LEMMA AdmitKeeps == ASSUME VInv, Admit PROVE VInv'
<1> DEFINE r == Head(waiting)
           s == [i \in 1 .. length[r] |-> NthFree(i)]
<1>1. /\ todo = << >> /\ waiting # << >> /\ Cardinality(Free) >= length[r]
      /\ waiting' = Tail(waiting) /\ served' = Append(served, r)
      /\ table' = [table EXCEPT ![r] = s]
      /\ UNCHANGED <<loaded, scorer, todo, length, info, scores>>
  BY DEF Admit, CanAdmit, trackerVars
<1>2. /\ r \in Reqs /\ r \in ToSet(waiting)
      /\ Line(waiting') /\ ToSet(waiting') = ToSet(waiting) \ {r}
  BY <1>1, LineTail DEF VInv, Queues
<1>3. r \notin ToSet(served) /\ r \notin ToSet(todo) /\ ToSet(todo) = {}
  BY <1>1, <1>2, LineEmpty DEF VInv, Queues
<1>4. Line(served') /\ ToSet(served') = ToSet(served) \cup {r}
  BY <1>1, <1>2, <1>3, LineAppend DEF VInv, Queues
<1>5. Queues'
  BY <1>1, <1>2, <1>3, <1>4 DEF VInv, Queues
<1>6. Lengths'
  BY <1>1, <1>2 DEF VInv, Lengths
<1>7. length[r] \in Nat
  BY <1>2 DEF VInv, Lengths
<1>8. /\ s \in Seq(BlockIds) /\ Len(s) = length[r]
      /\ \A i, j \in 1 .. Len(s) : s[i] = s[j] => i = j
      /\ \A i \in 1 .. Len(s) : s[i] \in Free
  <2>1. Tables
    BY DEF VInv
  <2>2. /\ Cardinality(Free) \in Nat
        /\ \A i \in 1 .. Cardinality(Free) : Nth(Free, i) \in Free
        /\ \A i, j \in 1 .. Cardinality(Free) : Nth(Free, i) = Nth(Free, j) => i = j
    BY <2>1, FreeIs, NthIs
  <2>3. \A i \in 1 .. length[r] : i \in 1 .. Cardinality(Free)
    BY <1>1, <1>7, <2>2
  <2>4. s = [i \in 1 .. length[r] |-> s[i]] /\ \A i \in 1 .. length[r] : s[i] = Nth(Free, i)
    BY DEF NthFree
  <2> HIDE DEF s, r
  <2>5. \A i \in 1 .. length[r] : s[i] \in Free /\ s[i] \in BlockIds
    BY <2>1, <2>2, <2>3, <2>4, FreeIs
  <2>6. s \in Seq(BlockIds) /\ Len(s) = length[r]
    <3>1. PICK n \in Nat : n = length[r]
      BY <1>7
    <3>2. s = [i \in 1 .. n |-> s[i]] /\ \A i \in 1 .. n : s[i] \in BlockIds
      BY <2>4, <2>5, <3>1
    <3>3. s \in [1 .. n -> BlockIds]
      BY <3>2
    <3>4. s \in Seq(BlockIds) /\ Len(s) = n
      BY <3>3, LenProperties
    <3>5. QED
      BY <3>1, <3>4
  <2>7. QED
    BY <2>2, <2>3, <2>4, <2>5, <2>6
<1> HIDE DEF s, r
<1>9. Tables'
  <2>1. \A q \in Reqs : q # r =>
          \A i \in 1 .. Len(table[q]), j \in 1 .. Len(s) : table[q][i] # s[j]
    BY <1>8, FreeIs DEF VInv
  <2>2. table' \in [Reqs -> Seq(BlockIds)] /\ Own(table')
    BY <1>1, <1>2, <1>8, <2>1, TableChange DEF VInv, Tables
  <2>3. \A q \in Reqs : Len(table'[q]) = IF q = r THEN length[r] ELSE Len(table[q])
    BY <1>1, <1>2, <1>8 DEF VInv, Tables
  <2>4. QED
    BY <1>1, <1>2, <1>4, <2>2, <2>3 DEF VInv, Tables, RunningReqs
<1>10. Follow' /\ Scorers'
  BY <1>1 DEF VInv, Follow, Scorers
<1>11. QED
  BY <1>5, <1>6, <1>9, <1>10 DEF VInv

LEMMA ServeKeeps == ASSUME VInv, Serve PROVE VInv'
<1> DEFINE r == Head(todo)
           b == NthFree(1)
           s == Append(table[r], b)
<1>1. /\ todo # << >> /\ Free # {} /\ todo' = Tail(todo) /\ served' = Append(served, r)
      /\ table' = [table EXCEPT ![r] = s] /\ length' = [length EXCEPT ![r] = length[r] + 1]
      /\ UNCHANGED <<loaded, scorer, waiting, info, scores>>
  BY DEF Serve, trackerVars
<1>2. /\ r \in Reqs /\ r \in ToSet(todo)
      /\ Line(todo') /\ ToSet(todo') = ToSet(todo) \ {r}
  BY <1>1, LineTail DEF VInv, Queues
<1>3. r \notin ToSet(served) /\ r \notin ToSet(waiting)
  BY <1>2 DEF VInv, Queues
<1>4. Line(served') /\ ToSet(served') = ToSet(served) \cup {r}
  BY <1>1, <1>2, <1>3, LineAppend DEF VInv, Queues
<1>5. Queues'
  BY <1>1, <1>2, <1>3, <1>4 DEF VInv, Queues
<1>6. length[r] \in Prompt[r] .. FullLen[r] /\ length[r] < FullLen[r] /\ length[r] \in Nat
  BY <1>2 DEF VInv, Lengths
<1>7. Lengths'
  BY <1>1, <1>2, <1>3, <1>6, Sizes DEF VInv, Lengths
<1>8. b \in Free
  <2>1. Tables
    BY DEF VInv
  <2>2. /\ Free \in SUBSET Nat /\ IsFiniteSet(Free)
    BY <2>1, FreeIs
  <2>3. Cardinality(Free) \in Nat /\ Cardinality(Free) # 0
    BY <1>1, <2>2, FS_EmptySet, FS_CardinalityType
  <2>4. 1 \in 1 .. Cardinality(Free)
    BY <2>3
  <2>5. QED
    BY <2>2, <2>4, NthIs DEF NthFree
<1> HIDE DEF b
<1>9. /\ b \in BlockIds
      /\ \A q \in Reqs : \A i \in 1 .. Len(table[q]) : table[q][i] # b
  BY <1>8, FreeIs DEF VInv
<1>10. table[r] \in Seq(BlockIds) /\ Len(table[r]) = length[r]
  BY <1>2 DEF VInv, Tables, RunningReqs
<1>11. /\ s \in Seq(BlockIds) /\ Len(s) = length[r] + 1
       /\ \A i \in 1 .. length[r] : s[i] = table[r][i]
       /\ s[length[r] + 1] = b
  BY <1>9, <1>10, AppendProperties
<1> HIDE DEF s, r
<1>12. Tables'
  <2>1. Own(table) /\ table \in [Reqs -> Seq(BlockIds)]
    BY DEF VInv, Tables
  <2>2. \A i \in 1 .. Len(s) : i \in 1 .. length[r] \/ i = length[r] + 1
    BY <1>6, <1>11
  <2>3. ASSUME NEW i \in 1 .. Len(s), NEW j \in 1 .. Len(s), s[i] = s[j] PROVE i = j
    <3>1. \A k, m \in 1 .. length[r] : table[r][k] = table[r][m] => k = m
      BY <1>2, <1>10, <2>1 DEF Own
    <3>2. \A k \in 1 .. length[r] : s[k] # b
      BY <1>2, <1>9, <1>10, <1>11
    <3>3. CASE i = length[r] + 1 \/ j = length[r] + 1
      BY <1>11, <2>2, <2>3, <3>2, <3>3
    <3>4. CASE i \in 1 .. length[r] /\ j \in 1 .. length[r]
      BY <1>11, <2>3, <3>1, <3>4
    <3>5. QED
      BY <2>2, <3>3, <3>4
  <2>4. ASSUME NEW q \in Reqs, q # r, NEW i \in 1 .. Len(table[q]), NEW j \in 1 .. Len(s)
        PROVE  table[q][i] # s[j]
    <3>1. CASE j = length[r] + 1
      BY <1>9, <1>11, <3>1
    <3>2. CASE j \in 1 .. length[r]
      <4>1. s[j] = table[r][j] /\ j \in 1 .. Len(table[r])
        BY <1>10, <1>11, <3>2
      <4>2. QED
        BY <1>2, <2>1, <2>4, <4>1 DEF Own
    <3>3. QED
      BY <2>2, <3>1, <3>2
  <2>5. table' \in [Reqs -> Seq(BlockIds)] /\ Own(table')
    BY <1>1, <1>2, <1>11, <2>1, <2>3, <2>4, TableChange
  <2>6. \A q \in Reqs : Len(table'[q]) = IF q = r THEN length[r] + 1 ELSE Len(table[q])
    BY <1>1, <1>2, <1>11, <2>1
  <2>7. \A q \in Reqs : length'[q] = IF q = r THEN length[r] + 1 ELSE length[q]
    BY <1>1, <1>2 DEF VInv, Lengths
  <2>8. RunningReqs' = RunningReqs /\ r \in RunningReqs
    BY <1>2, <1>4 DEF RunningReqs
  <2>9. QED
    BY <2>5, <2>6, <2>7, <2>8 DEF VInv, Tables
<1>13. Follow' /\ Scorers'
  BY <1>1 DEF VInv, Follow, Scorers
<1>14. QED
  BY <1>5, <1>7, <1>12, <1>13 DEF VInv

LEMMA PreemptSelfKeeps == ASSUME VInv, PreemptSelf PROVE VInv'
<1> DEFINE r == Head(todo)
<1>1. /\ Len(todo) = 1 /\ waiting' = todo \o waiting /\ todo' = << >>
      /\ table' = [table EXCEPT ![r] = << >>]
      /\ UNCHANGED <<loaded, scorer, served, length, info, scores>>
  BY DEF PreemptSelf, trackerVars
<1>2. Line(todo) /\ Line(waiting) /\ ToSet(todo) \cap ToSet(waiting) = {}
  BY DEF VInv, Queues
<1>3. todo # << >>
  BY <1>1, <1>2, LineSet
<1>4. ToSet(todo) = {r} /\ r \in Reqs
  <2>1. /\ r \in ToSet(todo) /\ r \in Reqs /\ Len(Tail(todo)) = 1 - 1
        /\ Line(Tail(todo)) /\ ToSet(Tail(todo)) = ToSet(todo) \ {r}
    BY <1>1, <1>2, <1>3, LineTail
  <2>2. Tail(todo) = << >>
    <3> DEFINE t == Tail(todo)
    <3>1. Line(t) /\ Len(t) = 0
      BY <2>1
    <3> HIDE DEF t
    <3>2. t = << >>
      BY <3>1, LineSet
    <3>3. QED
      BY <3>2 DEF t
  <2>3. QED
    BY <2>1, <2>2, LineEmpty
<1>5. Line(waiting') /\ ToSet(waiting') = ToSet(todo) \cup ToSet(waiting)
  BY <1>1, <1>2, LineConcat
<1>6. Line(todo') /\ ToSet(todo') = {}
  BY <1>1, LineEmpty
<1> HIDE DEF r
<1>7. Queues'
  BY <1>1, <1>5, <1>6 DEF VInv, Queues
<1>8. Lengths'
  BY <1>1, <1>5, <1>6 DEF VInv, Lengths
<1>9. Tables'
  <2>1. table' \in [Reqs -> Seq(BlockIds)] /\ Own(table')
    BY <1>1, <1>4, TableEmptied DEF VInv, Tables
  <2>2. \A q \in Reqs : Len(table'[q]) = IF q = r THEN 0 ELSE Len(table[q])
    BY <1>1 DEF VInv, Tables
  <2>3. r \notin ToSet(served)
    BY <1>4 DEF VInv, Queues
  <2>4. QED
    BY <1>1, <1>4, <1>6, <2>1, <2>2, <2>3 DEF VInv, Tables, RunningReqs
<1>10. Follow' /\ Scorers'
  BY <1>1 DEF VInv, Follow, Scorers
<1>11. QED
  BY <1>7, <1>8, <1>9, <1>10 DEF VInv

\* The candidates: those behind the head of running_queue, each with blocks.
LEMMA CandidatesAre ==
  ASSUME VInv, Len(todo) > 1
  PROVE  /\ Tail(todo) \in [1 .. Len(todo) - 1 -> Reqs] /\ Len(Tail(todo)) = Len(todo) - 1
         /\ Len(todo) - 1 \in Nat \ {0} /\ Line(Tail(todo)) /\ todo # << >>
         /\ ToSet(Tail(todo)) = ToSet(todo) \ {Head(todo)}
         /\ \A k \in 1 .. Len(todo) - 1 : Tail(todo)[k] = todo[k + 1]
         /\ \A k \in 1 .. Len(todo) - 1 :
              LET r == Tail(todo)[k]
              IN  /\ Len(table[r]) \in 1 .. 5 /\ DOMAIN table[r] = 1 .. Len(table[r])
                  /\ Progress(r) \in Score
<1>1. Line(todo) /\ Len(todo) \in Nat /\ todo # << >>
  <2>1. Line(todo)
    BY DEF VInv, Queues
  <2>2. QED
    BY <2>1, LineSet
<1> DEFINE t == Tail(todo)
<1>2. /\ Line(t) /\ Len(t) = Len(todo) - 1 /\ ToSet(t) = ToSet(todo) \ {Head(todo)}
      /\ \A k \in 1 .. Len(todo) - 1 : t[k] = todo[k + 1]
  BY <1>1, LineTail
<1> HIDE DEF t
<1>3. t \in [1 .. Len(todo) - 1 -> Reqs]
  BY <1>2 DEF Line
<1>4. ASSUME NEW k \in 1 .. Len(todo) - 1
      PROVE  /\ Len(table[t[k]]) \in 1 .. 5 /\ DOMAIN table[t[k]] = 1 .. Len(table[t[k]])
             /\ Progress(t[k]) \in Score
  <2>1. t[k] \in ToSet(t) /\ t[k] \in Reqs
    BY <1>2, <1>3, LineSet
  <2>2. t[k] \in RunningReqs
    BY <1>2, <2>1 DEF RunningReqs
  <2>3. /\ length[t[k]] \in Prompt[t[k]] .. FullLen[t[k]]
        /\ table[t[k]] \in Seq(BlockIds) /\ Len(table[t[k]]) = length[t[k]]
    BY <2>1, <2>2 DEF VInv, Lengths, Tables
  <2>4. length[t[k]] \in 1 .. 5 /\ length[t[k]] - Prompt[t[k]] \in Nat
    <3> DEFINE r == t[k]
    <3>1. /\ Prompt[r] \in Nat /\ Prompt[r] > 0 /\ FullLen[r] \in Nat /\ FullLen[r] <= 5
          /\ length[r] \in Prompt[r] .. FullLen[r]
      BY <2>1, <2>3, Sizes
    <3> HIDE DEF r
    <3>2. length[r] \in 1 .. 5 /\ length[r] - Prompt[r] \in Nat
      BY <3>1
    <3>3. QED
      BY <3>2 DEF r
  <2>5. QED
    BY <2>3, <2>4 DEF Progress, Score
<1>5. Len(todo) - 1 \in Nat \ {0}
  <2> DEFINE l == Len(todo)
  <2>1. l \in Nat /\ l > 1
    BY <1>1
  <2> HIDE DEF l
  <2>2. l - 1 \in Nat \ {0}
    BY <2>1
  <2>3. QED
    BY <2>2 DEF l
<1>6. QED
  BY <1>1, <1>2, <1>3, <1>4, <1>5 DEF t

\* update_registry remembers of every block of a candidate whose it is and where.
LEMMA RegistryIs ==
  ASSUME VInv, Len(todo) > 1, NEW k \in 1 .. Len(todo) - 1,
         NEW i \in 1 .. Len(table[Tail(todo)[k]])
  PROVE  LET r == Tail(todo)[k]
             new == Registry(Tail(todo))
         IN  /\ table[r][i] \in DOMAIN new
             /\ new[table[r][i]] = [req |-> r, pos |-> i, n |-> Len(table[r])]
<1> DEFINE t == Tail(todo)
           b == table[t[k]][i]
<1>1. /\ t \in [1 .. Len(todo) - 1 -> Reqs] /\ Once(t) /\ Len(t) = Len(todo) - 1
      /\ \A j \in 1 .. Len(todo) - 1 : DOMAIN table[t[j]] = 1 .. Len(table[t[j]])
  BY CandidatesAre DEF Line
<1> HIDE DEF t
<1>2. DOMAIN t = 1 .. Len(todo) - 1
  BY <1>1
<1>3. \A j \in DOMAIN t : t[j] \in Reqs /\ DOMAIN table[t[j]] = 1 .. Len(table[t[j]])
  BY <1>1
<1>4. Own(table)
  BY DEF VInv, Tables
<1>5. k \in DOMAIN t /\ i \in DOMAIN table[t[k]]
  BY <1>2, <1>3 DEF t
<1>6. ASSUME NEW j \in DOMAIN t, b \in ToSet(table[t[j]]) PROVE j = k
  <2>1. PICK m \in 1 .. Len(table[t[j]]) : table[t[j]][m] = b
    BY <1>3, <1>6 DEF ToSet
  <2>2. i \in 1 .. Len(table[t[k]])
    BY <1>3, <1>5
  <2>3. t[j] = t[k]
    BY <1>3, <1>4, <1>5, <2>1, <2>2 DEF Own
  <2>4. QED
    BY <1>1, <1>2, <1>5, <2>3 DEF Once
<1>7. b \in ToSet(table[t[k]])
  BY <1>5 DEF ToSet
<1>8. (CHOOSE j \in DOMAIN t : b \in ToSet(table[t[j]])) = k
  <2> HIDE DEF b
  <2> QED
    BY <1>5, <1>6, <1>7
<1>9. (CHOOSE m \in DOMAIN table[t[k]] : table[t[k]][m] = b) = i
  <2>1. \A m \in DOMAIN table[t[k]] : table[t[k]][m] = b => m = i
    BY <1>3, <1>4, <1>5 DEF Own
  <2>2. table[t[k]][i] = b
    OBVIOUS
  <2> HIDE DEF b
  <2>3. QED
    BY <1>5, <2>1, <2>2
<1>10. b \in UNION {ToSet(table[t[j]]) : j \in DOMAIN t}
  <2> HIDE DEF b
  <2> QED
    BY <1>5, <1>7
<1> HIDE DEF b
<1>11. Registry(t)[b] = [req |-> t[k], pos |-> i, n |-> Len(table[t[k]])]
  BY <1>8, <1>9, <1>10 DEF Registry
<1>12. b \in DOMAIN Registry(t)
  BY <1>10 DEF Registry
<1>13. QED
  BY <1>11, <1>12 DEF t, b

\* What follows from the tables of this moment gives each candidate the mean
\* it deserves.
LEMMA HotnessIs ==
  ASSUME VInv, Len(todo) > 1, NEW k \in 1 .. Len(todo) - 1, NEW new, NEW sc,
         new = Registry(Tail(todo)),
         sc = [b \in DOMAIN new |-> Importance(new[b].pos, new[b].n)]
  PROVE  Hotness(Tail(todo)[k], sc) = Mean(Tail(todo)[k]) /\ Mean(Tail(todo)[k]) \in Score
<1> DEFINE r == Tail(todo)[k]
           n == Len(table[r])
           f == [i \in DOMAIN table[r] |-> Importance(i, n)]
           g == [i \in DOMAIN table[r] |-> ScoreOf(table[r][i], sc)]
<1>1. n \in 1 .. 5 /\ DOMAIN table[r] = 1 .. n
  BY CandidatesAre
<1>2. \A i \in 1 .. n : table[r][i] \in DOMAIN new
        /\ new[table[r][i]] = [req |-> r, pos |-> i, n |-> n]
  BY RegistryIs
<1> HIDE DEF r
<1>3. ASSUME NEW i \in 1 .. n PROVE ScoreOf(table[r][i], sc) = Importance(i, n)
  <2>1. sc[table[r][i]] = Importance(new[table[r][i]].pos, new[table[r][i]].n)
        /\ table[r][i] \in DOMAIN sc
    BY <1>2
  <2>2. new[table[r][i]].pos = i /\ new[table[r][i]].n = n
    <3>1. new[table[r][i]] = [req |-> r, pos |-> i, n |-> n]
      BY <1>2
    <3> HIDE DEF n
    <3>2. QED
      BY <3>1
  <2>3. QED
    BY <2>1, <2>2 DEF ScoreOf
<1>4. f = g
  BY <1>1, <1>3
<1>5. Hotness(r, sc) = [sum |-> Total(g), n |-> n] /\ Mean(r) = [sum |-> Total(f), n |-> n]
  BY DEF Hotness, Mean
<1>6. f \in [1 .. n -> Nat]
  BY <1>1, ImportanceIs
<1> HIDE DEF f, g, n
<1>7. Total(f) \in Nat
  BY <1>1, <1>6, TotalIs
<1>8. QED
  BY <1>1, <1>4, <1>5, <1>7 DEF Score, r

\* The victim is a candidate and, for the block scorer, one of the coldest.
LEMMA VictimIs ==
  ASSUME VInv, Len(todo) > 1, NEW sc,
         loaded /\ scorer = 2 => \E new : new = Registry(Tail(todo))
           /\ sc = [b \in DOMAIN new |-> Importance(new[b].pos, new[b].n)],
         NEW v \in Picks(Tail(todo), sc)
  PROVE  /\ v \in 1 .. Len(todo) - 1
         /\ loaded /\ scorer = 2 =>
              \A k \in 1 .. Len(todo) - 1 : ~Below(Mean(Tail(todo)[k]), Mean(Tail(todo)[v]))
<1> DEFINE t == Tail(todo)
           m == Len(todo) - 1
<1>1. m \in Nat \ {0} /\ t \in [1 .. m -> Reqs] /\ Len(t) = m
      /\ \A k \in 1 .. m : Progress(t[k]) \in Score
  BY CandidatesAre
<1>2. DOMAIN t = 1 .. m
  BY <1>1
<1>3. loaded \in BOOLEAN /\ scorer \in {None, 1, 2, 4}
  BY DEF VInv, Scorers
<1>4. CASE ~loaded \/ scorer = None
  <2>1. Picks(t, sc) = {Len(t)}
    BY <1>4 DEF Picks, None
  <2>2. v = m /\ ~ (loaded /\ scorer = 2)
    BY <1>1, <1>4, <2>1 DEF None
  <2>3. QED
    BY <1>1, <2>2
<1>5. CASE loaded /\ scorer = 1
  <2>1. Picks(t, sc) = DOMAIN t
    BY <1>5 DEF Picks, None
  <2>2. QED
    BY <1>2, <1>5, <2>1
<1>6. CASE loaded /\ scorer = 2
  <2> DEFINE f == [i \in DOMAIN t |-> Hotness(t[i], sc)]
  <2>1. Picks(t, sc) = {FirstLeast(f)}
    BY <1>6 DEF Picks, None
  <2>2. PICK new : /\ new = Registry(t)
                   /\ sc = [b \in DOMAIN new |-> Importance(new[b].pos, new[b].n)]
    BY <1>6
  <2>3. \A k \in 1 .. m : Hotness(t[k], sc) = Mean(t[k]) /\ Mean(t[k]) \in Score
    BY <2>2, HotnessIs
  <2> HIDE DEF t, m
  <2>4. f \in [1 .. m -> Score] /\ \A k \in 1 .. m : f[k] = Mean(t[k])
    BY <1>2, <2>3
  <2> HIDE DEF f
  <2>5. v \in 1 .. m /\ \A k \in 1 .. m : ~Below(f[k], f[v])
    <3>1. v = FirstLeast(f)
      BY <2>1 DEF f, t
    <3>2. m \in Nat \ {0}
      BY <1>1
    <3>3. QED
      BY <2>4, <3>1, <3>2, FirstLeastIs
  <2>6. QED
    BY <2>4, <2>5 DEF t, m
<1>7. CASE loaded /\ scorer = 4
  <2> DEFINE f == [i \in DOMAIN t |-> Progress(t[i])]
  <2>1. Picks(t, sc) = {FirstLeast(f)}
    BY <1>7 DEF Picks, None
  <2>2. f \in [1 .. m -> Score]
    <3> HIDE DEF t, m
    <3> QED
      BY <1>1, <1>2
  <2> HIDE DEF f
  <2>3. v \in 1 .. m
    BY <1>1, <2>1, <2>2, FirstLeastIs
  <2>4. QED
    BY <1>7, <2>3
<1>8. QED
  BY <1>3, <1>4, <1>5, <1>6, <1>7

\* A preemption, as the lemmas above see it.
LEMMA PreemptIs ==
  ASSUME VInv, Preempt
  PROVE  \E v \in 1 .. Len(todo) - 1 :
           /\ waiting' = <<Tail(todo)[v]>> \o waiting
           /\ table' = [table EXCEPT ![Tail(todo)[v]] = << >>]
           /\ todo' = <<Head(todo)>> \o RemoveAt(Tail(todo), v)
           /\ Follow'
           /\ loaded /\ scorer = 2 =>
                \A k \in 1 .. Len(todo) - 1 : ~Below(Mean(Tail(todo)[k]), Mean(Tail(todo)[v]))
<1> DEFINE t == Tail(todo)
           new == Registry(t)
           uses == loaded /\ scorer = 2
           fresh == [b \in DOMAIN new |-> Importance(new[b].pos, new[b].n)]
<1>1. /\ Len(todo) > 1
      /\ info' = IF uses /\ ~Unchanged(new) THEN new ELSE info
      /\ scores' = IF uses THEN Rescored(new) ELSE scores
  BY DEF Preempt
<1>2. PICK v \in Picks(t, scores') :
        /\ waiting' = <<t[v]>> \o waiting
        /\ table' = [table EXCEPT ![t[v]] = << >>]
        /\ todo' = <<Head(todo)>> \o RemoveAt(t, v)
  BY DEF Preempt, Without
<1>3. scores = [b \in DOMAIN info |-> Importance(info[b].pos, info[b].n)]
  BY DEF VInv, Follow
<1>4. ASSUME uses PROVE scores' = fresh /\ info' = new
  <2> HIDE DEF new
  <2>1. CASE Unchanged(new)
    BY <1>1, <1>3, <1>4, <2>1 DEF Rescored, Unchanged
  <2>2. CASE ~Unchanged(new)
    BY <1>1, <1>4, <2>2 DEF Rescored
  <2>3. QED
    BY <2>1, <2>2
<1>5. ASSUME ~uses PROVE scores' = scores /\ info' = info
  BY <1>1, <1>5
<1> HIDE DEF new
<1>6. Follow'
  <2>1. CASE uses
    BY <1>4, <2>1 DEF Follow
  <2>2. CASE ~uses
    BY <1>3, <1>5, <2>2 DEF Follow
  <2>3. QED
    BY <2>1, <2>2
<1>7. uses => \E n : n = Registry(t) /\ scores' = [b \in DOMAIN n |-> Importance(n[b].pos, n[b].n)]
  BY <1>4 DEF new
<1>8. /\ v \in 1 .. Len(todo) - 1
      /\ uses => \A k \in 1 .. Len(todo) - 1 : ~Below(Mean(t[k]), Mean(t[v]))
  BY <1>1, <1>2, <1>7, VictimIs
<1>9. QED
  BY <1>2, <1>6, <1>8

LEMMA PreemptKeeps == ASSUME VInv, Preempt PROVE VInv'
<1>1. Len(todo) > 1 /\ UNCHANGED <<loaded, scorer, served, length>>
  BY DEF Preempt
<1> DEFINE t == Tail(todo)
           h == Head(todo)
<1>2. PICK v \in 1 .. Len(todo) - 1 :
        /\ waiting' = <<t[v]>> \o waiting /\ table' = [table EXCEPT ![t[v]] = << >>]
        /\ todo' = <<h>> \o RemoveAt(t, v) /\ Follow'
  BY PreemptIs
<1> DEFINE r == t[v]
<1>3. Line(t) /\ Len(t) = Len(todo) - 1 /\ todo # << >> /\ ToSet(t) = ToSet(todo) \ {h}
  BY <1>1, CandidatesAre
<1>4. h \in Reqs /\ h \in ToSet(todo)
  BY <1>3, LineTail DEF VInv, Queues
<1> HIDE DEF t, h
<1>5. r \in ToSet(t) /\ r \in Reqs
  BY <1>3, LineSet
<1>6. Line(RemoveAt(t, v)) /\ ToSet(RemoveAt(t, v)) = ToSet(t) \ {r}
  BY <1>3, LineRemove
<1> HIDE DEF r
<1>7. r \in ToSet(todo) /\ r # h
  BY <1>3, <1>5
<1>8. Line(todo') /\ ToSet(todo') = ToSet(todo) \ {r}
  <2>1. h \notin ToSet(RemoveAt(t, v))
    BY <1>3, <1>6
  <2>2. Line(todo') /\ ToSet(todo') = ToSet(RemoveAt(t, v)) \cup {h}
    BY <1>2, <1>4, <1>6, <2>1, LineCons
  <2>3. QED
    BY <1>3, <1>4, <1>6, <1>7, <2>2
<1>9. Line(waiting') /\ ToSet(waiting') = ToSet(waiting) \cup {r}
  BY <1>2, <1>5, <1>7, LineCons DEF VInv, Queues, r
<1>10. Queues'
  BY <1>1, <1>7, <1>8, <1>9 DEF VInv, Queues
<1>11. Lengths'
  BY <1>1, <1>7, <1>8, <1>9 DEF VInv, Lengths
<1>12. Tables'
  <2>1. table' = [table EXCEPT ![r] = << >>]
    BY <1>2 DEF r
  <2>2. table' \in [Reqs -> Seq(BlockIds)] /\ Own(table')
    BY <1>5, <2>1, TableEmptied DEF VInv, Tables
  <2>3. \A q \in Reqs : Len(table'[q]) = IF q = r THEN 0 ELSE Len(table[q])
    BY <2>1 DEF VInv, Tables
  <2>4. r \notin ToSet(served)
    BY <1>7 DEF VInv, Queues
  <2>5. QED
    BY <1>1, <1>7, <1>8, <2>2, <2>3, <2>4 DEF VInv, Tables, RunningReqs
<1>13. QED
  BY <1>1, <1>2, <1>10, <1>11, <1>12 DEF VInv, Scorers

-----------------------------------------------------------------------------
(* The patch of the scheduler's source.                                    *)

Places  == {"out", "old", "test", "backup", "copy", "open", "write", "rest"}
Results == {"none", "true", "false", "raised"}

PatchTypes ==
  /\ file \in Texts /\ bak \in Texts \cup {Absent} /\ oldbak \in Texts \cup {Absent}
  /\ pc \in [Procs -> Places] /\ content \in [Procs -> Texts] /\ result \in [Procs -> Results]
  /\ calls \in 0 .. MaxCalls

\* The one state in which a call alone loses vLLM's own text: the file of the
\* old release next to a backup that has it.
Endangered == file = "v4" /\ bak = "vanilla"

\* No first file is of that kind.
Harmless == \A f \in FirstFiles : ~ (f[1] = "v4" /\ f[2] = "vanilla")

\* Where a process that is alone in the function has vLLM's own text, if it
\* met one: not at all if it reads the old release's, in the file until the backup is complete, and in the backup from
\* then on.
WhereIs(p) ==
  /\ pc[p] = "old" => file = "v4"
  /\ pc[p] = "test" /\ content[p] = "vanilla" => file = "vanilla"
  /\ pc[p] \in {"backup", "copy", "open"} => file = "vanilla"
  /\ pc[p] \in {"open", "write", "rest"} => bak = "vanilla"
  /\ pc[p] \in {"write", "rest"} => file \in {"empty", "cut"}
Alone    == \A p, q \in Procs : Inside(p) /\ Inside(q) => p = q
OneByOne == Harmless /\ ~overlapped => ~Endangered /\ Alone /\ \A p \in Procs : WhereIs(p)
\* What is about to be written is the patched text.
ToWrite  == \A p \in Procs :
              pc[p] \in {"backup", "copy", "open", "write", "rest"} => content[p] = "v5"
PInv == PatchTypes /\ ToWrite /\ OneByOne

LEMMA InitPInv == ASSUME PatchInit PROVE PInv
<1>1. PICK f \in FirstFiles : file = f[1] /\ bak = f[2]
  BY DEF PatchInit
<1>2. f \in Texts \X (Texts \cup {Absent}) /\ MaxCalls \in Nat
  BY PatchConstantsOK DEF PatchConstantsOK
<1>3. file \in Texts /\ bak \in Texts \cup {Absent} /\ (Harmless => ~Endangered)
  BY <1>1, <1>2 DEF Harmless, Endangered
<1>4. PatchTypes
  BY <1>2, <1>3 DEF PatchInit, PatchTypes, Texts, Places, Results
<1>5. QED
  BY <1>3, <1>4 DEF PatchInit, PInv, ToWrite, OneByOne, Alone, WhereIs, Inside

\* A step of one process that leaves the others where they are.
LEMMA ReadKeeps == ASSUME PInv, NEW p \in Procs, Read(p) PROVE PInv'
<1>1. /\ pc' = [pc EXCEPT ![p] = IF file = "v4" THEN "old" ELSE "test"]
      /\ content' = [content EXCEPT ![p] = file] /\ result' = [result EXCEPT ![p] = "none"]
      /\ calls' = calls + 1 /\ calls < MaxCalls
      /\ overlapped' = (overlapped \/ \E q \in Procs : Inside(q))
      /\ UNCHANGED <<file, bak, oldbak>>
  BY DEF Read, Goto, OldMarked
<1>2. PatchTypes'
  <2>1. calls' \in 0 .. MaxCalls
    BY <1>1, PatchConstantsOK DEF PInv, PatchTypes, PatchConstantsOK
  <2>2. QED
    BY <1>1, <2>1 DEF PInv, PatchTypes, Places, Results
<1>3. pc \in [Procs -> Places] /\ content \in [Procs -> Texts]
  BY DEF PInv, PatchTypes
<1>4. ToWrite'
  BY <1>1, <1>3 DEF PInv, ToWrite
<1>5. ASSUME Harmless, ~overlapped' PROVE ~Endangered' /\ Alone' /\ \A q \in Procs : WhereIs(q)'
  <2>1. ~overlapped /\ \A q \in Procs : pc[q] = "out"
    BY <1>1, <1>5 DEF Inside
  <2>2. ~Endangered'
    BY <1>1, <1>5, <2>1 DEF PInv, OneByOne, Endangered
  <2>3. Alone'
    BY <1>1, <1>3, <2>1 DEF Alone, Inside
  <2>4. ASSUME NEW q \in Procs PROVE WhereIs(q)'
    BY <1>1, <1>3, <2>1 DEF WhereIs
  <2>5. QED
    BY <2>2, <2>3, <2>4
<1>6. QED
  BY <1>2, <1>4, <1>5 DEF PInv, OneByOne

\* What a step of a process inside the function leaves to be shown: when it is
\* alone the others are outside.
LEMMA StepInside ==
  ASSUME PInv, NEW p \in Procs, Inside(p), UNCHANGED overlapped,
         NEW at \in Places, pc' = [pc EXCEPT ![p] = at],
         PatchTypes', ToWrite',
         Harmless /\ ~overlapped => ~Endangered' /\ WhereIs(p)'
  PROVE  PInv'
<1>1. ASSUME Harmless, ~overlapped PROVE Alone' /\ \A q \in Procs : WhereIs(q)'
  <2>1. \A q \in Procs : q # p => pc'[q] = "out"
    BY <1>1 DEF PInv, PatchTypes, OneByOne, Alone, Inside
  <2>2. Alone'
    BY <2>1 DEF Alone, Inside
  <2>3. QED
    BY <1>1, <2>1, <2>2 DEF WhereIs
<1>2. QED
  BY <1>1 DEF PInv, OneByOne

LEMMA RestoreKeeps == ASSUME PInv, NEW p \in Procs, Restore(p) PROVE PInv'
<1>1. /\ pc[p] = "old" /\ pc' = [pc EXCEPT ![p] = "test"] /\ oldbak' = file
      /\ content' = [content EXCEPT ![p] = IF bak = Absent THEN "other" ELSE bak]
      /\ UNCHANGED <<file, bak, result, calls, overlapped>>
  BY DEF Restore, Goto
<1>2. PatchTypes' /\ ToWrite'
  BY <1>1 DEF PInv, PatchTypes, ToWrite, Places, Texts
<1>3. pc \in [Procs -> Places] /\ content \in [Procs -> Texts]
  BY DEF PInv, PatchTypes
<1>4. ASSUME Harmless, ~overlapped PROVE ~Endangered' /\ WhereIs(p)'
  <2>1. ~Endangered /\ file = "v4"
    BY <1>1, <1>4 DEF PInv, OneByOne, WhereIs
  <2>2. QED
    BY <1>1, <1>3, <2>1 DEF WhereIs, Endangered
<1>5. QED
  BY <1>1, <1>2, <1>4, StepInside DEF Inside, Places

LEMMA TestKeeps == ASSUME PInv, NEW p \in Procs, Test(p) PROVE PInv'
<1>1. pc[p] = "test" /\ UNCHANGED <<file, bak, oldbak, calls, overlapped>>
  BY DEF Test
<1>2. pc \in [Procs -> Places] /\ content \in [Procs -> Texts]
  BY DEF PInv, PatchTypes
<1>3. ASSUME Harmless, ~overlapped PROVE ~Endangered' /\ (content[p] = "vanilla" => file = "vanilla")
  BY <1>1, <1>3 DEF PInv, OneByOne, WhereIs, Endangered
<1>4. CASE \E r \in Results : Returns(p, r)
  <2>1. PICK r \in Results : Returns(p, r)
    BY <1>4
  <2>2. /\ pc' = [pc EXCEPT ![p] = "out"] /\ result' = [result EXCEPT ![p] = r]
        /\ content' = [content EXCEPT ![p] = "empty"]
    BY <2>1 DEF Returns, Goto
  <2>3. PatchTypes' /\ ToWrite'
    BY <1>1, <2>2 DEF PInv, PatchTypes, ToWrite, Places, Texts
  <2>4. WhereIs(p)'
    BY <1>2, <2>2 DEF WhereIs
  <2>5. QED
    BY <1>1, <1>3, <2>2, <2>3, <2>4, StepInside DEF Inside, Places
<1>5. CASE /\ ~Marked(content[p]) /\ Anchored(content[p])
           /\ Goto(p, "backup") /\ content' = [content EXCEPT ![p] = "v5"]
           /\ UNCHANGED result
  <2>1. /\ content[p] = "vanilla" /\ pc' = [pc EXCEPT ![p] = "backup"]
        /\ content' = [content EXCEPT ![p] = "v5"] /\ UNCHANGED result
    BY <1>5 DEF Anchored, Goto
  <2>2. PatchTypes' /\ ToWrite'
    BY <1>1, <2>1 DEF PInv, PatchTypes, ToWrite, Places, Texts
  <2>3. Harmless /\ ~overlapped => WhereIs(p)'
    BY <1>1, <1>2, <1>3, <2>1 DEF WhereIs
  <2>4. QED
    BY <1>1, <1>3, <2>1, <2>2, <2>3, StepInside DEF Inside, Places
<1>6. QED
  BY <1>4, <1>5 DEF Test, Results

\* The four steps that copy and write.
LEMMA WriteKeeps ==
  ASSUME PInv, NEW p \in Procs, OpenBackup(p) \/ FillBackup(p) \/ Open(p) \/ WritePart(p)
  PROVE  PInv'
<1>1. pc \in [Procs -> Places] /\ content \in [Procs -> Texts]
  BY DEF PInv, PatchTypes
<1>2. CASE OpenBackup(p)
  <2>1. /\ pc[p] = "backup" /\ pc' = [pc EXCEPT ![p] = "copy"] /\ bak' = "empty"
        /\ UNCHANGED <<file, oldbak, content, result, calls, overlapped>>
    BY <1>2 DEF OpenBackup, Goto
  <2>2. PatchTypes' /\ ToWrite'
    BY <2>1 DEF PInv, PatchTypes, ToWrite, Places, Texts
  <2>3. Harmless /\ ~overlapped => ~Endangered' /\ WhereIs(p)'
    BY <1>1, <2>1 DEF PInv, OneByOne, WhereIs, Endangered
  <2>4. QED
    BY <2>1, <2>2, <2>3, StepInside DEF Inside, Places
<1>3. CASE FillBackup(p)
  <2>1. /\ pc[p] = "copy" /\ pc' = [pc EXCEPT ![p] = "open"] /\ bak' = file
        /\ UNCHANGED <<file, oldbak, content, result, calls, overlapped>>
    BY <1>3 DEF FillBackup, Goto
  <2>2. PatchTypes' /\ ToWrite'
    BY <2>1 DEF PInv, PatchTypes, ToWrite, Places, Texts
  <2>3. Harmless /\ ~overlapped => ~Endangered' /\ WhereIs(p)'
    BY <1>1, <2>1 DEF PInv, OneByOne, WhereIs, Endangered
  <2>4. QED
    BY <2>1, <2>2, <2>3, StepInside DEF Inside, Places
<1>4. CASE Open(p)
  <2>1. /\ pc[p] = "open" /\ pc' = [pc EXCEPT ![p] = "write"] /\ file' = "empty"
        /\ UNCHANGED <<bak, oldbak, content, result, calls, overlapped>>
    BY <1>4 DEF Open, Goto
  <2>2. PatchTypes' /\ ToWrite'
    BY <2>1 DEF PInv, PatchTypes, ToWrite, Places, Texts
  <2>3. Harmless /\ ~overlapped => ~Endangered' /\ WhereIs(p)'
    BY <1>1, <2>1 DEF PInv, OneByOne, WhereIs, Endangered
  <2>4. QED
    BY <2>1, <2>2, <2>3, StepInside DEF Inside, Places
<1>5. CASE WritePart(p)
  <2>1. /\ pc[p] = "write" /\ pc' = [pc EXCEPT ![p] = "rest"]
        /\ file' = IF file = "v5" THEN "v5" ELSE "cut"
        /\ UNCHANGED <<bak, oldbak, content, result, calls, overlapped>>
    BY <1>5 DEF WritePart, Goto
  <2>2. PatchTypes' /\ ToWrite'
    BY <2>1 DEF PInv, PatchTypes, ToWrite, Places, Texts
  <2>3. Harmless /\ ~overlapped => ~Endangered' /\ WhereIs(p)'
    BY <1>1, <2>1 DEF PInv, OneByOne, WhereIs, Endangered
  <2>4. QED
    BY <2>1, <2>2, <2>3, StepInside DEF Inside, Places
<1>6. QED
  BY <1>2, <1>3, <1>4, <1>5

LEMMA LeaveKeeps == ASSUME PInv, NEW p \in Procs, WriteRest(p) \/ Crash(p) PROVE PInv'
<1>1. /\ Inside(p) /\ UNCHANGED <<bak, oldbak, calls, overlapped>>
      /\ pc' = [pc EXCEPT ![p] = "out"] /\ content' = [content EXCEPT ![p] = "empty"]
      /\ \E r \in Results : result' = [result EXCEPT ![p] = r]
  BY DEF WriteRest, Crash, Returns, Goto, Inside, Results
<1>2. file' = file \/ file' = "v5"
  BY DEF WriteRest, Crash, PInv, ToWrite
<1>3. PatchTypes' /\ ToWrite'
  BY <1>1, <1>2 DEF PInv, PatchTypes, ToWrite, Places, Texts
<1>4. pc \in [Procs -> Places]
  BY DEF PInv, PatchTypes
<1>5. Harmless /\ ~overlapped => ~Endangered' /\ WhereIs(p)'
  BY <1>1, <1>2, <1>4 DEF PInv, OneByOne, WhereIs, Endangered
<1>6. QED
  BY <1>1, <1>3, <1>5, StepInside DEF Places

LEMMA ApplyKeeps == ASSUME PInv, NEW p \in Procs, Apply(p) \/ Crash(p) PROVE PInv'
  BY ReadKeeps, RestoreKeeps, TestKeeps, WriteKeeps, LeaveKeeps DEF Apply

LEMMA ReinstallKeeps == ASSUME PInv, Reinstall PROVE PInv'
<1>1. /\ \A p \in Procs : pc[p] = "out"
      /\ file' = "vanilla" /\ result' = [p \in Procs |-> "none"] /\ UNCHANGED <<bak, oldbak, pc, content, calls, overlapped>>
  BY DEF Reinstall, Inside
<1>2. PatchTypes' /\ ToWrite'
  BY <1>1 DEF PInv, PatchTypes, ToWrite, Texts, Results
<1>3. OneByOne'
  BY <1>1 DEF OneByOne, Alone, Inside, WhereIs, Endangered
<1>4. QED
  BY <1>2, <1>3 DEF PInv

\* The calls' results alone: the others read them.
LEMMA ResultsKeep ==
  ASSUME PInv, UNCHANGED <<file, bak, oldbak, pc, content, calls, overlapped>>,
         result' \in [Procs -> Results]
  PROVE  PInv'
<1>1. PatchTypes' /\ ToWrite'
  BY DEF PInv, PatchTypes, ToWrite
<1>2. OneByOne'
  BY DEF PInv, OneByOne, Alone, Inside, WhereIs, Endangered
<1>3. QED
  BY <1>1, <1>2 DEF PInv

\* What a step of the patch does to the two files.
LEMMA OriginalStays ==
  ASSUME PInv, Harmless, NEW p \in Procs, Apply(p) \/ Crash(p), ~overlapped', "vanilla" \in {file, bak}
  PROVE  "vanilla" \in {file', bak'}
<1>1. ~overlapped
  BY DEF Apply, Read, Restore, Test, OpenBackup, FillBackup, Open, WritePart, WriteRest, Crash
<1>2. ~Endangered /\ WhereIs(p)
  BY <1>1 DEF PInv, OneByOne
<1>3. CASE Read(p) \/ Restore(p) \/ Test(p) \/ Crash(p)
  BY <1>3 DEF Read, Restore, Test, Crash
<1>4. CASE OpenBackup(p) \/ FillBackup(p)
  BY <1>2, <1>4 DEF OpenBackup, FillBackup, WhereIs
<1>5. CASE Open(p) \/ WritePart(p) \/ WriteRest(p)
  BY <1>2, <1>5 DEF Open, WritePart, WriteRest, WhereIs
<1>6. QED
  BY <1>3, <1>4, <1>5 DEF Apply

-----------------------------------------------------------------------------
(* The patch, the scheduler and the scorer together.                       *)

SwapInv ==
  /\ PInv /\ VInv /\ engine \in {"off", "up", "failed"}
  /\ installing \in [Procs -> Installs \cup {None}]

\* What the scheduler holds stays what it is when it does not move.
LEMMA SameQueues ==
  ASSUME VInv, UNCHANGED <<queueVars, trackerVars>>, Scorers' PROVE VInv'
<1>1. UNCHANGED <<waiting, todo, served, table, length, info, scores>>
  BY DEF queueVars, trackerVars
<1>2. Queues' /\ Lengths' /\ Follow'
  BY <1>1 DEF VInv, Queues, Lengths, Follow
<1>3. Tables'
  BY <1>1 DEF VInv, Tables, RunningReqs, Own
<1>4. QED
  BY <1>2, <1>3 DEF VInv

LEMMA InitSwapInv == ASSUME Init PROVE SwapInv
  BY InitPInv, InitVInv DEF Init, SwapInv, None

LEMMA LaunchKeeps == ASSUME SwapInv, NEW p \in Procs, Launch(p) PROVE SwapInv'
<1>1. /\ engine' \in {"off", "up", "failed"} /\ loaded' \in BOOLEAN
      /\ scorer' \in {None, 1, 2, 4} /\ result' = [q \in Procs |-> "none"]
      /\ UNCHANGED <<file, bak, oldbak, pc, content, calls, overlapped, queueVars, trackerVars,
                     installing>>
  BY DEF Launch, Created
<1>2. PInv'
  BY <1>1, ResultsKeep DEF SwapInv, Results
<1>3. VInv'
  BY <1>1, SameQueues DEF SwapInv, Scorers
<1>4. QED
  BY <1>1, <1>2, <1>3 DEF SwapInv

LEMMA InstallKeeps ==
  ASSUME SwapInv, NEW p \in Procs, BeginInstall(p) \/ EndInstall(p) PROVE SwapInv'
<1>1. CASE BeginInstall(p)
  <2>1. /\ Read(p) /\ UNCHANGED <<victimVars, engine>>
        /\ \E v \in Installs : installing' = [installing EXCEPT ![p] = v]
    BY <1>1 DEF BeginInstall
  <2>2. PInv'
    BY <2>1, ReadKeeps DEF SwapInv
  <2>3. VInv'
    BY <2>1, SameQueues DEF SwapInv, VInv, victimVars, Scorers
  <2>4. QED
    BY <2>1, <2>2, <2>3 DEF SwapInv
<1>2. CASE EndInstall(p)
  <2>1. /\ installing' = [installing EXCEPT ![p] = None]
        /\ result' = [result EXCEPT ![p] = "none"]
        /\ scorer' = scorer \/ scorer' \in {None, 1, 2, 4}
        /\ UNCHANGED <<file, bak, oldbak, pc, content, calls, overlapped, loaded, queueVars,
                       trackerVars, engine>>
    BY <1>2 DEF EndInstall, Attached, Created
  <2>2. PInv'
    <3>1. result' \in [Procs -> Results]
      BY <2>1 DEF SwapInv, PInv, PatchTypes, Results
    <3>2. QED
      BY <2>1, <3>1, ResultsKeep DEF SwapInv
  <2>3. VInv'
    BY <2>1, SameQueues DEF SwapInv, VInv, Scorers
  <2>4. QED
    BY <2>1, <2>2, <2>3 DEF SwapInv
<1>3. QED
  BY <1>1, <1>2

LEMMA FilesKeep ==
  ASSUME SwapInv, UNCHANGED <<victimVars, engine, installing>>,
         Reinstall \/ \E p \in Procs : Apply(p) \/ Crash(p)
  PROVE  SwapInv'
<1>1. PInv'
  BY ApplyKeeps, ReinstallKeeps DEF SwapInv
<1>2. VInv'
  BY SameQueues DEF SwapInv, VInv, victimVars, Scorers
<1>3. QED
  BY <1>1, <1>2 DEF SwapInv

LEMMA SchedulingKeeps ==
  ASSUME SwapInv, UNCHANGED <<patchVars, engine, installing>>, SchedStep \/ Arrive
  PROVE  SwapInv'
<1>1. VInv'
  BY EndPassKeeps, AdmitKeeps, ServeKeeps, PreemptKeeps, PreemptSelfKeeps, ArriveKeeps
  DEF SwapInv, SchedStep
<1>2. PInv'
  <2>1. UNCHANGED <<file, bak, oldbak, pc, content, calls, overlapped>> /\ result' = result
    BY DEF patchVars
  <2>2. QED
    BY <2>1, ResultsKeep DEF SwapInv, PInv, PatchTypes
<1>3. QED
  BY <1>1, <1>2 DEF SwapInv

LEMMA StepSwapInv == ASSUME SwapInv, [Next]_vars PROVE SwapInv'
<1>1. CASE Next
  BY <1>1, LaunchKeeps, InstallKeeps, FilesKeep, SchedulingKeeps
  DEF Next, PatchStep, Schedule, Request
<1>2. CASE UNCHANGED vars
  <2>1. UNCHANGED <<patchVars, victimVars, engine, installing>>
    BY <1>2 DEF vars
  <2>2. PInv'
    <3>1. UNCHANGED <<file, bak, oldbak, pc, content, calls, overlapped>> /\ result' = result
      BY <2>1 DEF patchVars
    <3>2. QED
      BY <3>1, ResultsKeep DEF SwapInv, PInv, PatchTypes
  <2>3. VInv'
    BY <2>1, SameQueues DEF SwapInv, VInv, victimVars, Scorers
  <2>4. QED
    BY <2>1, <2>2, <2>3 DEF SwapInv
<1>3. QED
  BY <1>1, <1>2

LEMMA SwapInvAlways == Spec => []SwapInv
<1>1. Init => SwapInv
  BY InitSwapInv
<1>2. SwapInv /\ [Next]_vars => SwapInv'
  BY StepSwapInv
<1>3. QED
  BY <1>1, <1>2, PTL DEF Spec

\* The types, as the runs check them.
LEMMA SwapTypes == ASSUME SwapInv PROVE TypeOK
<1>1. PatchTypeOK
  BY DEF SwapInv, PInv, PatchTypes, PatchTypeOK, Places, Results
<1>2. /\ loaded \in BOOLEAN /\ scorer \in {None, 1, 2, 4} /\ engine \in {"off", "up", "failed"}
      /\ \A p \in Procs : installing[p] \in Installs \cup {None}
  BY DEF SwapInv, VInv, Scorers
<1>3. \A r \in Reqs : table[r] \in Seq(BlockIds) /\ length[r] \in Prompt[r] .. FullLen[r]
  BY DEF SwapInv, VInv, Tables, Lengths
<1>4. IsInjective(waiting \o todo \o served)
  <2> DEFINE a == waiting \o todo
             s == a \o served
  <2>1. Line(a) /\ ToSet(a) = ToSet(waiting) \cup ToSet(todo)
    BY LineConcat DEF SwapInv, VInv, Queues
  <2>2. Line(s)
    <3> HIDE DEF a
    <3> QED
      BY <2>1, LineConcat DEF SwapInv, VInv, Queues
  <2> HIDE DEF s
  <2>3. IsInjective(s)
    BY <2>2, LineSet DEF IsInjective, Line, Once
  <2>4. QED
    BY <2>3 DEF s
<1>5. ASSUME NEW r \in Reqs, NEW q \in Reqs, r # q PROVE ToSet(table[r]) \cap ToSet(table[q]) = {}
  <2>1. /\ table[r] \in Seq(BlockIds) /\ table[q] \in Seq(BlockIds)
        /\ \A i \in 1 .. Len(table[r]), j \in 1 .. Len(table[q]) : table[r][i] # table[q][j]
    BY <1>5 DEF SwapInv, VInv, Tables, Own
  <2>2. QED
    BY <2>1 DEF ToSet
<1>6. \A r \in RunningReqs : Len(table[r]) = length[r]
  <2>1. RunningReqs \subseteq Reqs
    BY LineSet DEF SwapInv, VInv, Queues, RunningReqs
  <2>2. QED
    BY <2>1 DEF SwapInv, VInv, Tables
<1>7. DOMAIN scores = DOMAIN info
  BY DEF SwapInv, VInv, Follow
<1>8. QED
  BY <1>1, <1>2, <1>3, <1>4, <1>5, <1>6, <1>7 DEF TypeOK

\* However many processes patch the file, launch the engine and install the
\* scoring, and whatever the scorer picks: a request is in one queue and once,
\* a block in one table, a running request has a block for each of its tokens,
\* and the tracker scores the blocks it remembers
\* (block_level_swap.py:240-273, 606-623, 636-702).
THEOREM OneQueueOneTable == Spec => []TypeOK
<1>1. SwapInv => TypeOK
  BY SwapTypes
<1>2. QED
  BY SwapInvAlways, <1>1, PTL

\* The one first state the theorem leaves out, the old release's file next to a
\* backup of vLLM's own, is where swap_upgrade shows that the text is lost.
\* From any other, and for any number of calls and crashes, the patch keeps it
\* as long as no two calls are under way at once (block_level_swap.py:539, 632).
THEOREM PatchKeepsOriginal == ASSUME Harmless PROVE Spec => OriginalKept
<1>1. ASSUME SwapInv, [Next]_vars
      PROVE  [~overlapped' /\ "vanilla" \in {file, bak} => "vanilla" \in {file', bak'}]_<<file, bak>>
  <2> SUFFICES ASSUME ~overlapped', "vanilla" \in {file, bak}, ~ UNCHANGED <<file, bak>>
               PROVE  "vanilla" \in {file', bak'}
    OBVIOUS
  <2>1. CASE \E p \in Procs : Apply(p) \/ Crash(p)
    BY <1>1, <2>1, OriginalStays DEF SwapInv
  <2>2. CASE Reinstall
    BY <2>2 DEF Reinstall
  <2>3. QED
    BY <1>1, <2>1, <2>2 DEF Next, Launch, BeginInstall, EndInstall, PatchStep, Schedule, Request,
                            Apply, patchVars, vars
<1>2. QED
  BY SwapInvAlways, <1>1, PTL DEF Spec, OriginalKept

\* What ColdestIsVictim says of one step.
ColdestGivesUp ==
  loaded /\ scorer = 2 =>
    \A i, j \in 2 .. Len(todo) :
      table[todo[i]] # << >> /\ table'[todo[i]] = << >> => ~Below(Mean(todo[j]), Mean(todo[i]))

LEMMA StepColdest == ASSUME SwapInv, [Next]_vars PROVE [ColdestGivesUp]_victimVars
<1>1. CASE UNCHANGED <<todo, table>>
  BY <1>1 DEF ColdestGivesUp, SwapInv, VInv, Queues
<1>2. CASE EndPass \/ Admit \/ Arrive
  <2>1. Len(todo) = 0
    BY <1>2 DEF EndPass, Admit, Arrive
  <2>2. 2 .. Len(todo) = {}
    BY <2>1
  <2>3. QED
    BY <2>2 DEF ColdestGivesUp
<1>3. CASE Serve
  <2>1. /\ todo # << >> /\ table' = [table EXCEPT ![Head(todo)] = Append(@, NthFree(1))]
    BY <1>3 DEF Serve
  <2>2. \A i \in 2 .. Len(todo) : todo[i] \in Reqs /\ todo[i] # Head(todo)
    <3>1. Line(todo) /\ Len(todo) \in Nat /\ Head(todo) = todo[1]
      BY <2>1, LineSet DEF SwapInv, VInv, Queues, Line
    <3>2. QED
      BY <3>1 DEF Line, Once
  <2>3. \A i \in 2 .. Len(todo) : table'[todo[i]] = table[todo[i]]
    BY <2>1, <2>2 DEF SwapInv, VInv, Tables
  <2>4. QED
    BY <2>3 DEF ColdestGivesUp
<1>4. CASE Preempt
  <2>1. PICK v \in 1 .. Len(todo) - 1 :
          /\ table' = [table EXCEPT ![Tail(todo)[v]] = << >>]
          /\ loaded /\ scorer = 2 =>
               \A k \in 1 .. Len(todo) - 1 : ~Below(Mean(Tail(todo)[k]), Mean(Tail(todo)[v]))
    BY <1>4, PreemptIs DEF SwapInv
  <2>2. /\ Len(todo) \in Nat /\ todo \in Seq(Reqs)
        /\ \A k \in 1 .. Len(todo) - 1 : Tail(todo)[k] = todo[k + 1]
    BY <1>4, CandidatesAre, LineSet DEF SwapInv, Preempt, VInv, Queues, Line
  <2>3. ASSUME loaded, scorer = 2, NEW i \in 2 .. Len(todo), NEW j \in 2 .. Len(todo),
               table[todo[i]] # << >>, table'[todo[i]] = << >>
        PROVE  ~Below(Mean(todo[j]), Mean(todo[i]))
    <3>1. todo[i] \in Reqs
      BY <2>2
    <3>2. todo[i] = Tail(todo)[v]
      BY <2>1, <2>3, <3>1 DEF SwapInv, VInv, Tables
    <3>3. j - 1 \in 1 .. Len(todo) - 1 /\ (j - 1) + 1 = j
      BY <2>2
    <3>4. Tail(todo)[j - 1] = todo[j]
      BY <2>2, <3>3
    <3>5. QED
      BY <2>1, <2>3, <3>2, <3>3, <3>4
  <2>4. QED
    BY <2>3 DEF ColdestGivesUp
<1>5. CASE PreemptSelf
  <2>1. 2 .. Len(todo) = {}
    BY <1>5 DEF PreemptSelf
  <2>2. QED
    BY <2>1 DEF ColdestGivesUp
<1>6. QED
  BY <1>1, <1>2, <1>3, <1>4, <1>5
  DEF Next, Launch, BeginInstall, EndInstall, PatchStep, Schedule, Request, SchedStep,
      vars, victimVars, queueVars

\* Whatever ids the scores were kept under: when the block scorer has been
\* loaded, a request behind the head that loses its blocks had the least mean
\* importance of them all by the blocks it had (block_level_swap.py:240-273,
\* 332-346).
THEOREM ColdestLoses == Spec => ColdestIsVictim
<1>1. SwapInv /\ [Next]_vars => [ColdestGivesUp]_victimVars
  BY StepColdest
<1>2. Spec => [][ColdestGivesUp]_victimVars
  BY SwapInvAlways, <1>1, PTL DEF Spec
<1>3. QED
  BY <1>2 DEF ColdestIsVictim, ColdestGivesUp

-----------------------------------------------------------------------------
(* The attention hooks.                                                    *)

\* A module is wrapped once, if ever; of the modules that follow, and of those
\* whose forward runs, nothing was reported yet.
WrappedOnce == /\ installed => everInstalled
               /\ wraps = [m \in Modules |-> IF everInstalled THEN 1 ELSE 0]
InTurn == \A m \in Modules :
            /\ left[m] \in {0, 1} /\ reports[m] \in {0, 1}
            /\ m >= next => left[m] = 0 /\ reports[m] = 0
            /\ left[m] = 1 => reports[m] = 0
IInv == HooksTypeOK /\ WrappedOnce /\ InTurn

\* The parts of the types: the provers handle them best apart.
Flags == /\ installed \in BOOLEAN /\ everInstalled \in BOOLEAN /\ enabled \in BOOLEAN
         /\ broken \in BOOLEAN /\ steady \in BOOLEAN /\ split \in BOOLEAN
Numbers == /\ step \in Nat /\ sets \in Nat /\ interval \in Nat \ {0} /\ next \in 1 .. NModules + 1
PerModule == /\ wraps \in [Modules -> Nat] /\ reports \in [Modules -> Nat]
          /\ missed \in [Modules -> Nat] /\ left \in [Modules -> Nat]
Groups == accepts \subseteq Modules /\ asked \subseteq Modules /\ withheld \subseteq Modules
Parts == Flags /\ Numbers /\ PerModule /\ Groups

USE HooksConstantsOK DEF HooksConstantsOK

LEMMA TypeParts == HooksTypeOK <=> Parts
<1>1. HooksTypeOK => Parts
  BY DEF HooksTypeOK, Parts, Flags, Numbers, PerModule, Groups
<1>2. Parts => HooksTypeOK
  BY DEF HooksTypeOK, Parts, Flags, Numbers, PerModule, Groups
<1>3. QED
  BY <1>1, <1>2

LEMMA InitIInv == HooksInit => IInv
<1> SUFFICES ASSUME HooksInit PROVE IInv
  OBVIOUS
<1>1. interval \in Nat \ {0}
  BY DEF HooksInit, AtLeastOne
<1>2. HooksTypeOK
  <2>1. Flags
    BY DEF Flags, HooksInit
  <2>2. Numbers
    BY <1>1 DEF Numbers, HooksInit
  <2>3. PerModule /\ Groups
    BY DEF PerModule, Groups, HooksInit
  <2>4. QED
    BY <2>1, <2>2, <2>3, TypeParts DEF Parts
<1>3. WrappedOnce
  BY DEF HooksInit, WrappedOnce
<1>4. InTurn
  BY DEF HooksInit, InTurn
<1>5. QED
  BY <1>2, <1>3, <1>4 DEF IInv

\* Every step keeps the types, however often the hooks are installed.
LEMMA TypesKeep ==
  ASSUME HooksTypeOK, [HooksNext]_hookVars PROVE HooksTypeOK'
<1> SUFFICES Flags' /\ Numbers' /\ PerModule' /\ Groups'
  BY TypeParts DEF HooksTypeOK, Parts, Flags, Numbers, PerModule, Groups
<1>0. Flags /\ Numbers /\ PerModule /\ Groups
  BY TypeParts DEF Parts
<1>f. ASSUME Forget
      PROVE  /\ missed' \in [Modules -> Nat] /\ steady' \in BOOLEAN /\ split' \in BOOLEAN
             /\ withheld' = withheld
  BY <1>f DEF Forget, Between
<1>1. CASE SetEnabled
  <2>1. /\ UNCHANGED <<installed, everInstalled, wraps, step, interval>>
        /\ UNCHANGED <<accepts, next, left, asked, broken, reports>>
        /\ enabled' = ~enabled /\ sets' = sets + 1 /\ Forget
    BY <1>1 DEF SetEnabled, managerVars, decodeVars
  <2>2. Flags'
    BY <1>0, <1>f, <2>1 DEF Flags
  <2>3. Numbers'
    BY <1>0, <2>1 DEF Numbers
  <2>4. PerModule' /\ Groups'
    BY <1>0, <1>f, <2>1 DEF PerModule, Groups
  <2>5. QED
    BY <2>2, <2>3, <2>4
<1>2. CASE SetInterval
  <2>1. interval' \in Nat \ {0}
    BY <1>2 DEF SetInterval, AtLeastOne
  <2>2. /\ UNCHANGED <<installed, everInstalled, wraps, step, enabled>>
        /\ UNCHANGED <<accepts, next, left, asked, broken, reports>>
        /\ sets' = sets + 1 /\ Forget
    BY <1>2 DEF SetInterval, managerVars, decodeVars
  <2>3. Flags'
    BY <1>0, <1>f, <2>2 DEF Flags
  <2>4. Numbers'
    BY <1>0, <2>1, <2>2 DEF Numbers
  <2>5. PerModule' /\ Groups'
    BY <1>0, <1>f, <2>2 DEF PerModule, Groups
  <2>6. QED
    BY <2>3, <2>4, <2>5
<1>3. CASE Install
  <2>1. /\ UNCHANGED <<step, interval, enabled, accepts, next, left, asked, broken, reports>>
        /\ installed' = TRUE /\ everInstalled' = TRUE /\ sets' = sets + 1 /\ Forget
        /\ wraps' = [m \in Modules |-> wraps[m] + 1]
    BY <1>3 DEF Install, settings, decodeVars
  <2>2. Flags'
    BY <1>0, <1>f, <2>1 DEF Flags
  <2>3. Numbers'
    BY <1>0, <2>1 DEF Numbers
  <2>4. PerModule' /\ Groups'
    BY <1>0, <1>f, <2>1 DEF PerModule, Groups
  <2>5. QED
    BY <2>2, <2>3, <2>4
<1>4. CASE Uninstall
  <2>1. /\ UNCHANGED <<everInstalled, wraps, step, interval, enabled, accepts, next, left>>
        /\ UNCHANGED <<asked, broken, reports, withheld, missed, steady, split>>
        /\ installed' = FALSE /\ sets' = sets + 1
    BY <1>4 DEF Uninstall, settings, decodeVars, stepHistory
  <2>2. Flags' /\ Numbers'
    <3>1. Flags'
      BY <1>0, <2>1 DEF Flags
    <3>2. Numbers'
      BY <1>0, <2>1 DEF Numbers
    <3>3. QED
      BY <3>1, <3>2
  <2>3. PerModule' /\ Groups'
    BY <1>0, <2>1 DEF PerModule, Groups
  <2>4. QED
    BY <2>2, <2>3
<1>5. CASE Call
  <2>1. /\ UNCHANGED <<installed, everInstalled, wraps, step, interval, enabled, accepts>>
        /\ UNCHANGED <<broken, reports, sets, withheld, missed, steady, split>>
        /\ next <= NModules /\ next' = next + 1
        /\ left' = [left EXCEPT ![next] = wraps[next]]
        /\ asked' = asked \/ asked' = asked \cup {next}
    BY <1>5 DEF Call, Comes, managerVars, settings, stepHistory
  <2>2. next \in Modules
    BY <1>0, <2>1 DEF Numbers, Modules
  <2>3. Flags' /\ Numbers'
    <3>1. Flags'
      BY <1>0, <2>1 DEF Flags
    <3>2. Numbers'
      BY <1>0, <2>1 DEF Numbers
    <3>3. QED
      BY <3>1, <3>2
  <2>4. PerModule' /\ Groups'
    BY <1>0, <2>1, <2>2 DEF PerModule, Groups
  <2>5. QED
    BY <2>3, <2>4
<1>6. CASE Raise
  <2>1. /\ UNCHANGED <<installed, everInstalled, wraps, step, interval, enabled, accepts>>
        /\ UNCHANGED <<next, asked, reports, sets, withheld, missed, steady, split>>
        /\ broken' = TRUE /\ left' = [m \in Modules |-> 0]
    BY <1>6 DEF Raise, managerVars, settings, stepHistory
  <2>2. Flags' /\ Numbers'
    <3>1. Flags'
      BY <1>0, <2>1 DEF Flags
    <3>2. Numbers'
      BY <1>0, <2>1 DEF Numbers
    <3>3. QED
      BY <3>1, <3>2
  <2>3. PerModule' /\ Groups'
    BY <1>0, <2>1 DEF PerModule, Groups
  <2>4. QED
    BY <2>2, <2>3
<1>7. ASSUME NEW m \in Modules, Return(m) PROVE Flags' /\ Numbers' /\ PerModule' /\ Groups'
  <2>1. /\ UNCHANGED <<installed, everInstalled, wraps, step, interval, enabled, accepts>>
        /\ UNCHANGED <<next, asked, broken, sets, missed, steady, split>>
        /\ left[m] > 0 /\ left' = [left EXCEPT ![m] = @ - 1]
        /\ reports' = reports \/ reports' = [reports EXCEPT ![m] = @ + 1]
        /\ withheld' = withheld \/ withheld' = withheld \cup {m}
    BY <1>7 DEF Return, Entered, managerVars, settings
  <2>2. Flags' /\ Numbers'
    <3>1. Flags'
      BY <1>0, <2>1 DEF Flags
    <3>2. Numbers'
      BY <1>0, <2>1 DEF Numbers
    <3>3. QED
      BY <3>1, <3>2
  <2>3. PerModule' /\ Groups'
    BY <1>0, <2>1 DEF PerModule, Groups
  <2>4. QED
    BY <2>2, <2>3
<1>8. CASE Plain
  <2>1. /\ UNCHANGED <<installed, everInstalled, wraps, step, interval, enabled, accepts>>
        /\ UNCHANGED <<left, asked, broken, reports, sets, withheld, missed, steady, split>>
        /\ next <= NModules /\ next' = next + 1
    BY <1>8 DEF Plain, Comes, managerVars, settings, stepHistory
  <2>2. Flags' /\ Numbers'
    <3>1. Flags'
      BY <1>0, <2>1 DEF Flags
    <3>2. Numbers'
      BY <1>0, <2>1 DEF Numbers
    <3>3. QED
      BY <3>1, <3>2
  <2>3. PerModule' /\ Groups'
    BY <1>0, <2>1 DEF PerModule, Groups
  <2>4. QED
    BY <2>2, <2>3
<1>9. CASE OnStepDone
  <2>1. /\ UNCHANGED <<installed, everInstalled, wraps, interval, enabled, accepts>>
        /\ UNCHANGED <<left, broken, sets, split>>
        /\ step' = step + 1 /\ next' = 1 /\ asked' = {} /\ withheld' = {} /\ steady' = TRUE
        /\ reports' = [m \in Modules |-> 0]
    BY <1>9 DEF OnStepDone, managerVars
  <2>2. missed' \in [Modules -> Nat]
    BY <1>0, <1>9 DEF OnStepDone, PerModule
  <2>3. Flags' /\ Numbers'
    <3>1. Flags'
      BY <1>0, <2>1 DEF Flags
    <3>2. Numbers'
      BY <1>0, <2>1 DEF Numbers
    <3>3. QED
      BY <3>1, <3>2
  <2>4. PerModule' /\ Groups'
    BY <1>0, <2>1, <2>2 DEF PerModule, Groups
  <2>5. QED
    BY <2>3, <2>4
<1>10. CASE UNCHANGED hookVars
  <2>1. Flags' /\ Numbers'
    <3>1. Flags'
      BY <1>0, <1>10 DEF hookVars, managerVars, settings, decodeVars, stepHistory, Flags
    <3>2. Numbers'
      BY <1>0, <1>10 DEF hookVars, managerVars, settings, decodeVars, Numbers
    <3>3. QED
      BY <3>1, <3>2
  <2>2. PerModule' /\ Groups'
    BY <1>0, <1>10 DEF hookVars, managerVars, settings, decodeVars, stepHistory, PerModule, Groups
  <2>3. QED
    BY <2>1, <2>2
<1>11. QED
  BY <1>1, <1>2, <1>3, <1>4, <1>5, <1>6, <1>7, <1>8, <1>9, <1>10 DEF HooksNext

LEMMA IInvTypes == ASSUME IInv, [HooksNext]_hookVars PROVE HooksTypeOK'
BY TypesKeep DEF IInv

\* The steps of the other thread touch neither wrappers nor reports.
LEMMA SettingsKeep ==
  ASSUME IInv, SetEnabled \/ SetInterval PROVE IInv'
<1>1. UNCHANGED <<installed, everInstalled, wraps, next, left, reports>>
  BY DEF SetEnabled, SetInterval, managerVars, decodeVars
<1>2. HooksTypeOK'
  BY IInvTypes DEF HooksNext
<1>3. WrappedOnce' /\ InTurn'
  BY <1>1 DEF IInv, WrappedOnce, InTurn
<1>4. QED
  BY <1>2, <1>3 DEF IInv

\* Without reinstalls the hooks are installed only where there is no wrapper.
LEMMA HookingKeeps ==
  ASSUME ~Reinstalls, IInv, Install \/ Uninstall PROVE IInv'
<1>0. HooksTypeOK'
  BY IInvTypes DEF HooksNext
<1>1. CASE Install
  <2>1. ~everInstalled
    BY <1>1 DEF Install, MayWrap, IInv, WrappedOnce
  <2>2. wraps' = [m \in Modules |-> 1] /\ installed' = TRUE /\ everInstalled' = TRUE
    BY <1>1, <2>1 DEF Install, IInv, WrappedOnce
  <2>3. UNCHANGED <<next, left, reports>>
    BY <1>1 DEF Install, decodeVars
  <2>4. WrappedOnce' /\ InTurn'
    BY <2>2, <2>3 DEF IInv, WrappedOnce, InTurn
  <2>5. QED
    BY <1>0, <2>4 DEF IInv
<1>2. CASE Uninstall
  <2>1. /\ UNCHANGED <<everInstalled, wraps, next, left, reports>>
        /\ installed' = FALSE
    BY <1>2 DEF Uninstall, decodeVars
  <2>2. WrappedOnce' /\ InTurn'
    BY <2>1 DEF IInv, WrappedOnce, InTurn
  <2>3. QED
    BY <1>0, <2>2 DEF IInv
<1>3. QED
  BY <1>1, <1>2

\* A forward is entered once a step, its one wrapper returns once, and the module
\* that comes next has reported nothing.
LEMMA DecodeKeeps ==
  ASSUME IInv, Call \/ Raise \/ (\E m \in Modules : Return(m)) \/ Plain \/ OnStepDone
  PROVE  IInv'
<1>0. HooksTypeOK'
  BY IInvTypes DEF HooksNext
<1>t. /\ left \in [Modules -> Nat] /\ reports \in [Modules -> Nat] /\ next \in 1 .. NModules + 1
      /\ \A m \in Modules : m \in Nat
  <2>1. Numbers /\ PerModule
    BY TypeParts DEF IInv, Parts
  <2>2. \A m \in Modules : m \in Nat
    BY DEF Modules
  <2>3. QED
    BY <2>1, <2>2 DEF Numbers, PerModule
<1>1. CASE Call
  <2>1. /\ UNCHANGED <<installed, everInstalled, wraps, reports>>
        /\ next <= NModules /\ next' = next + 1
        /\ left' = [left EXCEPT ![next] = wraps[next]]
    BY <1>1 DEF Call, Comes, managerVars
  <2>2. next \in Modules /\ wraps[next] \in {0, 1}
    BY <1>t, <2>1 DEF IInv, WrappedOnce, Modules
  <2>3. InTurn'
    BY <1>t, <2>1, <2>2 DEF IInv, InTurn
  <2>4. QED
    BY <1>0, <2>1, <2>3 DEF IInv, WrappedOnce
<1>2. CASE Raise
  <2>1. /\ UNCHANGED <<installed, everInstalled, wraps, next, reports>>
        /\ left' = [m \in Modules |-> 0]
    BY <1>2 DEF Raise, managerVars
  <2>2. InTurn'
    BY <2>1 DEF IInv, InTurn
  <2>3. QED
    BY <1>0, <2>1, <2>2 DEF IInv, WrappedOnce
<1>3. ASSUME NEW m \in Modules, Return(m) PROVE IInv'
  <2>1. /\ UNCHANGED <<installed, everInstalled, wraps, next>>
        /\ left[m] > 0 /\ left' = [left EXCEPT ![m] = @ - 1]
        /\ reports' = reports \/ reports' = [reports EXCEPT ![m] = @ + 1]
    BY <1>3 DEF Return, Entered, managerVars
  <2>2. left[m] = 1 /\ reports[m] = 0 /\ ~ (m >= next)
    BY <2>1 DEF IInv, InTurn
  <2>3. left' = [left EXCEPT ![m] = 0]
        /\ (reports' = reports \/ reports' = [reports EXCEPT ![m] = 1])
    BY <2>1, <2>2
  <2>4. InTurn'
    BY <1>t, <2>1, <2>2, <2>3 DEF IInv, InTurn
  <2>5. QED
    BY <1>0, <2>1, <2>4 DEF IInv, WrappedOnce
<1>4. CASE Plain
  <2>1. /\ UNCHANGED <<installed, everInstalled, wraps, left, reports>>
        /\ next' = next + 1
    BY <1>4 DEF Plain, managerVars
  <2>2. InTurn'
    BY <1>t, <2>1 DEF IInv, InTurn
  <2>3. QED
    BY <1>0, <2>1, <2>2 DEF IInv, WrappedOnce
<1>5. CASE OnStepDone
  <2>1. /\ UNCHANGED <<installed, everInstalled, wraps, left>>
        /\ Entered = {} /\ reports' = [m \in Modules |-> 0]
    BY <1>5 DEF OnStepDone, managerVars
  <2>2. \A m \in Modules : left[m] = 0
    BY <1>t, <2>1 DEF Entered
  <2>3. InTurn'
    BY <2>1, <2>2 DEF InTurn
  <2>4. QED
    BY <1>0, <2>1, <2>3 DEF IInv, WrappedOnce
<1>6. QED
  BY <1>1, <1>2, <1>3, <1>4, <1>5

LEMMA NextIInv ==
  ASSUME ~Reinstalls, IInv, [HooksNext]_hookVars PROVE IInv'
<1>1. CASE HooksNext
  BY <1>1, SettingsKeep, HookingKeeps, DecodeKeeps DEF HooksNext
<1>2. CASE UNCHANGED hookVars
  <2>1. HooksTypeOK'
    BY IInvTypes
  <2>2. WrappedOnce' /\ InTurn'
    BY <1>2 DEF hookVars, managerVars, decodeVars, IInv, WrappedOnce, InTurn
  <2>3. QED
    BY <2>1, <2>2 DEF IInv
<1>3. QED
  BY <1>1, <1>2

\* As long as nobody reinstalls, every variable keeps its type and no module is
\* reported twice in a step, however the modules lie in each other and the settings
\* change meanwhile (attention_hook.py:83-116, 247-302).
THEOREM ReportedOnce ==
  ASSUME ~Reinstalls PROVE HooksSpec => [](HooksTypeOK /\ OncePerStep)
<1>1. IInv => HooksTypeOK /\ OncePerStep
  BY DEF IInv, InTurn, OncePerStep
<1>2. IInv /\ [HooksNext]_hookVars => IInv'
  BY NextIInv
<1>3. QED
  BY InitIInv, <1>1, <1>2, PTL DEF HooksSpec

\* A number has one quotient and one remainder.
LEMMA OneDivision ==
  ASSUME NEW n \in Nat \ {0}, NEW a \in Nat, NEW c \in Nat,
         NEW b \in 0 .. n - 1, NEW d \in 0 .. n - 1, a * n + b = c * n + d
  PROVE  a = c /\ b = d
<1>1. ASSUME NEW x \in Nat, NEW y \in Nat, x < y PROVE x * n + n <= y * n
  <2>1. PICK z \in Nat : y = x + 1 + z
    BY <1>1, y = x + 1 + (y - x - 1)
  <2>2. y * n = x * n + n + z * n /\ z * n \in Nat
    BY <2>1
  <2>3. x * n \in Nat /\ y * n \in Nat
    OBVIOUS
  <2>4. QED
    BY <2>2, <2>3
<1>2. a * n \in Nat /\ c * n \in Nat
  OBVIOUS
<1>3. ~(a < c)
  <2> SUFFICES ASSUME a < c PROVE FALSE
    OBVIOUS
  <2>1. a * n + n <= c * n
    BY <1>1
  <2>2. QED
    BY <2>1, <1>2
<1>4. ~(c < a)
  <2> SUFFICES ASSUME c < a PROVE FALSE
    OBVIOUS
  <2>1. c * n + n <= a * n
    BY <1>1
  <2>2. QED
    BY <2>1, <1>2
<1>5. a = c
  BY <1>3, <1>4
<1>6. QED
  BY <1>5, <1>2

\* The ids _report_scores makes up are those of different (layer, head, block)
\* triples exactly when the triples differ, for any numbers of heads and blocks
\* that stay the same: a step never gives two blocks one id
\* (attention_hook.py:176).
THEOREM BlockIdsDistinct ==
  ASSUME NEW nHeads \in Nat \ {0}, NEW nBlocks \in Nat \ {0},
         NEW l \in Nat, NEW h \in 0 .. nHeads - 1, NEW b \in 0 .. nBlocks - 1,
         NEW m \in Nat, NEW g \in 0 .. nHeads - 1, NEW c \in 0 .. nBlocks - 1,
         BlockId(l, h, b, nHeads, nBlocks) = BlockId(m, g, c, nHeads, nBlocks)
  PROVE  l = m /\ h = g /\ b = c
<1>1. /\ l * nHeads + h \in Nat /\ m * nHeads + g \in Nat
      /\ (l * nHeads + h) * nBlocks + b = (m * nHeads + g) * nBlocks + c
  BY DEF BlockId
<1>2. l * nHeads + h = m * nHeads + g /\ b = c
  BY <1>1, OneDivision
<1>3. QED
  BY <1>2, OneDivision

-----------------------------------------------------------------------------
(* Sampling in time.                                                       *)

\* The steps since the last sampling step, at the start of step s.
Since(s, k) == IF s = 0 THEN 0 ELSE (s - 1) % k

LEMMA SinceGrows ==
  ASSUME NEW s \in Nat, NEW k \in Nat \ {0}
  PROVE  /\ Since(s, k) \in 0 .. k - 1
         /\ ~ Hit(s, k) => Since(s + 1, k) = Since(s, k) + 1
<1>1. \A n \in Nat : n = (n \div k) * k + (n % k) /\ n % k \in 0 .. k - 1 /\ n \div k \in Nat
  OBVIOUS
<1>2. Since(s, k) \in 0 .. k - 1
  <2>1. CASE s = 0
    BY <2>1 DEF Since
  <2>2. CASE s # 0
    <3>1. s - 1 \in Nat
      BY <2>2
    <3>2. QED
      BY <1>1, <2>2, <3>1 DEF Since
  <2>3. QED
    BY <2>1, <2>2
<1>3. ASSUME ~ Hit(s, k) PROVE Since(s + 1, k) = Since(s, k) + 1
  <2>1. PICK q \in Nat, r \in 0 .. k - 1 : s = q * k + r /\ r = s % k
    BY <1>1
  <2>2. r # 0
    BY <1>3, <2>1 DEF Hit
  <2>3. s # 0
    <3>1. SUFFICES ASSUME s = 0 PROVE FALSE
      OBVIOUS
    <3>2. q * k \in Nat
      OBVIOUS
    <3>3. QED
      BY <2>1, <2>2, <3>1, <3>2
  <2>4. PICK p \in Nat, t \in 0 .. k - 1 : s - 1 = p * k + t /\ t = (s - 1) % k
    <3>1. s - 1 \in Nat
      BY <2>3
    <3>2. QED
      BY <1>1, <3>1
  <2>5. PICK u \in 0 .. k - 1 : u = r - 1
    BY <2>2
  <2>6. q * k \in Nat /\ p * k \in Nat
    OBVIOUS
  <2>7. q * k + u = p * k + t
    BY <2>1, <2>4, <2>5, <2>6
  <2>8. u = t
    BY <2>7, OneDivision
  <2>9. Since(s + 1, k) = r /\ Since(s, k) = t
    <3>1. s + 1 # 0 /\ (s + 1) - 1 = s
      OBVIOUS
    <3>2. QED
      BY <2>1, <2>3, <2>4, <3>1 DEF Since
  <2>10. QED
    BY <2>5, <2>8, <2>9
<1>4. QED
  BY <1>2, <1>3

LEMMA HitRestarts ==
  ASSUME NEW s \in Nat, NEW k \in Nat \ {0} PROVE Since(s, k) \in Nat /\ 0 <= Since(s, k)
BY SinceGrows

\* In a sampling step during which hooks and settings stay, every forward that
\* runs was asked for its weights, and every hooked module that has returned gave
\* none or has reported.  A module has missed no more steps than there were since
\* the last sampling step, and the one in which something changed.
AskedFor  == steady /\ ShouldSample => Entered \subseteq asked
Reported  == steady /\ ShouldSample /\ ~broken =>
               \A m \in Modules : m < next /\ wraps[m] > 0 /\ left[m] = 0 =>
                 reports[m] > 0 \/ m \in withheld
Allowed   == IF split THEN 1 ELSE 0
MissedFew == \A m \in Modules : missed[m] <= Since(step, interval) + Allowed
\* The step in which something changed is not over, nor is one that raised.
Unsettled == ~steady => split /\ \A m \in Modules : missed[m] = 0
Stopped   == broken => next <= NModules
SInv == HooksTypeOK /\ AskedFor /\ Reported /\ MissedFew /\ Unsettled /\ Stopped

LEMMA AllowedIs == Allowed \in {0, 1} /\ (split => Allowed = 1)
BY DEF Allowed

LEMMA InitSInv == ASSUME HooksInit PROVE SInv
<1>1. HooksTypeOK
  BY InitIInv DEF IInv
<1>2. \A m \in Modules : missed[m] = 0
  BY DEF HooksInit
<1>3. Since(step, interval) \in Nat
  BY <1>1, HitRestarts DEF HooksTypeOK
<1>4. MissedFew
  BY <1>2, <1>3, AllowedIs DEF MissedFew
<1>5. AskedFor
  BY DEF HooksInit, AskedFor, Entered
<1>6. Reported
  BY DEF HooksInit, Reported, Modules
<1>7. Unsettled /\ Stopped
  BY DEF HooksInit, Unsettled, Stopped
<1>8. QED
  BY <1>1, <1>4, <1>5, <1>6, <1>7 DEF SInv

\* A step that changes hooks or settings starts the count afresh: between two
\* decode steps with nothing asked yet, inside one with that one left out.
LEMMA ForgetKeeps ==
  ASSUME SInv, HooksTypeOK', Forget, UNCHANGED <<next, left, broken>> PROVE SInv'
<1>1. Since(step, interval)' \in Nat
  BY HitRestarts DEF HooksTypeOK
<1>2. \A m \in Modules : missed'[m] = 0
  BY DEF Forget
<1>3. MissedFew'
  <2>1. Allowed' \in {0, 1}
    BY AllowedIs DEF Allowed
  <2>2. QED
    BY <1>1, <1>2, <2>1 DEF MissedFew
<1>4. CASE Between
  <2>1. next' = 1 /\ Entered' = {}
    BY <1>4 DEF Between, Entered
  <2>2. AskedFor' /\ Reported'
    BY <2>1 DEF AskedFor, Reported, Modules
  <2>3. Unsettled' /\ Stopped'
    BY <1>4 DEF Forget, Unsettled, Stopped, SInv
  <2>4. QED
    BY <1>3, <2>2, <2>3 DEF SInv
<1>5. CASE ~Between
  <2>1. ~steady' /\ split'
    BY <1>5 DEF Forget
  <2>2. AskedFor' /\ Reported'
    BY <2>1 DEF AskedFor, Reported
  <2>3. Unsettled' /\ Stopped'
    BY <1>2, <2>1 DEF Unsettled, Stopped, SInv
  <2>4. QED
    BY <1>3, <2>2, <2>3 DEF SInv
<1>6. QED
  BY <1>4, <1>5

\* What is asked of a call, a return and a module that is not hooked.
LEMMA DecodeSamples ==
  ASSUME SInv, Call \/ Raise \/ (\E m \in Modules : Return(m)) \/ Plain
  PROVE  AskedFor' /\ Reported' /\ Stopped'
<1>t. /\ left \in [Modules -> Nat] /\ reports \in [Modules -> Nat] /\ wraps \in [Modules -> Nat]
      /\ next \in 1 .. NModules + 1 /\ \A m \in Modules : m \in Nat
  <2>1. Numbers /\ PerModule
    BY TypeParts DEF SInv, Parts
  <2>2. \A m \in Modules : m \in Nat
    BY DEF Modules
  <2>3. QED
    BY <2>1, <2>2 DEF Numbers, PerModule
<1>1. CASE Call
  <2>1. /\ UNCHANGED <<wraps, step, interval, enabled, reports, withheld, steady, broken>>
        /\ next <= NModules /\ next' = next + 1 /\ ~broken /\ wraps[next] > 0
        /\ left' = [left EXCEPT ![next] = wraps[next]]
        /\ ShouldSample => asked' = asked \cup {next}
    BY <1>1 DEF Call, Comes, managerVars, settings, stepHistory
  <2>2. ShouldSample' = ShouldSample
    BY <2>1 DEF ShouldSample
  <2>3. Entered' \subseteq Entered \cup {next}
    BY <1>t, <2>1 DEF Entered
  <2>4. AskedFor'
    BY <2>1, <2>2, <2>3 DEF SInv, AskedFor
  <2>5. next \in Modules
    BY <1>t, <2>1 DEF Modules
  <2>6. \A m \in Modules : m < next' /\ left'[m] = 0 => m < next /\ left[m] = 0
    BY <1>t, <2>1, <2>5
  <2>7. Reported'
    BY <2>1, <2>2, <2>6 DEF SInv, Reported
  <2>8. QED
    BY <2>1, <2>4, <2>7 DEF Stopped
<1>2. CASE Raise
  <2>1. next <= NModules /\ next' = next /\ broken' /\ \A m \in Modules : left'[m] = 0
    BY <1>2 DEF Raise, Comes
  <2>2. Entered' = {}
    BY <2>1 DEF Entered
  <2>3. QED
    BY <2>1, <2>2 DEF AskedFor, Reported, Stopped
<1>3. ASSUME NEW n \in Modules, Return(n) PROVE AskedFor' /\ Reported' /\ Stopped'
  <2>1. /\ UNCHANGED <<wraps, step, interval, enabled, next, asked, steady, broken>>
        /\ left[n] > 0 /\ left' = [left EXCEPT ![n] = @ - 1]
    BY <1>3 DEF Return, Entered, managerVars, settings
  <2>2. PICK weights \in BOOLEAN :
          /\ reports' = IF ShouldSample /\ weights THEN [reports EXCEPT ![n] = @ + 1] ELSE reports
          /\ withheld' = IF n \in asked /\ ~weights THEN withheld \cup {n} ELSE withheld
    BY <1>3 DEF Return
  <2>3. ShouldSample' = ShouldSample
    BY <2>1 DEF ShouldSample
  <2>4. Entered' \subseteq Entered
    BY <1>t, <2>1 DEF Entered
  <2>5. AskedFor'
    BY <2>1, <2>3, <2>4 DEF SInv, AskedFor
  <2>6. ASSUME steady, ShouldSample, ~broken, NEW m \in Modules, m < next, wraps[m] > 0, left'[m] = 0
        PROVE  reports'[m] > 0 \/ m \in withheld'
    <3>1. n \in asked
      BY <2>1, <2>6 DEF SInv, AskedFor, Entered
    <3>2. CASE m = n /\ weights
      BY <1>t, <2>2, <2>6, <3>2
    <3>3. CASE m = n /\ ~weights
      BY <2>2, <3>1, <3>3
    <3>4. CASE m # n
      <4>1. left[m] = 0
        BY <1>t, <2>1, <2>6, <3>4
      <4>2. reports[m] > 0 \/ m \in withheld
        BY <2>6, <4>1 DEF SInv, Reported
      <4>3. QED
        BY <1>t, <2>2, <3>4, <4>2
    <3>5. QED
      BY <3>2, <3>3, <3>4
  <2>7. Reported'
    BY <2>1, <2>3, <2>6 DEF Reported
  <2>8. QED
    BY <2>1, <2>5, <2>7 DEF SInv, Stopped
<1>4. CASE Plain
  <2>1. /\ UNCHANGED <<wraps, step, interval, enabled, left, asked, reports, withheld, steady, broken>>
        /\ wraps[next] = 0 /\ next' = next + 1 /\ ~broken
    BY <1>4 DEF Plain, Comes, managerVars, settings, stepHistory
  <2>2. ShouldSample' = ShouldSample
    BY <2>1 DEF ShouldSample
  <2>3. AskedFor'
    BY <2>1, <2>2 DEF SInv, AskedFor, Entered
  <2>4. \A m \in Modules : m < next' /\ wraps[m] > 0 => m < next
    BY <1>t, <2>1
  <2>5. Reported'
    BY <2>1, <2>2, <2>4 DEF SInv, Reported
  <2>6. QED
    BY <2>1, <2>3, <2>5 DEF Stopped
<1>5. QED
  BY <1>1, <1>2, <1>3, <1>4

\* A decode step ends: if it was a sampling step, the count starts again.
LEMMA DoneSamples ==
  ASSUME SInv, OnStepDone PROVE MissedFew'
<1>1. /\ UNCHANGED <<wraps, interval, enabled, left, split>>
      /\ next = NModules + 1 /\ step' = step + 1 /\ Entered = {}
  BY DEF OnStepDone, managerVars
<1>2. /\ step \in Nat /\ interval \in Nat \ {0} /\ wraps \in [Modules -> Nat]
      /\ left \in [Modules -> Nat] /\ missed \in [Modules -> Nat]
  BY TypeParts DEF SInv, Parts, Numbers, PerModule
<1>3. Since(step, interval)' = Since(step + 1, interval) /\ Allowed' = Allowed
  BY <1>1 DEF Allowed
<1>4. Since(step + 1, interval) \in Nat /\ Since(step, interval) \in Nat
  <2>1. step + 1 \in Nat
    BY <1>2
  <2>2. QED
    BY <1>2, <2>1, HitRestarts
<1>5. ASSUME NEW m \in Modules PROVE missed'[m] <= Since(step + 1, interval) + Allowed
  <2>1. missed'[m] = IF reports[m] > 0 \/ wraps[m] = 0 \/ ~enabled \/ m \in withheld
                     THEN 0 ELSE missed[m] + 1
    BY <1>5 DEF OnStepDone
  <2>2. CASE reports[m] > 0 \/ wraps[m] = 0 \/ ~enabled \/ m \in withheld
    BY <1>4, <2>1, <2>2, AllowedIs
  <2>3. CASE ~ (reports[m] > 0 \/ wraps[m] = 0 \/ ~enabled \/ m \in withheld)
    <3>0. missed'[m] = missed[m] + 1
      BY <2>1, <2>3
    <3>1. CASE ~steady
      <4>1. missed[m] = 0 /\ Allowed = 1
        BY <3>1, AllowedIs DEF SInv, Unsettled
      <4>2. QED
        BY <1>4, <3>0, <4>1
    <3>2. CASE steady
      <4>1. wraps[m] > 0 /\ left[m] = 0 /\ m < next
        <5>1. m \in 1 .. NModules
          BY <1>5 DEF Modules
        <5>2. ~ (left[m] > 0)
          BY <1>1, <1>5 DEF Entered
        <5>3. QED
          BY <1>1, <1>2, <2>3, <5>1, <5>2
      <4>2. ~broken
        BY <1>1 DEF SInv, Stopped
      <4>3. ~ ShouldSample
        BY <2>3, <3>2, <4>1, <4>2 DEF SInv, Reported
      <4>4. ~ Hit(step, interval)
        BY <2>3, <4>3 DEF ShouldSample
      <4>5. Since(step + 1, interval) = Since(step, interval) + 1
        BY <1>2, <4>4, SinceGrows
      <4>6. missed[m] \in Nat /\ missed[m] <= Since(step, interval) + Allowed
        BY <1>2 DEF SInv, MissedFew
      <4>7. QED
        BY <1>4, <3>0, <4>5, <4>6, AllowedIs
    <3>3. QED
      BY <3>1, <3>2
  <2>4. QED
    BY <2>2, <2>3
<1>6. QED
  BY <1>3, <1>5 DEF MissedFew

LEMMA StepSInv == ASSUME SInv, [HooksNext]_hookVars PROVE SInv'
<1>1. HooksTypeOK'
  BY TypesKeep DEF SInv
<1>2. CASE SetEnabled \/ SetInterval \/ Install
  <2>1. Forget /\ UNCHANGED <<next, left, broken>>
    BY <1>2 DEF SetEnabled, SetInterval, Install, decodeVars
  <2>2. QED
    BY <1>1, <2>1, ForgetKeeps
<1>3. CASE Uninstall \/ UNCHANGED hookVars
  <2>1. /\ UNCHANGED <<wraps, step, interval, enabled, next, left, asked, broken>>
        /\ UNCHANGED <<reports, withheld, missed, steady, split>>
    BY <1>3 DEF Uninstall, hookVars, managerVars, settings, decodeVars, stepHistory
  <2>2. ShouldSample' = ShouldSample /\ Entered' = Entered /\ Allowed' = Allowed
    BY <2>1 DEF ShouldSample, Entered, Allowed
  <2>3. AskedFor' /\ Reported'
    BY <2>1, <2>2 DEF SInv, AskedFor, Reported
  <2>4. MissedFew' /\ Unsettled' /\ Stopped'
    BY <2>1, <2>2 DEF SInv, MissedFew, Unsettled, Stopped
  <2>5. QED
    BY <1>1, <2>3, <2>4 DEF SInv
<1>4. CASE Call \/ Raise \/ (\E m \in Modules : Return(m)) \/ Plain
  <2>1. UNCHANGED <<step, interval, missed, steady, split>>
    BY <1>4 DEF Call, Raise, Return, Plain, settings, stepHistory
  <2>2. MissedFew' /\ Unsettled'
    BY <2>1 DEF SInv, MissedFew, Unsettled, Allowed
  <2>3. QED
    BY <1>1, <1>4, <2>2, DecodeSamples DEF SInv
<1>5. CASE OnStepDone
  <2>1. next' = 1 /\ steady' = TRUE /\ UNCHANGED <<left, broken>> /\ Entered = {}
        /\ next = NModules + 1
    BY <1>5 DEF OnStepDone
  <2>2. AskedFor' /\ Reported'
    BY <2>1 DEF AskedFor, Reported, Entered, Modules
  <2>3. Unsettled' /\ Stopped'
    BY <2>1 DEF SInv, Unsettled, Stopped
  <2>4. QED
    BY <1>1, <1>5, <2>2, <2>3, DoneSamples DEF SInv
<1>6. QED
  BY <1>2, <1>3, <1>4, <1>5 DEF HooksNext

LEMMA SInvInTime == ASSUME SInv PROVE SampledInTime
<1>1. interval \in Nat \ {0} /\ step \in Nat /\ missed \in [Modules -> Nat]
  BY TypeParts DEF SInv, Parts, Numbers, PerModule
<1>2. Since(step, interval) \in 0 .. interval - 1
  BY <1>1, SinceGrows
<1>3. \A m \in Modules : missed[m] <= Since(step, interval) + Allowed
  BY DEF SInv, MissedFew
<1>4. \A m \in Modules : missed[m] < interval + Allowed
  BY <1>1, <1>2, <1>3, AllowedIs
<1>5. QED
  BY <1>4 DEF SampledInTime, Allowed

\* However often the hooks are installed again, the settings changed and a forward
\* gives no weights: a hooked module that gives them when it is asked does not go
\* interval steps without its scores reported, or one more if a step was split by a
\* change (attention_hook.py:77-81, 186-201, 285-302), and every variable keeps its
\* type.
THEOREM NeverStarved == HooksSpec => [](HooksTypeOK /\ SampledInTime)
<1>1. HooksInit => SInv
  BY InitSInv
<1>2. SInv /\ [HooksNext]_hookVars => SInv'
  BY StepSInv
<1>3. SInv => HooksTypeOK /\ SampledInTime
  BY SInvInTime DEF SInv
<1>4. QED
  BY <1>1, <1>2, <1>3, PTL DEF HooksSpec
=============================================================================
