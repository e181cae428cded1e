-------------------------- MODULE AddressMapProof --------------------------
(***************************************************************************)
(* For any set of ids, any hash, any initial capacity and any growth the    *)
(* address map is a set: no id is lost, found twice or found after its      *)
(* removal, the counts are what the table holds, and every probe ends.      *)
(*                                                                         *)
(* The library's induction theorems take an operator; the two inductions    *)
(* here (over the steps of a probe, over the buckets of a table that grows) *)
(* go through the least member of a set of naturals instead.               *)
(***************************************************************************)
EXTENDS AddressMap, FiniteSetTheorems, FunctionTheorems, TLAPS

USE MapConstantsOK DEF MapConstantsOK

-----------------------------------------------------------------------------
(* Numbers.                                                                *)

\* A set of naturals with a member has a least one.
LEMMA LeastNatural ==
  ASSUME NEW T \in SUBSET Nat, T # {}
  PROVE  \E m \in T : \A k \in T : m <= k
<1> DEFINE R == OpToRel(<, Nat)
<1>1. IsWellFoundedOn(R, Nat)
  BY NatLessThanWellFounded
<1>2. \A x, y \in Nat : y < x => <<y, x>> \in R
  BY DEF OpToRel
<1> HIDE DEF R
<1>3. PICK m \in T : \A k \in T : ~ (<<k, m>> \in R)
  BY <1>1, WFMin
<1>4. \A k \in T : ~ (k < m)
  BY <1>2, <1>3, Zenon
<1>5. \A k \in T : m <= k
  BY <1>4
<1>6. QED
  BY <1>5

LEMMA MultMono ==
  ASSUME NEW c \in Nat \ {0}, NEW q \in Int, q >= 1
  PROVE  c * q >= c
OBVIOUS

LEMMA DivMod ==
  ASSUME NEW c \in Nat \ {0}, NEW n \in Nat
  PROVE  n = c * (n \div c) + (n % c) /\ n % c \in 0 .. c - 1 /\ n \div c \in Nat
OBVIOUS

LEMMA ModUnique ==
  ASSUME NEW c \in Nat \ {0}, NEW q \in Int, NEW r \in 0 .. c - 1,
         NEW p \in Int, NEW s \in 0 .. c - 1, c * q + r = c * p + s
  PROVE  r = s
<1>1. c * (q - p) = s - r /\ c * (p - q) = r - s
  OBVIOUS
<1>2. CASE q - p >= 1
  BY <1>1, <1>2, MultMono
<1>3. CASE p - q >= 1
  BY <1>1, <1>3, MultMono
<1>4. QED
  BY <1>1, <1>2, <1>3

\* The probe sequence runs to the end of the table and goes on at its start.
LEMMA Wraps ==
  ASSUME NEW h \in Nat, NEW c \in Nat \ {0}, NEW i \in 0 .. c - 1
  PROVE  (h + i) % c = IF (h % c) + i < c THEN (h % c) + i ELSE (h % c) + i - c
<1>1. PICK q \in Nat, r \in 0 .. c - 1 : h = c * q + r /\ r = h % c
  BY DivMod
<1>2. PICK p \in Nat, s \in 0 .. c - 1 : h + i = c * p + s /\ s = (h + i) % c
  <2>1. h + i \in Nat
    OBVIOUS
  <2>2. QED
    BY <2>1, DivMod
<1>3. CASE r + i < c
  <2>1. PICK u \in 0 .. c - 1 : u = r + i
    BY <1>3
  <2>2. c * q + u = c * p + s
    BY <1>1, <1>2, <2>1
  <2>3. u = s
    BY <2>2, ModUnique
  <2>4. QED
    BY <1>1, <1>2, <1>3, <2>1, <2>3
<1>4. CASE ~ (r + i < c)
  <2>1. PICK u \in 0 .. c - 1, v \in Int : u = r + i - c /\ v = q + 1
    BY <1>4
  <2>2. c * v + u = c * p + s
    BY <1>1, <1>2, <2>1
  <2>3. u = s
    BY <2>2, ModUnique
  <2>4. QED
    BY <1>1, <1>2, <1>4, <2>1, <2>3
<1>5. QED
  BY <1>3, <1>4

\* A probe visits every bucket, each once.
LEMMA ProbeVisits ==
  ASSUME NEW k \in Keys, NEW cap \in Nat \ {0}
  PROVE  /\ \A i \in 0 .. cap - 1 : At(k, i, cap) \in 0 .. cap - 1
         /\ \A i, j \in 0 .. cap - 1 : At(k, i, cap) = At(k, j, cap) => i = j
         /\ \A b \in 0 .. cap - 1 : \E i \in 0 .. cap - 1 : At(k, i, cap) = b
<1>1. PICK h \in 0 .. cap - 1 : h = Home[k] % cap
  BY DivMod
<1>2. \A i \in 0 .. cap - 1 : At(k, i, cap) = IF h + i < cap THEN h + i ELSE h + i - cap
  BY <1>1, Wraps DEF At
<1>3. ASSUME NEW b \in 0 .. cap - 1
      PROVE  \E i \in 0 .. cap - 1 : At(k, i, cap) = b
  <2>1. CASE h <= b
    <3>1. b - h \in 0 .. cap - 1 /\ h + (b - h) = b /\ b < cap
      BY <2>1
    <3>2. QED
      BY <1>2, <3>1
  <2>2. CASE b < h
    <3>1. b - h + cap \in 0 .. cap - 1 /\ ~ (h + (b - h + cap) < cap)
          /\ h + (b - h + cap) - cap = b
      BY <2>2
    <3>2. QED
      BY <1>2, <3>1
  <2>3. QED
    BY <2>1, <2>2
<1>4. QED
  BY <1>2, <1>3

-----------------------------------------------------------------------------
(* Tables.                                                                 *)

\* A table of cap buckets in which every id is in one bucket only, that a
\* probe for it reaches before an empty one; and some bucket is empty.
Shape(t, cap)  == t \in [0 .. cap - 1 -> Keys \union {Empty, Deleted}]
Once(t, cap)   == \A a, b \in 0 .. cap - 1 : t[a] \in Keys /\ t[a] = t[b] => a = b
Reached(t, cap) ==
  \A b \in 0 .. cap - 1 : t[b] \in Keys =>
    \E i \in 0 .. cap - 1 : /\ At(t[b], i, cap) = b
                            /\ \A j \in 0 .. i - 1 : t[At(t[b], j, cap)] # Empty
Table(t, cap)  == Shape(t, cap) /\ Once(t, cap) /\ Reached(t, cap)
HasHole(t, cap) == \E b \in 0 .. cap - 1 : t[b] = Empty

HeldIn(t, cap) == {t[b] : b \in 0 .. cap - 1} \ {Empty, Deleted}
DeadIn(t, cap) == {b \in 0 .. cap - 1 : t[b] = Deleted}

\* The bucket where the probe for k stops: an empty one, or k's.
LEMMA FoundIs ==
  ASSUME NEW k \in Keys, NEW cap \in Nat \ {0}, NEW t, Table(t, cap), HasHole(t, cap)
  PROVE  \E i \in 0 .. cap - 1 :
           /\ Found(t, cap, k) = At(k, i, cap)
           /\ t[At(k, i, cap)] \in {k, Empty}
           /\ \A j \in 0 .. i - 1 : t[At(k, j, cap)] \notin {k, Empty}
<1> DEFINE T == {i \in 0 .. cap - 1 : Stops(t[At(k, i, cap)], k)}
           First(i) == /\ Stops(t[At(k, i, cap)], k)
                       /\ \A j \in 0 .. i - 1 : ~ Stops(t[At(k, j, cap)], k)
<1>1. PICK b \in 0 .. cap - 1 : t[b] = Empty
  BY DEF HasHole
<1>2. PICK i \in 0 .. cap - 1 : At(k, i, cap) = b
  BY ProbeVisits
<1>3. i \in T
  BY <1>1, <1>2 DEF Stops
<1>4. PICK m \in T : \A j \in T : m <= j
  <2>1. T \in SUBSET Nat
    OBVIOUS
  <2>2. QED
    BY <1>3, <2>1, LeastNatural
<1>5. m \in 0 .. cap - 1 /\ First(m)
  <2>1. m \in 0 .. cap - 1 /\ Stops(t[At(k, m, cap)], k)
    OBVIOUS
  <2>2. ASSUME NEW j \in 0 .. m - 1 PROVE ~ Stops(t[At(k, j, cap)], k)
    <3>1. j \in 0 .. cap - 1 /\ ~ (m <= j)
      BY <2>1
    <3>2. QED
      BY <1>4, <3>1
  <2>3. QED
    BY <2>1, <2>2
<1>6. \A x, y \in 0 .. cap - 1 : First(x) /\ First(y) => x = y
  <2>1. \A x, y \in 0 .. cap - 1 : x < y => x \in 0 .. y - 1
    OBVIOUS
  <2> HIDE DEF First
  <2>2. \A x, y \in 0 .. cap - 1 : First(x) /\ First(y) => ~ (x < y)
    BY <2>1 DEF First
  <2>3. QED
    BY <2>2
<1>7. Found(t, cap, k) = At(k, m, cap)
  <2>1. Found(t, cap, k) = At(k, CHOOSE x \in 0 .. cap - 1 : First(x), cap)
    BY DEF Found
  <2> HIDE DEF First, T
  <2>2. (CHOOSE x \in 0 .. cap - 1 : First(x)) = m
    BY <1>5, <1>6
  <2>3. QED
    BY <2>1, <2>2
<1>8. QED
  BY <1>5, <1>7 DEF Stops

\* The probe for k ends at k if k is held, at an empty bucket if it is not.
LEMMA FoundHeld ==
  ASSUME NEW k \in Keys, NEW cap \in Nat \ {0}, NEW t, Table(t, cap), HasHole(t, cap)
  PROVE  /\ Found(t, cap, k) \in 0 .. cap - 1
         /\ k \in HeldIn(t, cap) => t[Found(t, cap, k)] = k
         /\ k \notin HeldIn(t, cap) => t[Found(t, cap, k)] = Empty
<1>1. PICK i \in 0 .. cap - 1 :
        /\ Found(t, cap, k) = At(k, i, cap)
        /\ t[At(k, i, cap)] \in {k, Empty}
        /\ \A j \in 0 .. i - 1 : t[At(k, j, cap)] \notin {k, Empty}
  BY FoundIs
<1>2. Found(t, cap, k) \in 0 .. cap - 1
  BY <1>1, ProbeVisits
<1>3. ASSUME k \in HeldIn(t, cap) PROVE t[Found(t, cap, k)] = k
  <2>1. PICK b \in 0 .. cap - 1 : t[b] = k
    BY <1>3 DEF HeldIn
  <2>2. PICK m \in 0 .. cap - 1 : /\ At(k, m, cap) = b
                                  /\ \A j \in 0 .. m - 1 : t[At(k, j, cap)] # Empty
    BY <2>1 DEF Table, Reached
  <2>3. ~ (m < i)
    BY <1>1, <2>1, <2>2
  <2>4. CASE i = m
    BY <1>1, <2>1, <2>2, <2>4
  <2>5. CASE i < m
    BY <1>1, <2>2, <2>5
  <2>6. QED
    BY <2>3, <2>4, <2>5
<1>4. ASSUME k \notin HeldIn(t, cap) PROVE t[Found(t, cap, k)] = Empty
  <2>1. t[Found(t, cap, k)] # k
    BY <1>2, <1>4 DEF HeldIn
  <2>2. QED
    BY <1>1, <2>1
<1>5. QED
  BY <1>2, <1>3, <1>4

\* A table with one bucket overwritten.
With(t, at, k) == [t EXCEPT ![at] = k]

\* A free bucket that the probe for k reaches, with no empty one before it.
FreeFor(t, cap, k, at) ==
  \E i \in 0 .. cap - 1 : /\ at = At(k, i, cap)
                          /\ t[at] \in {Empty, Deleted}
                          /\ \A j \in 0 .. i - 1 : t[At(k, j, cap)] # Empty

LEMMA VacantIs ==
  ASSUME NEW k \in Keys, NEW cap \in Nat \ {0}, NEW t, Table(t, cap), HasHole(t, cap),
         k \notin HeldIn(t, cap)
  PROVE  FreeFor(t, cap, k, Vacant(t, cap, k))
<1> DEFINE path == {j \in 0 .. cap - 1 : \A x \in 0 .. j : ~ Stops(t[At(k, x, cap)], k)}
           dead == {j \in path : t[At(k, j, cap)] = Deleted}
           Least(j) == \A x \in dead : j <= x
<1>1. PICK i \in 0 .. cap - 1 :
        /\ Found(t, cap, k) = At(k, i, cap)
        /\ t[At(k, i, cap)] \in {k, Empty}
        /\ \A j \in 0 .. i - 1 : t[At(k, j, cap)] \notin {k, Empty}
  BY FoundIs
<1>2. t[At(k, i, cap)] = Empty
  BY <1>1, FoundHeld
<1>3. Vacant(t, cap, k) = IF dead = {} THEN Found(t, cap, k)
                          ELSE At(k, CHOOSE j \in dead : Least(j), cap)
  BY Zenon DEF Vacant
<1>4. CASE dead = {}
  BY <1>1, <1>2, <1>3, <1>4 DEF FreeFor
<1>5. CASE dead # {}
  <2>1. dead \in SUBSET Nat /\ dead \subseteq 0 .. cap - 1
    OBVIOUS
  <2>2. \A j \in dead : t[At(k, j, cap)] = Deleted /\ \A x \in 0 .. j - 1 : t[At(k, x, cap)] # Empty
    BY DEF Stops
  <2> HIDE DEF path, dead
  <2>3. PICK m \in dead : \A x \in dead : m <= x
    BY <1>5, <2>1, LeastNatural
  <2>4. Least(m)
    BY <2>3
  <2>5. (CHOOSE j \in dead : Least(j)) \in dead
    <3> HIDE DEF Least
    <3>1. QED
      BY <2>4
  <2> DEFINE c == CHOOSE j \in dead : Least(j)
  <2>6. Vacant(t, cap, k) = At(k, c, cap)
    BY <1>3, <1>5, Zenon
  <2>7. c \in dead
    BY <2>5, Zenon
  <2> HIDE DEF c
  <2>8. QED
    BY <2>1, <2>2, <2>6, <2>7 DEF FreeFor
<1>6. QED
  BY <1>4, <1>5

\* Putting an id that is not held into a free bucket its probe reaches.
LEMMA PutTable ==
  ASSUME NEW k \in Keys, NEW cap \in Nat \ {0}, NEW t, Table(t, cap),
         k \notin HeldIn(t, cap), NEW at, FreeFor(t, cap, k, at),
         NEW u, u = With(t, at, k)
  PROVE  /\ at \in 0 .. cap - 1
         /\ Table(u, cap)
         /\ HeldIn(u, cap) = HeldIn(t, cap) \union {k}
         /\ DeadIn(u, cap) = DeadIn(t, cap) \ {at}
<1> PICK i \in 0 .. cap - 1 :
      /\ at = At(k, i, cap) /\ t[at] \in {Empty, Deleted}
      /\ \A j \in 0 .. i - 1 : t[At(k, j, cap)] # Empty
  BY DEF FreeFor
<1>1. at \in 0 .. cap - 1 /\ t \in [0 .. cap - 1 -> Keys \union {Empty, Deleted}]
  BY ProbeVisits DEF Table, Shape
<1>2. Shape(u, cap) /\ \A b \in 0 .. cap - 1 : u[b] = IF b = at THEN k ELSE t[b]
  BY <1>1 DEF Shape, With
<1>3. \A b \in 0 .. cap - 1 : t[b] # k
  BY DEF HeldIn
<1>4. Once(u, cap)
  BY <1>2, <1>3 DEF Table, Once
<1>5. Reached(u, cap)
  <2>1. \A b \in 0 .. cap - 1 : t[b] # Empty => u[b] # Empty
    BY <1>2
  <2>2. SUFFICES ASSUME NEW b \in 0 .. cap - 1, u[b] \in Keys
                 PROVE  \E x \in 0 .. cap - 1 :
                          /\ At(u[b], x, cap) = b
                          /\ \A j \in 0 .. x - 1 : u[At(u[b], j, cap)] # Empty
    BY DEF Reached
  <2>3. \A q \in Keys : \A j \in 0 .. cap - 1 : At(q, j, cap) \in 0 .. cap - 1
    BY ProbeVisits
  <2>4. CASE b = at
    <3>1. u[b] = k /\ At(k, i, cap) = b
      BY <1>2, <2>4
    <3>2. \A j \in 0 .. i - 1 : u[At(k, j, cap)] # Empty
      BY <2>1, <2>3
    <3>3. QED
      BY <3>1, <3>2
  <2>5. CASE b # at
    <3>1. u[b] = t[b]
      BY <1>2, <2>5
    <3>2. PICK x \in 0 .. cap - 1 :
            At(t[b], x, cap) = b /\ \A j \in 0 .. x - 1 : t[At(t[b], j, cap)] # Empty
      BY <2>2, <3>1 DEF Table, Reached
    <3>3. \A j \in 0 .. x - 1 : u[At(t[b], j, cap)] # Empty
      BY <2>1, <2>2, <2>3, <3>1, <3>2
    <3>4. QED
      BY <3>1, <3>2, <3>3
  <2>6. QED
    BY <2>4, <2>5
<1>6. HeldIn(u, cap) = HeldIn(t, cap) \union {k}
  BY <1>1, <1>2, <1>3 DEF HeldIn
<1>7. DeadIn(u, cap) = DeadIn(t, cap) \ {at}
  BY <1>1, <1>2 DEF DeadIn
<1>8. QED
  BY <1>1, <1>2, <1>4, <1>5, <1>6, <1>7 DEF Table

\* Leaving a tombstone where an id was: the probes for the others go on there.
LEMMA BuryTable ==
  ASSUME NEW cap \in Nat \ {0}, NEW t, Table(t, cap), NEW at \in 0 .. cap - 1,
         t[at] \in Keys, NEW u, u = With(t, at, Deleted)
  PROVE  /\ Table(u, cap)
         /\ HeldIn(u, cap) = HeldIn(t, cap) \ {t[at]}
         /\ DeadIn(u, cap) = DeadIn(t, cap) \union {at}
         /\ at \notin DeadIn(t, cap) /\ t[at] \in HeldIn(t, cap)
<1>1. t \in [0 .. cap - 1 -> Keys \union {Empty, Deleted}]
  BY DEF Table, Shape
<1>2. Shape(u, cap) /\ \A b \in 0 .. cap - 1 : u[b] = IF b = at THEN Deleted ELSE t[b]
  BY <1>1 DEF Shape, With
<1>3. \A b \in 0 .. cap - 1 : t[b] = t[at] => b = at
  BY DEF Table, Once
<1>4. Once(u, cap)
  BY <1>2 DEF Table, Once
<1>5. Reached(u, cap)
  <2>1. \A b \in 0 .. cap - 1 : t[b] # Empty => u[b] # Empty
    BY <1>2
  <2>2. SUFFICES ASSUME NEW b \in 0 .. cap - 1, u[b] \in Keys
                 PROVE  \E x \in 0 .. cap - 1 :
                          /\ At(u[b], x, cap) = b
                          /\ \A j \in 0 .. x - 1 : u[At(u[b], j, cap)] # Empty
    BY DEF Reached
  <2>3. \A j \in 0 .. cap - 1 : At(u[b], j, cap) \in 0 .. cap - 1
    BY <2>2, ProbeVisits
  <2>4. u[b] = t[b]
    BY <1>2, <2>2
  <2>5. PICK x \in 0 .. cap - 1 :
          At(t[b], x, cap) = b /\ \A j \in 0 .. x - 1 : t[At(t[b], j, cap)] # Empty
    BY <2>2, <2>4 DEF Table, Reached
  <2>6. QED
    BY <2>1, <2>3, <2>4, <2>5
<1>6. HeldIn(u, cap) = HeldIn(t, cap) \ {t[at]}
  BY <1>1, <1>2, <1>3 DEF HeldIn
<1>7. DeadIn(u, cap) = DeadIn(t, cap) \union {at} /\ at \notin DeadIn(t, cap)
  BY <1>1, <1>2 DEF DeadIn
<1>8. QED
  BY <1>1, <1>2, <1>4, <1>5, <1>6, <1>7 DEF Table, HeldIn

-----------------------------------------------------------------------------
(* Counting.                                                               *)

LiveIn(t, cap) == {b \in 0 .. cap - 1 : t[b] \in Keys}

LEMMA Buckets ==
  ASSUME NEW cap \in Nat
  PROVE  IsFiniteSet(0 .. cap - 1) /\ Cardinality(0 .. cap - 1) = cap
<1>1. IsFiniteSet(0 .. cap - 1)
      /\ Cardinality(0 .. cap - 1) = IF 0 > cap - 1 THEN 0 ELSE (cap - 1) - 0 + 1
  BY FS_Interval
<1>2. QED
  BY <1>1

\* As many buckets are live as ids are held.
LEMMA LiveCount ==
  ASSUME NEW cap \in Nat \ {0}, NEW t, Table(t, cap)
  PROVE  /\ IsFiniteSet(LiveIn(t, cap)) /\ IsFiniteSet(DeadIn(t, cap))
         /\ IsFiniteSet(HeldIn(t, cap))
         /\ Cardinality(LiveIn(t, cap)) = Cardinality(HeldIn(t, cap))
         /\ LiveIn(t, cap) \cap DeadIn(t, cap) = {}
<1> DEFINE f == [b \in LiveIn(t, cap) |-> t[b]]
           L == LiveIn(t, cap)
           H == HeldIn(t, cap)
<1>1. IsFiniteSet(LiveIn(t, cap)) /\ IsFiniteSet(DeadIn(t, cap))
  <2>1. LiveIn(t, cap) \in SUBSET (0 .. cap - 1) /\ DeadIn(t, cap) \in SUBSET (0 .. cap - 1)
    BY DEF LiveIn, DeadIn
  <2>2. QED
    BY <2>1, Buckets, FS_Subset
<1>2. t \in [0 .. cap - 1 -> Keys \union {Empty, Deleted}]
  BY DEF Table, Shape
<1>3. H = {t[b] : b \in L} /\ H \subseteq Keys
  BY <1>2 DEF HeldIn, LiveIn
<1>4. f \in Bijection(L, H)
  <2>1. f \in [L -> H] /\ \A y \in H : \E x \in L : f[x] = y
    BY <1>3
  <2>2. \A x, y \in L : f[x] = f[y] => x = y
    BY DEF Table, Once, LiveIn
  <2> HIDE DEF f, L, H
  <2>3. f \in Injection(L, H)
    BY <2>1, <2>2, Fun_IsInj
  <2>4. f \in Surjection(L, H)
    BY <2>1, Fun_IsSurj
  <2>5. QED
    BY <2>3, <2>4 DEF Bijection
<1>5. IsFiniteSet(H) /\ Cardinality(L) = Cardinality(H)
  <2> HIDE DEF f, L, H
  <2>1. ExistsBijection(L, H)
    BY <1>4 DEF ExistsBijection
  <2>2. IsFiniteSet(L)
    BY <1>1 DEF L
  <2>3. IsFiniteSet(H) /\ Cardinality(H) = Cardinality(L)
    BY <2>1, <2>2, FS_Bijection
  <2>4. QED
    BY <2>3
<1>6. LiveIn(t, cap) \cap DeadIn(t, cap) = {}
  BY DEF LiveIn, DeadIn
<1>7. QED
  BY <1>1, <1>5, <1>6

\* A table has an empty bucket when its ids and tombstones do not fill it.
LEMMA HoleLeft ==
  ASSUME NEW cap \in Nat \ {0}, NEW t, Table(t, cap),
         Cardinality(HeldIn(t, cap)) + Cardinality(DeadIn(t, cap)) < cap
  PROVE  HasHole(t, cap)
<1> DEFINE U == LiveIn(t, cap) \union DeadIn(t, cap)
<1>1. SUFFICES ASSUME ~ HasHole(t, cap) PROVE FALSE
  OBVIOUS
<1>2. 0 .. cap - 1 = U
  BY <1>1 DEF HasHole, Table, Shape, LiveIn, DeadIn
<1>3. Cardinality(U) = Cardinality(LiveIn(t, cap)) + Cardinality(DeadIn(t, cap))
  <2>1. Cardinality(U) = Cardinality(LiveIn(t, cap)) + Cardinality(DeadIn(t, cap))
                         - Cardinality(LiveIn(t, cap) \cap DeadIn(t, cap))
    BY LiveCount, FS_Union
  <2>2. Cardinality(LiveIn(t, cap) \cap DeadIn(t, cap)) = 0
    BY LiveCount, FS_EmptySet
  <2>3. Cardinality(LiveIn(t, cap)) \in Nat /\ Cardinality(DeadIn(t, cap)) \in Nat
    BY LiveCount, FS_CardinalityType
  <2>4. QED
    BY <2>1, <2>2, <2>3
<1>4. Cardinality(U) = cap
  BY <1>2, Buckets
<1>5. QED
  BY <1>3, <1>4, LiveCount

-----------------------------------------------------------------------------
(* Growing.                                                                *)

LEMMA FreshTable ==
  ASSUME NEW cap \in Nat \ {0}
  PROVE  /\ Table(Fresh(cap), cap)
         /\ HeldIn(Fresh(cap), cap) = {} /\ DeadIn(Fresh(cap), cap) = {}
BY DEF Fresh, Table, Shape, Once, Reached, HeldIn, DeadIn

\* One bucket moved into the new table; the new tables after 0, 1, .. m buckets.
Moved(u, k, newCap) ==
  IF k \in {Empty, Deleted} THEN u ELSE [u EXCEPT ![Found(u, newCap, k)] = k]
IsUpTo(g, t, newCap, m) ==
  g = [n \in 0 .. m |-> IF n = 0 THEN Fresh(newCap)
                        ELSE Moved(g[n - 1], t[n - 1], newCap)]

\* The new tables of a growing map are a function: the recursion has a solution.
LEMMA UpToExists ==
  ASSUME NEW cap \in Nat, NEW newCap, NEW t
  PROVE  \E g : IsUpTo(g, t, newCap, cap)
<1> DEFINE T == {m \in 0 .. cap : ~ \E g : IsUpTo(g, t, newCap, m)}
<1>1. SUFFICES ASSUME T # {} PROVE FALSE
  <2>1. cap \in 0 .. cap
    OBVIOUS
  <2>2. QED
    BY <2>1, Zenon
<1>2. T \in SUBSET Nat
  OBVIOUS
<1>3. PICK m \in T : \A k \in T : m <= k
  BY <1>1, <1>2, LeastNatural
<1>4. m \in 0 .. cap /\ ~ \E g : IsUpTo(g, t, newCap, m)
  OBVIOUS
<1>5. CASE m = 0
  <2> DEFINE g == [n \in 0 .. 0 |-> Fresh(newCap)]
  <2>1. IsUpTo(g, t, newCap, 0)
    BY DEF IsUpTo
  <2>2. QED
    BY <1>4, <1>5, <2>1
<1>6. CASE m # 0
  <2>1. m - 1 \in 0 .. cap /\ ~ (m <= m - 1)
    BY <1>4, <1>6
  <2>2. ~ (m - 1 \in T)
    BY <1>3, <2>1
  <2>3. PICK g : IsUpTo(g, t, newCap, m - 1)
    BY <2>1, <2>2
  <2> DEFINE f == [n \in 0 .. m |-> IF n = m THEN Moved(g[n - 1], t[n - 1], newCap) ELSE g[n]]
  <2>4. \A n \in 0 .. m - 1 :
          g[n] = IF n = 0 THEN Fresh(newCap) ELSE Moved(g[n - 1], t[n - 1], newCap)
    BY <2>3 DEF IsUpTo
  <2>5. \A n \in 0 .. m : n # m => n \in 0 .. m - 1
    BY <1>4
  <2>6. \A n \in 0 .. m : n # 0 => n - 1 \in 0 .. m /\ n - 1 # m /\ f[n - 1] = g[n - 1]
    BY <1>4
  <2>7. \A n \in 0 .. m : f[n] = IF n = 0 THEN Fresh(newCap)
                                 ELSE Moved(f[n - 1], t[n - 1], newCap)
    <3> TAKE n \in 0 .. m
    <3>1. f[n] = IF n = m THEN Moved(g[n - 1], t[n - 1], newCap) ELSE g[n]
      OBVIOUS
    <3> HIDE DEF f
    <3>2. CASE n = 0
      BY <1>6, <2>4, <2>5, <3>1, <3>2
    <3>3. CASE n # 0
      BY <2>4, <2>5, <2>6, <3>1, <3>3
    <3>4. QED
      BY <3>2, <3>3
  <2>8. f = [n \in 0 .. m |-> f[n]]
    OBVIOUS
  <2> HIDE DEF f
  <2>9. IsUpTo(f, t, newCap, m)
    BY <2>7, <2>8 DEF IsUpTo
  <2>10. QED
    BY <1>4, <2>9
<1>7. QED
  BY <1>5, <1>6

LEMMA RehashedIs ==
  ASSUME NEW cap \in Nat, NEW newCap, NEW t
  PROVE  \E g : IsUpTo(g, t, newCap, cap) /\ Rehashed(t, cap, newCap) = g[cap]
<1>1. Rehashed(t, cap, newCap) = (CHOOSE g : IsUpTo(g, t, newCap, cap))[cap]
  BY Zenon DEF Rehashed, IsUpTo, Moved
<1>2. IsUpTo(CHOOSE g : IsUpTo(g, t, newCap, cap), t, newCap, cap)
  BY UpToExists, Zenon
<1>3. QED
  BY <1>1, <1>2, Zenon

\* What the new table holds when n buckets of the old one have been moved.
HoldsFirst(u, newCap, t, n) ==
  /\ Table(u, newCap) /\ DeadIn(u, newCap) = {}
  /\ HeldIn(u, newCap) = {t[b] : b \in 0 .. n - 1} \ {Empty, Deleted}
  /\ Cardinality(HeldIn(u, newCap)) <= n

LEMMA MoveOne ==
  ASSUME NEW cap \in Nat \ {0}, NEW newCap \in Nat, newCap > cap, NEW t, Table(t, cap),
         NEW n \in 0 .. cap - 1, NEW u, HoldsFirst(u, newCap, t, n)
  PROVE  HoldsFirst(Moved(u, t[n], newCap), newCap, t, n + 1)
<1> DEFINE F(m) == {t[b] : b \in 0 .. m - 1} \ {Empty, Deleted}
<1>1. newCap \in Nat \ {0}
  OBVIOUS
<1>2. 0 .. (n + 1) - 1 = (0 .. n - 1) \union {n}
  OBVIOUS
<1>3. F(n + 1) = F(n) \union ({t[n]} \ {Empty, Deleted})
  BY <1>2
<1>4. Table(u, newCap) /\ DeadIn(u, newCap) = {} /\ HeldIn(u, newCap) = F(n)
      /\ Cardinality(HeldIn(u, newCap)) <= n
  BY DEF HoldsFirst
<1>5. IsFiniteSet(HeldIn(u, newCap)) /\ Cardinality(HeldIn(u, newCap)) \in Nat
  BY <1>1, <1>4, LiveCount, FS_CardinalityType
<1>6. CASE t[n] \in {Empty, Deleted}
  <2>1. F(n + 1) = F(n) /\ Moved(u, t[n], newCap) = u
    BY <1>3, <1>6 DEF Moved
  <2> HIDE DEF F
  <2>2. Cardinality(HeldIn(u, newCap)) <= n + 1
    BY <1>4, <1>5
  <2>3. QED
    BY <1>4, <2>1, <2>2 DEF HoldsFirst, F
<1>7. CASE t[n] \notin {Empty, Deleted}
  <2>1. t[n] \in Keys
    BY <1>7 DEF Table, Shape
  <2>2. t[n] \notin F(n)
    BY <2>1 DEF Table, Once
  <2>3. Cardinality(DeadIn(u, newCap)) = 0
    BY <1>4, FS_EmptySet
  <2>4. HasHole(u, newCap)
    <3>1. Cardinality(HeldIn(u, newCap)) + Cardinality(DeadIn(u, newCap)) < newCap
      BY <1>4, <1>5, <2>3
    <3>2. QED
      BY <1>1, <1>4, <3>1, HoleLeft
  <2> HIDE DEF F
  <2>5. PICK i \in 0 .. newCap - 1 :
          /\ Found(u, newCap, t[n]) = At(t[n], i, newCap)
          /\ u[At(t[n], i, newCap)] \in {t[n], Empty}
          /\ \A j \in 0 .. i - 1 : u[At(t[n], j, newCap)] \notin {t[n], Empty}
    BY <1>1, <1>4, <2>1, <2>4, FoundIs
  <2>6. u[Found(u, newCap, t[n])] = Empty
    BY <1>1, <1>4, <2>1, <2>2, <2>4, FoundHeld
  <2> DEFINE w == [u EXCEPT ![Found(u, newCap, t[n])] = t[n]]
  <2>7. /\ Table(w, newCap) /\ HeldIn(w, newCap) = F(n) \union {t[n]}
        /\ DeadIn(w, newCap) = {} \ {Found(u, newCap, t[n])}
    <3>1. FreeFor(u, newCap, t[n], Found(u, newCap, t[n]))
      BY <2>5, <2>6 DEF FreeFor
    <3>2. t[n] \notin HeldIn(u, newCap)
      BY <1>4, <2>2
    <3>3. PICK k, at : k \in Keys /\ k = t[n] /\ at = Found(u, newCap, t[n])
      BY <2>1
    <3>4. PICK x : x = w /\ x = With(u, at, k)
      BY <3>3 DEF With
    <3> HIDE DEF w
    <3>5. k \notin HeldIn(u, newCap) /\ FreeFor(u, newCap, k, at)
      BY <3>1, <3>2, <3>3
    <3>6. /\ Table(x, newCap) /\ HeldIn(x, newCap) = HeldIn(u, newCap) \union {k}
          /\ DeadIn(x, newCap) = DeadIn(u, newCap) \ {at}
      BY <1>1, <1>4, <3>3, <3>4, <3>5, PutTable
    <3>7. QED
      BY <1>4, <3>3, <3>4, <3>6
  <2>8. Moved(u, t[n], newCap) = w
    BY <1>7 DEF Moved
  <2>9. F(n + 1) = F(n) \union {t[n]}
    BY <1>3, <1>7
  <2> HIDE DEF w
  <2>10. Cardinality(HeldIn(w, newCap)) <= n + 1
    <3>1. Cardinality(HeldIn(u, newCap) \union {t[n]}) =
            IF t[n] \in HeldIn(u, newCap) THEN Cardinality(HeldIn(u, newCap))
            ELSE Cardinality(HeldIn(u, newCap)) + 1
      BY <1>5, FS_AddElement
    <3>2. QED
      BY <1>4, <1>5, <2>2, <2>7, <3>1
  <2>11. QED
    BY <2>7, <2>8, <2>9, <2>10 DEF HoldsFirst, F
<1>8. QED
  BY <1>6, <1>7

\* The table that growing builds: the same ids, no tombstones.
LEMMA RehashedTable ==
  ASSUME NEW cap \in Nat \ {0}, NEW newCap \in Nat, newCap > cap, NEW t, Table(t, cap)
  PROVE  /\ Table(Rehashed(t, cap, newCap), newCap)
         /\ HeldIn(Rehashed(t, cap, newCap), newCap) = HeldIn(t, cap)
         /\ DeadIn(Rehashed(t, cap, newCap), newCap) = {}
<1>1. PICK g : IsUpTo(g, t, newCap, cap) /\ Rehashed(t, cap, newCap) = g[cap]
  BY RehashedIs
<1>2. \A n \in 0 .. cap :
        g[n] = IF n = 0 THEN Fresh(newCap) ELSE Moved(g[n - 1], t[n - 1], newCap)
  BY <1>1 DEF IsUpTo
<1> DEFINE T == {n \in 0 .. cap : ~ HoldsFirst(g[n], newCap, t, n)}
<1>3. T = {}
  <2>1. SUFFICES ASSUME T # {} PROVE FALSE
    BY Zenon
  <2>2. T \in SUBSET Nat
    OBVIOUS
  <2>3. PICK m \in T : \A k \in T : m <= k
    BY <2>1, <2>2, LeastNatural
  <2>4. m \in 0 .. cap /\ ~ HoldsFirst(g[m], newCap, t, m)
    OBVIOUS
  <2>5. CASE m = 0
    <3>1. g[0] = Fresh(newCap) /\ newCap \in Nat \ {0}
      BY <1>2
    <3>2. {t[b] : b \in 0 .. 0 - 1} \ {Empty, Deleted} = {}
      OBVIOUS
    <3>3. Cardinality({}) <= 0
      BY FS_EmptySet
    <3>4. HoldsFirst(g[0], newCap, t, 0)
      BY <3>1, <3>2, <3>3, FreshTable DEF HoldsFirst
    <3>5. QED
      BY <2>4, <2>5, <3>4
  <2>6. CASE m # 0
    <3>1. PICK n \in 0 .. cap - 1 : m = n + 1
      <4>1. m - 1 \in 0 .. cap - 1 /\ m = (m - 1) + 1
        BY <2>4, <2>6
      <4>2. QED
        BY <4>1
    <3>2. n \in 0 .. cap /\ ~ (m <= n)
      BY <3>1
    <3>3. HoldsFirst(g[n], newCap, t, n)
      BY <2>3, <3>2
    <3>4. HoldsFirst(Moved(g[n], t[n], newCap), newCap, t, n + 1)
      BY <3>3, MoveOne
    <3>5. g[m] = Moved(g[n], t[n], newCap)
      BY <1>2, <2>4, <2>6, <3>1
    <3>6. QED
      BY <2>4, <3>1, <3>4, <3>5
  <2>7. QED
    BY <2>5, <2>6
<1>4. HoldsFirst(g[cap], newCap, t, cap)
  BY <1>3
<1>5. QED
  BY <1>1, <1>4 DEF HoldsFirst, HeldIn

-----------------------------------------------------------------------------
(* The inductive invariant, and what each call does to the ids held.        *)

Bounded == capacity \in InitCap .. MaxCap
Counted == /\ count = Cardinality(HeldIn(buckets, capacity))
           /\ tombstones = Cardinality(DeadIn(buckets, capacity))
Spare   == count + tombstones < capacity
IInv    == Bounded /\ Table(buckets, capacity) /\ Counted /\ Spare

\* The refinement mapping of IndexSpec.
Ids == {buckets[i] : i \in DOMAIN buckets} \ {Empty, Deleted}

LEMMA IdsHeld == ASSUME Table(buckets, capacity) PROVE Ids = HeldIn(buckets, capacity)
BY DEF Ids, HeldIn, Table, Shape

LEMMA HeldKeys ==
  ASSUME NEW t, NEW cap, Table(t, cap) PROVE HeldIn(t, cap) \subseteq Keys
BY DEF HeldIn, Table, Shape

LEMMA CountsAreNat ==
  ASSUME IInv
  PROVE  capacity \in Nat \ {0} /\ count \in Nat /\ tombstones \in Nat
BY LiveCount, FS_CardinalityType DEF IInv, Bounded, Counted

LEMMA InvHole == ASSUME IInv PROVE HasHole(buckets, capacity)
BY CountsAreNat, HoleLeft DEF IInv, Counted, Spare

LEMMA InitInv == ASSUME Init PROVE IInv
<1>1. InitCap \in Nat \ {0} /\ Bounded
  BY DEF Init, Bounded
<1>2. Cardinality({}) = 0
  BY FS_EmptySet
<1>3. /\ Table(buckets, capacity) /\ HeldIn(buckets, capacity) = {}
      /\ DeadIn(buckets, capacity) = {}
  BY <1>1, FreshTable DEF Init
<1>4. QED
  BY <1>1, <1>2, <1>3 DEF Init, IInv, Counted, Spare

\* What a call of insert that reaches the table makes of it.
Inserted(k, H) ==
  \/ k \in H /\ Ids' = H /\ last' = <<"insert", k, "ALREADY">>
  \/ k \notin H /\ Ids' = H \union {k} /\ last' = <<"insert", k, "OK">>

LEMMA PutStep ==
  ASSUME NEW k \in Keys, NEW t, NEW cap \in InitCap .. MaxCap, NEW n,
         Table(t, cap), count = Cardinality(HeldIn(t, cap)),
         n = Cardinality(DeadIn(t, cap)), count + n + 1 < cap,
         Put(k, t, cap, n)
  PROVE  IInv' /\ Inserted(k, HeldIn(t, cap))
<1> DEFINE H == HeldIn(t, cap)
           D == DeadIn(t, cap)
<1>1. cap \in Nat \ {0}
  OBVIOUS
<1>2. IsFiniteSet(H) /\ IsFiniteSet(D) /\ count \in Nat /\ n \in Nat
  BY <1>1, LiveCount, FS_CardinalityType
<1>3. HasHole(t, cap)
  BY <1>1, <1>2, HoleLeft
<1>4. Found(t, cap, k) \in 0 .. cap - 1 /\ (t[Found(t, cap, k)] = k <=> k \in H)
  BY <1>1, <1>3, FoundHeld
<1>5. capacity' = cap /\ Bounded'
  BY DEF Put, Bounded
<1>6. CASE k \in H
  <2>1. buckets' = t /\ tombstones' = n /\ count' = count /\ last' = <<"insert", k, "ALREADY">>
    BY <1>4, <1>6 DEF Put
  <2>2. Table(buckets, capacity)' /\ HeldIn(buckets, capacity)' = H
        /\ DeadIn(buckets, capacity)' = D
    BY <1>5, <2>1
  <2>3. Ids' = H
    BY <2>2, IdsHeld DEF Ids, HeldIn, Table, Shape
  <2>4. Counted' /\ Spare'
    BY <1>2, <1>5, <2>1, <2>2 DEF Counted, Spare
  <2>5. QED
    BY <1>5, <1>6, <2>1, <2>2, <2>3, <2>4 DEF IInv, Inserted
<1>7. CASE k \notin H
  <2>1. PICK at : at = Vacant(t, cap, k)
    OBVIOUS
  <2>2. /\ buckets' = With(t, at, k) /\ tombstones' = Reused(n, t[at])
        /\ count' = count + 1 /\ last' = <<"insert", k, "OK">>
    BY <1>4, <1>7, <2>1 DEF Put, With
  <2>3. FreeFor(t, cap, k, at)
    BY <1>1, <1>3, <1>7, <2>1, VacantIs
  <2>4. /\ at \in 0 .. cap - 1 /\ Table(buckets', cap)
        /\ HeldIn(buckets', cap) = H \union {k} /\ DeadIn(buckets', cap) = D \ {at}
    BY <1>1, <1>7, <2>2, <2>3, PutTable
  <2>5. Cardinality(H \union {k}) = count + 1
    BY <1>2, <1>7, FS_AddElement
  <2>6. Cardinality(D \ {at}) = Reused(n, t[at]) /\ Reused(n, t[at]) <= n
    <3>1. at \in D <=> t[at] = Deleted
      BY <2>4 DEF DeadIn
    <3>2. Cardinality(D \ {at}) = IF at \in D THEN n - 1 ELSE n
      BY <1>2, FS_RemoveElement
    <3>3. QED
      BY <1>2, <3>1, <3>2 DEF Reused
  <2>7. Ids' = H \union {k}
    BY <1>5, <2>4 DEF Ids, HeldIn, Table, Shape
  <2>8. Counted'
    BY <1>5, <2>2, <2>4, <2>5, <2>6 DEF Counted
  <2>9. Spare'
    <3>1. Reused(n, t[at]) \in Int
      BY <1>2 DEF Reused
    <3>2. QED
      BY <1>1, <1>2, <1>5, <2>2, <2>6, <3>1 DEF Spare
  <2>10. QED
    BY <1>5, <1>7, <2>2, <2>4, <2>7, <2>8, <2>9 DEF IInv, Inserted
<1>8. QED
  BY <1>6, <1>7

LEMMA InsertStep ==
  ASSUME IInv, NEW k \in Keys, Insert(k)
  PROVE  /\ IInv'
         /\ Inserted(k, Ids) \/ (Ids' = Ids /\ last' = <<"insert", k, "OOM">>)
<1>1. capacity \in Nat \ {0} /\ count \in Nat /\ tombstones \in Nat /\ capacity >= 4
      /\ Table(buckets, capacity) /\ count + tombstones < capacity
      /\ capacity \in InitCap .. MaxCap
  BY CountsAreNat DEF IInv, Bounded, Spare
<1>2. Ids = HeldIn(buckets, capacity)
  BY <1>1, IdsHeld
<1>3. CASE ~ Crowded /\ Put(k, buckets, capacity, tombstones)
  <2>1. count + tombstones + 1 < capacity
    BY <1>1, <1>3 DEF Crowded
  <2>2. QED
    BY <1>1, <1>2, <1>3, <2>1, PutStep DEF IInv, Counted
<1>4. CASE /\ Crowded /\ 2 * capacity <= MaxCap
           /\ Put(k, Rehashed(buckets, capacity, 2 * capacity), 2 * capacity, 0)
  <2>1. PICK cap, t :
          /\ cap \in InitCap .. MaxCap /\ cap = 2 * capacity
          /\ t = Rehashed(buckets, capacity, cap)
    BY <1>1, <1>4
  <2>2. cap \in Nat /\ cap > capacity /\ count + 0 + 1 < cap
    BY <1>1, <2>1
  <2>3. Table(t, cap) /\ HeldIn(t, cap) = Ids /\ DeadIn(t, cap) = {}
    BY <1>1, <1>2, <2>1, <2>2, RehashedTable
  <2>4. count = Cardinality(HeldIn(t, cap)) /\ 0 = Cardinality(DeadIn(t, cap))
    BY <1>2, <2>3, FS_EmptySet DEF IInv, Counted
  <2>5. Put(k, t, cap, 0)
    BY <1>4, <2>1
  <2>6. QED
    BY <2>1, <2>2, <2>3, <2>4, <2>5, PutStep
<1>5. CASE /\ Crowded /\ last' = <<"insert", k, "OOM">>
           /\ UNCHANGED <<buckets, capacity, count, tombstones>>
  BY <1>5 DEF IInv, Bounded, Counted, Spare, Ids
<1>6. QED
  BY <1>3, <1>4, <1>5 DEF Insert

LEMMA RemoveStep ==
  ASSUME IInv, NEW k \in Keys, Remove(k)
  PROVE  /\ IInv' /\ Ids' = Ids \ {k}
         /\ last' = <<"remove", k, IF k \in Ids THEN "OK" ELSE "NOT_FOUND">>
<1> DEFINE H == HeldIn(buckets, capacity)
           D == DeadIn(buckets, capacity)
           at == Found(buckets, capacity, k)
<1>1. capacity \in Nat \ {0} /\ count \in Nat /\ tombstones \in Nat
      /\ Table(buckets, capacity) /\ Ids = H
  BY CountsAreNat, IdsHeld DEF IInv
<1>2. IsFiniteSet(H) /\ IsFiniteSet(D)
  BY <1>1, LiveCount
<1>3. at \in 0 .. capacity - 1 /\ (buckets[at] = k <=> k \in H)
  BY <1>1, InvHole, FoundHeld
<1>4. CASE k \in H
  <2>1. /\ buckets' = With(buckets, at, Deleted) /\ capacity' = capacity
        /\ count' = count - 1 /\ tombstones' = tombstones + 1
        /\ last' = <<"remove", k, "OK">>
    BY <1>3, <1>4 DEF Remove, Emptied, With
  <2>2. /\ Table(buckets', capacity) /\ HeldIn(buckets', capacity) = H \ {k}
        /\ DeadIn(buckets', capacity) = D \union {at} /\ at \notin D
    BY <1>1, <1>3, <1>4, <2>1, BuryTable
  <2>3. Cardinality(H \ {k}) = count - 1
    BY <1>2, <1>4, FS_RemoveElement DEF IInv, Counted
  <2>4. Cardinality(D \union {at}) = tombstones + 1
    BY <1>2, <2>2, FS_AddElement DEF IInv, Counted
  <2>5. Ids' = H \ {k}
    BY <2>1, <2>2 DEF Ids, HeldIn, Table, Shape
  <2>6. Counted'
    BY <2>1, <2>2, <2>3, <2>4 DEF Counted
  <2>7. Spare' /\ Bounded'
    BY <1>1, <2>1 DEF IInv, Spare, Bounded
  <2>8. QED
    BY <1>1, <1>4, <2>1, <2>2, <2>5, <2>6, <2>7 DEF IInv
<1>5. CASE k \notin H
  <2>1. last' = <<"remove", k, "NOT_FOUND">> /\ UNCHANGED <<buckets, capacity, count, tombstones>>
    BY <1>3, <1>5 DEF Remove
  <2>2. Ids' = Ids /\ Ids = Ids \ {k}
    BY <1>1, <1>5, <2>1 DEF Ids
  <2>3. IInv'
    BY <2>1 DEF IInv, Bounded, Counted, Spare
  <2>4. QED
    BY <1>1, <1>5, <2>1, <2>2, <2>3
<1>6. QED
  BY <1>4, <1>5

LEMMA LookupStep ==
  ASSUME IInv, NEW k \in Keys, Lookup(k)
  PROVE  /\ IInv' /\ Ids' = Ids
         /\ last' = <<"lookup", k, IF k \in Ids THEN "OK" ELSE "NOT_FOUND">>
<1>1. capacity \in Nat \ {0} /\ Table(buckets, capacity)
      /\ Ids = HeldIn(buckets, capacity)
  BY CountsAreNat, IdsHeld DEF IInv
<1>2. buckets[Found(buckets, capacity, k)] = k <=> k \in Ids
  BY <1>1, InvHole, FoundHeld
<1>3. UNCHANGED <<buckets, capacity, count, tombstones>>
  BY DEF Lookup
<1>4. IInv' /\ Ids' = Ids
  BY <1>3 DEF IInv, Bounded, Counted, Spare, Ids
<1>5. QED
  BY <1>2, <1>4 DEF Lookup

LEMMA StutterStep == ASSUME IInv, UNCHANGED vars PROVE IInv' /\ Ids' = Ids /\ last' = last
BY DEF vars, IInv, Bounded, Counted, Spare, Ids

LEMMA InvStep == ASSUME IInv, [Next]_vars PROVE IInv'
BY InsertStep, RemoveStep, LookupStep, StutterStep DEF Next

-----------------------------------------------------------------------------
(* The theorems.                                                           *)

THEOREM Inductive == Spec => []IInv
<1>1. Init => IInv
  BY InitInv
<1>2. IInv /\ [Next]_vars => IInv'
  BY InvStep
<1>3. QED
  BY <1>1, <1>2, PTL DEF Spec

LEMMA InvTypeOK == ASSUME IInv PROVE TypeOK
<1>1. capacity \in Nat \ {0} /\ count \in Nat /\ tombstones \in Nat
  BY CountsAreNat
<1>2. QED
  BY <1>1 DEF IInv, TypeOK, Bounded, Spare, Table, Shape

\* Every variable keeps a value of its kind, through collisions and growth.
THEOREM TypeCorrect == Spec => []TypeOK
<1>1. IInv => TypeOK
  BY InvTypeOK
<1>2. QED
  BY <1>1, Inductive, PTL

LEMMA InvProbesEnd == ASSUME IInv PROVE ProbesEnd
<1>1. capacity \in Nat \ {0} /\ DOMAIN buckets = 0 .. capacity - 1
  BY CountsAreNat DEF IInv, Table, Shape
<1>2. {i \in DOMAIN buckets : buckets[i] \in Keys} = LiveIn(buckets, capacity)
      /\ {i \in DOMAIN buckets : buckets[i] = Deleted} = DeadIn(buckets, capacity)
  BY <1>1 DEF LiveIn, DeadIn
<1>3. Cardinality(LiveIn(buckets, capacity)) = count
      /\ Cardinality(DeadIn(buckets, capacity)) = tombstones
  BY <1>1, LiveCount DEF IInv, Counted
<1>4. \E i \in DOMAIN buckets : buckets[i] = Empty
  BY <1>1, InvHole DEF HasHole
<1>5. QED
  BY <1>2, <1>3, <1>4 DEF ProbesEnd

\* The load factor counts tombstones, so some bucket is always empty and no
\* probe loop of insert, lookup or remove goes round the table for ever.
THEOREM EveryProbeEnds == Spec => []ProbesEnd
<1>1. IInv => ProbesEnd
  BY InvProbesEnd
<1>2. QED
  BY <1>1, Inductive, PTL

LEMMA IndexInit == ASSUME Init PROVE Index!Init
<1>1. Ids = {}
  BY DEF Init, Ids, Fresh
<1>2. QED
  BY <1>1 DEF Index!Init, Init, Ids

LEMMA IndexStep == ASSUME IInv, [Next]_vars PROVE [Index!Next]_<<Ids, last>>
<1>1. ASSUME NEW k \in Keys, Insert(k) PROVE Index!Insert(k)
  BY <1>1, InsertStep DEF Inserted, Index!Insert, Ids
<1>2. ASSUME NEW k \in Keys, Remove(k) PROVE Index!Remove(k)
  BY <1>2, RemoveStep DEF Index!Remove, Ids
<1>3. ASSUME NEW k \in Keys, Lookup(k) PROVE Index!Lookup(k)
  BY <1>3, LookupStep DEF Index!Lookup, Ids
<1>4. CASE UNCHANGED vars
  BY <1>4, StutterStep
<1>5. QED
  BY <1>1, <1>2, <1>3, <1>4 DEF Next, Index!Next

\* Seen from outside the table is a set of ids: each call answers as a set
\* would, whatever was inserted, removed and moved before it.
THEOREM IsAnIndex == Spec => IndexSpec
<1>1. Init => Index!Init
  BY IndexInit
<1>2. IInv /\ [Next]_vars => [Index!Next]_<<Ids, last>>
  BY IndexStep
<1>3. QED
  BY <1>1, <1>2, Inductive, PTL DEF Spec, IndexSpec, Index!Spec, Ids
=============================================================================
