----------------------------- MODULE AddressMap -----------------------------
(***************************************************************************)
(* The address map of src/core/address_map.c: a hash table with open       *)
(* addressing, linear probing and tombstones.  Every call holds the rwlock *)
(* from its first access to its last, so one action is one whole call.     *)
(***************************************************************************)
EXTENDS Integers, FiniteSets

CONSTANTS
  Keys,      \* block ids (none equals a sentinel)
  Home,      \* id -> its mixed hash, before it is masked with capacity - 1
  InitCap,   \* initial capacity, a power of 2 (at least 16 in the code)
  MaxCap,    \* BOUND: the table does not grow beyond it
  Empty, Deleted   \* ADDRMAP_EMPTY, ADDRMAP_DELETED

ASSUME MapConstantsOK ==
  /\ IsFiniteSet(Keys) /\ Home \in [Keys -> Nat]
  /\ InitCap \in Nat /\ InitCap >= 4 /\ MaxCap \in Nat /\ InitCap <= MaxCap
  /\ Empty \notin Keys /\ Deleted \notin Keys /\ Empty # Deleted

VARIABLES
  buckets,      \* index -> id or sentinel
  capacity, count, tombstones,
  last          \* HISTORY: the last call: <<operation, id, result>>

vars == <<buckets, capacity, count, tombstones, last>>

Fresh(cap) == [i \in 0 .. cap - 1 |-> Empty]

-----------------------------------------------------------------------------
(* Probing.  (Definitions marked MUTANT are faulty variants of the one that *)
(* follows; nothing uses them.)                                             *)

\* The bucket reached after i steps from the home bucket of k.
At(k, i, cap) == (Home[k] + i) % cap

\* The probe loop stops at the id it looks for or at an empty bucket.
StopsAtHole(b, k) == b \in {k, Empty, Deleted}  \* MUTANT: tombstones stop it
Stops(b, k)       == b \in {k, Empty}

\* Where the loop stops in table t, if it ever does.
Found(t, cap, k) ==
  At(k, CHOOSE i \in 0 .. cap - 1 :
          /\ Stops(t[At(k, i, cap)], k)
          /\ \A j \in 0 .. i - 1 : ~ Stops(t[At(k, j, cap)], k), cap)

\* The first tombstone before that place, or the place itself.
Vacant(t, cap, k) ==
  LET path == {j \in 0 .. cap - 1 :
                 \A i \in 0 .. j : ~ Stops(t[At(k, i, cap)], k)}
      dead == {j \in path : t[At(k, j, cap)] = Deleted}
  IN  IF dead = {} THEN Found(t, cap, k)
      ELSE At(k, CHOOSE j \in dead : \A i \in dead : j <= i, cap)

\* addrmap_resize: the live ids, in the order of their buckets, into a fresh
\* table; tombstones are left behind.
Rehashed(t, cap, newCap) ==
  LET upTo[n \in 0 .. cap] ==
        IF n = 0 THEN Fresh(newCap)
        ELSE LET k == t[n - 1]
             IN  IF k \in {Empty, Deleted} THEN upTo[n - 1]
                 ELSE [upTo[n - 1] EXCEPT ![Found(upTo[n - 1], newCap, k)] = k]
  IN  upTo[cap]

\* The load factor: tombstones count, since only an empty bucket ends a miss.
CrowdedLive == count * 4 >= capacity * 3  \* MUTANT: tombstones not counted
Crowded     == (count + tombstones) * 4 >= capacity * 3

-----------------------------------------------------------------------------
\* The tombstones left, of n, after an id was put where `old` was.
ReusedAlways(n, old) == n - 1  \* MUTANT: one less, whatever was there
Reused(n, old)       == IF old = Deleted THEN n - 1 ELSE n

\* Inserting k into a table with n tombstones: the existing id is kept.
Put(k, t, cap, n) ==
  LET at == Vacant(t, cap, k)
  IN  /\ capacity' = cap
      /\ IF t[Found(t, cap, k)] = k
         THEN /\ buckets' = t /\ tombstones' = n /\ UNCHANGED count
              /\ last' = <<"insert", k, "ALREADY">>
         ELSE /\ buckets' = [t EXCEPT ![at] = k]
              /\ tombstones' = Reused(n, t[at])
              /\ count' = count + 1
              /\ last' = <<"insert", k, "OK">>

Insert(k) ==
  \/ ~Crowded /\ Put(k, buckets, capacity, tombstones)
  \/ /\ Crowded /\ 2 * capacity <= MaxCap
     /\ Put(k, Rehashed(buckets, capacity, 2 * capacity), 2 * capacity, 0)
  \/ /\ Crowded                                   \* no memory for the new table
     /\ last' = <<"insert", k, "OOM">>
     /\ UNCHANGED <<buckets, capacity, count, tombstones>>

Emptied(k) == [buckets EXCEPT ![Found(buckets, capacity, k)] = Deleted]

Remove(k) ==
  IF buckets[Found(buckets, capacity, k)] = k
  THEN /\ buckets' = Emptied(k)
       /\ count' = count - 1 /\ tombstones' = tombstones + 1
       /\ last' = <<"remove", k, "OK">>
       /\ UNCHANGED capacity
  ELSE /\ last' = <<"remove", k, "NOT_FOUND">>
       /\ UNCHANGED <<buckets, capacity, count, tombstones>>

Lookup(k) ==
  /\ last' = <<"lookup", k, IF buckets[Found(buckets, capacity, k)] = k
                            THEN "OK" ELSE "NOT_FOUND">>
  /\ UNCHANGED <<buckets, capacity, count, tombstones>>

Init ==
  /\ buckets = Fresh(InitCap) /\ capacity = InitCap
  /\ count = 0 /\ tombstones = 0 /\ last = <<>>

Next == \E k \in Keys : Insert(k) \/ Remove(k) \/ Lookup(k)
Spec == Init /\ [][Next]_vars

-----------------------------------------------------------------------------
(* Properties.                                                             *)

\* Every variable holds a value of its kind.
TypeOK ==
  /\ capacity \in InitCap .. MaxCap
  /\ buckets \in [0 .. capacity - 1 -> Keys \union {Empty, Deleted}]
  /\ count \in 0 .. capacity /\ tombstones \in 0 .. capacity

\* count and tombstones are what the table holds, and some bucket is empty:
\* without one the probe loops of insert, lookup and remove would never end.
ProbesEnd ==
  /\ count = Cardinality({i \in DOMAIN buckets : buckets[i] \in Keys})
  /\ tombstones = Cardinality({i \in DOMAIN buckets : buckets[i] = Deleted})
  /\ \E i \in DOMAIN buckets : buckets[i] = Empty

\* Seen from outside the table is a set of ids: no id is lost, found twice or
\* found after its removal, through collisions, reuse of tombstones and growth.
Index == INSTANCE BlockIndex
           WITH held <- {buckets[i] : i \in DOMAIN buckets} \ {Empty, Deleted}
IndexSpec == Index!Spec
=============================================================================
