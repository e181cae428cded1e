------------------------- MODULE IOWorkerPoolProof -------------------------
(***************************************************************************)
(* For any number of workers, callers, places and cells of the ring, every  *)
(* task handed to the pool is performed exactly once, a flush is a barrier, *)
(* and callers that flush between two tasks on one place read what they     *)
(* wrote last, however the threads interleave and wake.                    *)
(***************************************************************************)
EXTENDS IOWorkerPool, FiniteSetTheorems, TLAPS

USE PoolConstantsOK DEF PoolConstantsOK

\* Workers performing a task, callers on their way into the ring, and the cell
\* of the i-th queued task.
Io       == {w \in Workers : wstate[w] = "io"}
Entering == {c \in Callers : cstate[c] \in {"submit", "notFull"}}
Cell(i)  == (head + i) % QueueCap

\* The ring holds the tasks submitted last, in order.
RingOK ==
  /\ count <= submitted
  /\ tail = Cell(count)
  /\ \A i \in 0 .. count - 1 : /\ queue[Cell(i)] \in Tasks
                               /\ queue[Cell(i)].id = submitted - count + 1 + i

\* Workers hold different tasks, and none that is still in the ring.
HandsOK ==
  /\ \A w \in Busy : hand[w] \in Tasks /\ hand[w].id <= submitted - count
  /\ \A v, w \in Busy : hand[v].id = hand[w].id => v = w

\* What has left the ring is being performed or has been, once.
RunsOK ==
  \A i \in Ids : runs[i] = IF i <= submitted - count /\ ~ \E w \in Io : hand[w].id = i
                           THEN 1 ELSE 0

CountOK == completed = submitted - count - Cardinality(Busy)

\* What the stages of the pool's life leave possible.
LifeOK ==
  /\ pool = "running" => ~ shutdown /\ \A w \in Workers : wstate[w] # "gone"
  /\ pool = "joining" => shutdown
  /\ pool # "running" /\ (\E w \in Workers : wstate[w] = "gone") => count = 0
  /\ pool = "none" => /\ \A w \in Workers : wstate[w] = "gone"
                      /\ shutdown \/ \A c \in Callers : cstate[c] = "out"

\* The callers that enter find room under the bound, with a place of their own.
RoomOK == submitted + Cardinality(Entering) <= MaxTasks
WantOK ==
  \A c \in Entering : /\ want[c] \in [op : Ops, place : PlacesOf[c]]
                      /\ FlushBetween => want[c].place \notin unflushed

\* The tasks not performed yet.  With a flush between two tasks on a place
\* there is one at most, and a place without a write to come is up to date.
Open == {queue[Cell(i)] : i \in 0 .. count - 1} \cup {hand[w] : w \in Io}
DataOK ==
  FlushBetween =>
    /\ \A t \in Open : t.place \in unflushed
    /\ \A t, u \in Open : t.place = u.place => t = u
    /\ \A t \in Open : t.op = "write" => latest[t.place] = t.id
    /\ \A p \in Places : (\A t \in Open : t.place = p => t.op # "write")
                          => stored[p] = latest[p]

Core == RingOK /\ HandsOK /\ RunsOK /\ CountOK
IInv == TypeOK /\ Core /\ LifeOK /\ RoomOK /\ WantOK /\ DataOK

-----------------------------------------------------------------------------
(* The ring.                                                               *)

LEMMA Wrap ==
  ASSUME NEW h \in Cells, NEW i \in 0 .. QueueCap
  PROVE  (h + i) % QueueCap = IF h + i < QueueCap THEN h + i ELSE h + i - QueueCap
  BY DEF Cells

LEMMA StepIs ==
  ASSUME NEW h \in Cells
  PROVE  Step(h) = (IF h + 1 < QueueCap THEN h + 1 ELSE 0) /\ Step(h) \in Cells
<1>1. 1 \in 0 .. QueueCap
  OBVIOUS
<1>2. Step(h) = IF h + 1 < QueueCap THEN h + 1 ELSE h + 1 - QueueCap
  BY <1>1, Wrap DEF Step
<1>3. QED
  BY <1>2 DEF Cells

LEMMA CellIs ==
  ASSUME TypeOK, NEW i \in 0 .. QueueCap
  PROVE  /\ Cell(i) = IF head + i < QueueCap THEN head + i ELSE head + i - QueueCap
         /\ Cell(i) \in Cells
<1>1. head \in Cells
  BY DEF TypeOK
<1>2. Cell(i) = IF head + i < QueueCap THEN head + i ELSE head + i - QueueCap
  BY <1>1, Wrap DEF Cell
<1>3. QED
  BY <1>1, <1>2 DEF Cells

-----------------------------------------------------------------------------
(* Wakeups: some threads asleep in one state go to another.                *)

Woken(s, r, asleep, awake) ==
  /\ r = [t \in DOMAIN s |-> r[t]]
  /\ \A t \in DOMAIN s : r[t] = s[t] \/ (s[t] = asleep /\ r[t] = awake)

LEMMA WakeOneWakes ==
  ASSUME NEW s, s = [t \in DOMAIN s |-> s[t]], NEW asleep, NEW awake,
         NEW r \in WakeOne(s, asleep, awake)
  PROVE  Woken(s, r, asleep, awake)
<1>1. r = s \/ \E t \in DOMAIN s : s[t] = asleep /\ r = [s EXCEPT ![t] = awake]
  BY DEF WakeOne
<1>2. CASE r = s
  BY <1>2 DEF Woken
<1>3. ASSUME NEW t \in DOMAIN s, s[t] = asleep, r = [s EXCEPT ![t] = awake]
      PROVE  Woken(s, r, asleep, awake)
  BY <1>3 DEF Woken
<1>4. QED
  BY <1>1, <1>2, <1>3

LEMMA WakeAllWakes ==
  ASSUME NEW s, NEW asleep, NEW awake
  PROVE  Woken(s, WakeAll(s, asleep, awake), asleep, awake)
  BY DEF Woken, WakeAll

\* What such a step leaves of the workers and of the callers.
LEMMA WorkersWoken ==
  ASSUME TypeOK, Woken(wstate, wstate', "notEmpty", "ready")
  PROVE  /\ wstate' \in [Workers -> WorkerStates] /\ Busy' = Busy /\ Io' = Io
         /\ \A w \in Workers : wstate'[w] = "gone" <=> wstate[w] = "gone"
<1>1. wstate = [w \in Workers |-> wstate[w]] /\ DOMAIN wstate = Workers
  BY DEF TypeOK
<1>2. \A w \in Workers : /\ wstate[w] \in WorkerStates
                         /\ \/ wstate'[w] = wstate[w]
                            \/ wstate[w] = "notEmpty" /\ wstate'[w] = "ready"
  BY <1>1 DEF TypeOK, Woken
<1>3. wstate' = [w \in Workers |-> wstate'[w]]
  BY <1>1 DEF Woken
<1>4. \A w \in Workers : wstate'[w] \in WorkerStates
  BY <1>2 DEF WorkerStates
<1>5. QED
  BY <1>2, <1>3, <1>4 DEF Busy, Io

LEMMA CallersWoken ==
  ASSUME TypeOK, \/ Woken(cstate, cstate', "notFull", "submit")
                 \/ Woken(cstate, cstate', "allDone", "flush")
  PROVE  /\ cstate' \in [Callers -> CallerStates] /\ Entering' = Entering
         /\ \A c \in Callers : cstate'[c] = "out" <=> cstate[c] = "out"
<1>1. cstate = [c \in Callers |-> cstate[c]] /\ DOMAIN cstate = Callers
  BY DEF TypeOK
<1>2. \A c \in Callers : /\ cstate[c] \in CallerStates
                         /\ \/ cstate'[c] = cstate[c]
                            \/ cstate[c] = "notFull" /\ cstate'[c] = "submit"
                            \/ cstate[c] = "allDone" /\ cstate'[c] = "flush"
  BY <1>1 DEF TypeOK, Woken
<1>3. cstate' = [c \in Callers |-> cstate'[c]]
  BY <1>1 DEF Woken
<1>4. \A c \in Callers : cstate'[c] \in CallerStates
  BY <1>2 DEF CallerStates
<1>5. QED
  BY <1>2, <1>3, <1>4 DEF Entering

-----------------------------------------------------------------------------
(* Steps that leave a part of the state alone.                             *)

LEMMA CoreKept ==
  ASSUME Core, UNCHANGED <<ringVars, submitted, completed, hand, runs>>,
         Busy' = Busy, Io' = Io
  PROVE  Core'
  BY DEF Core, RingOK, HandsOK, RunsOK, CountOK, ringVars, Cell

LEMMA DataKept ==
  ASSUME DataOK, UNCHANGED <<ringVars, hand, stored, latest, unflushed>>, Io' = Io
  PROVE  DataOK'
<1>1. Open' = Open
  BY DEF Open, Cell, ringVars
<1>2. QED
  BY <1>1 DEF DataOK

LEMMA BusyFinite ==
  IsFiniteSet(Busy) /\ Cardinality(Busy) \in Nat
<1>1. IsFiniteSet(Busy)
  BY FS_Subset DEF Busy
<1>2. QED
  BY <1>1, FS_CardinalityType

LEMMA EnteringFinite ==
  IsFiniteSet(Entering) /\ Cardinality(Entering) \in Nat
<1>1. IsFiniteSet(Entering)
  BY FS_Subset DEF Entering
<1>2. QED
  BY <1>1, FS_CardinalityType

LEMMA CallsKept ==
  ASSUME RoomOK, WantOK, UNCHANGED <<submitted, want, unflushed>>, Entering' = Entering
  PROVE  RoomOK' /\ WantOK'
  BY DEF RoomOK, WantOK

-----------------------------------------------------------------------------
(* The pool's life.                                                        *)

LEMMA InitFine == Init => IInv
<1> SUFFICES ASSUME Init PROVE IInv
  OBVIOUS
<1>1. Busy = {} /\ Io = {} /\ Entering = {}
  BY DEF Init, Busy, Io, Entering
<1>2. Cardinality(Busy) = 0 /\ Cardinality(Entering) = 0
  BY <1>1, FS_EmptySet
<1>3. 0 % QueueCap = 0
  OBVIOUS
<1>4. TypeOK
  <2>1. 0 \in Cells /\ 0 \in 0 .. MaxTasks /\ 0 \in 0 .. QueueCap /\ 0 \in Data
    BY DEF Cells, Data
  <2>2. /\ queue \in [Cells -> Tasks \union {NoTask}]
        /\ hand \in [Workers -> Tasks \union {NoTask}]
        /\ wstate \in [Workers -> WorkerStates]
    BY DEF Init, WorkerStates
  <2>3. /\ cstate \in [Callers -> CallerStates]
        /\ want \in [Callers -> [op : Ops, place : Places] \union {NoTask}]
    BY DEF Init, CallerStates
  <2>4. stored \in [Places -> Data] /\ latest \in [Places -> Data] /\ runs \in [Ids -> Nat]
    BY <2>1 DEF Init
  <2>5. QED
    BY <2>1, <2>2, <2>3, <2>4 DEF Init, TypeOK
<1>5. Core
  BY <1>1, <1>2, <1>3 DEF Init, Core, RingOK, HandsOK, RunsOK, CountOK, Cell, Ids
<1>6. LifeOK
  BY DEF Init, LifeOK
<1>7. RoomOK /\ WantOK
  BY <1>1, <1>2 DEF Init, RoomOK, WantOK
<1>8. DataOK
  BY <1>1 DEF Init, DataOK, Open
<1>9. QED
  BY <1>4, <1>5, <1>6, <1>7, <1>8 DEF IInv

LEMMA PoolInitFine == ASSUME IInv, PoolInit PROVE IInv'
<1>1. Busy' = {} /\ Io' = {} /\ Entering' = {}
  BY DEF PoolInit, Busy, Io, Entering, callerVars
<1>2. Cardinality(Busy') = 0 /\ Cardinality(Entering') = 0
  BY <1>1, FS_EmptySet
<1>3. 0 % QueueCap = 0
  OBVIOUS
<1>4. TypeOK'
  <2>1. 0 \in Cells /\ 0 \in 0 .. MaxTasks /\ 0 \in 0 .. QueueCap /\ 0 \in Data
    BY DEF Cells, Data
  <2>2. /\ queue' \in [Cells -> Tasks \union {NoTask}]
        /\ hand' \in [Workers -> Tasks \union {NoTask}]
        /\ wstate' \in [Workers -> WorkerStates]
    BY DEF PoolInit, WorkerStates
  <2>3. /\ cstate' \in [Callers -> CallerStates]
        /\ want' \in [Callers -> [op : Ops, place : Places] \union {NoTask}]
    BY DEF IInv, TypeOK, PoolInit, callerVars
  <2>4. stored' \in [Places -> Data] /\ latest' \in [Places -> Data] /\ runs' \in [Ids -> Nat]
    BY <2>1 DEF PoolInit
  <2>5. QED
    BY <2>1, <2>2, <2>3, <2>4 DEF PoolInit, TypeOK
<1>5. Core'
  BY <1>1, <1>2, <1>3 DEF PoolInit, Core, RingOK, HandsOK, RunsOK, CountOK, Cell, Ids
<1>6. LifeOK'
  BY DEF PoolInit, LifeOK
<1>7. RoomOK' /\ WantOK'
  BY <1>1, <1>2 DEF PoolInit, RoomOK, WantOK
<1>8. DataOK'
  BY <1>1 DEF PoolInit, DataOK, Open
<1>9. QED
  BY <1>4, <1>5, <1>6, <1>7, <1>8 DEF IInv

LEMMA DestroyFine == ASSUME IInv, Destroy PROVE IInv'
<1>1. Woken(wstate, wstate', "notEmpty", "ready")
  BY WakeAllWakes DEF Destroy
<1>2. /\ wstate' \in [Workers -> WorkerStates] /\ Busy' = Busy /\ Io' = Io
      /\ \A w \in Workers : wstate'[w] = "gone" <=> wstate[w] = "gone"
  BY <1>1, WorkersWoken DEF IInv
<1>3. Entering' = Entering
  BY DEF Destroy, callerVars, Entering
<1>4. TypeOK'
  BY <1>2 DEF IInv, Destroy, TypeOK, ringVars, callerVars, dataVars
<1>5. Core'
  BY <1>2, CoreKept DEF IInv, Destroy, dataVars
<1>6. LifeOK'
  BY <1>2 DEF IInv, Destroy, LifeOK
<1>7. RoomOK' /\ WantOK'
  BY <1>3, CallsKept DEF IInv, Destroy, callerVars
<1>8. DataOK'
  BY <1>2, DataKept DEF IInv, Destroy, dataVars
<1>9. QED
  BY <1>4, <1>5, <1>6, <1>7, <1>8 DEF IInv

LEMMA JoinedFine == ASSUME IInv, Joined PROVE IInv'
<1>1. Busy' = Busy /\ Io' = Io /\ Entering' = Entering
  BY DEF Joined, workerVars, callerVars, Busy, Io, Entering
<1>2. TypeOK'
  BY DEF IInv, Joined, TypeOK, ringVars, workerVars, callerVars, dataVars
<1>3. Core'
  BY <1>1, CoreKept DEF IInv, Joined, workerVars, dataVars
<1>4. LifeOK'
  BY DEF IInv, Joined, LifeOK, workerVars, callerVars, ringVars
<1>5. RoomOK' /\ WantOK'
  BY <1>1, CallsKept DEF IInv, Joined, callerVars
<1>6. DataOK'
  BY <1>1, DataKept DEF IInv, Joined, workerVars, dataVars
<1>7. QED
  BY <1>2, <1>3, <1>4, <1>5, <1>6 DEF IInv

-----------------------------------------------------------------------------
(* The workers.                                                            *)

LEMMA SleepFine == ASSUME IInv, NEW w \in Workers, Sleep(w) PROVE IInv'
<1>1. TypeOK'
  BY DEF IInv, Sleep, TypeOK, WorkerStates, ringVars, callerVars, dataVars
<1>2. Busy' = Busy /\ Io' = Io /\ Entering' = Entering
  BY DEF IInv, TypeOK, Sleep, Busy, Io, Entering, callerVars
<1>3. Core'
  BY <1>2, CoreKept DEF IInv, Sleep, dataVars
<1>4. LifeOK'
  BY DEF IInv, TypeOK, Sleep, LifeOK, callerVars, ringVars
<1>5. RoomOK' /\ WantOK'
  BY <1>2, CallsKept DEF IInv, Sleep, callerVars
<1>6. DataOK'
  BY <1>2, DataKept DEF IInv, Sleep, dataVars
<1>7. QED
  BY <1>1, <1>3, <1>4, <1>5, <1>6 DEF IInv

LEMMA LeaveFine == ASSUME IInv, NEW w \in Workers, Leave(w) PROVE IInv'
<1>1. TypeOK'
  BY DEF IInv, Leave, TypeOK, WorkerStates, ringVars, callerVars, dataVars
<1>2. Busy' = Busy /\ Io' = Io /\ Entering' = Entering
  BY DEF IInv, TypeOK, Leave, Busy, Io, Entering, callerVars
<1>3. Core'
  BY <1>2, CoreKept DEF IInv, Leave, dataVars
<1>4. LifeOK'
  BY DEF IInv, TypeOK, Leave, MayGo, LifeOK, callerVars, ringVars
<1>5. RoomOK' /\ WantOK'
  BY <1>2, CallsKept DEF IInv, Leave, callerVars
<1>6. DataOK'
  BY <1>2, DataKept DEF IInv, Leave, dataVars
<1>7. QED
  BY <1>1, <1>3, <1>4, <1>5, <1>6 DEF IInv

\* The oldest task goes from the ring to the worker.
LEMMA TakeFine == ASSUME IInv, NEW w \in Workers, Take(w) PROVE IInv'
<1> DEFINE taken == submitted - count
<1>1. /\ count \in Nat /\ count # 0 /\ count <= QueueCap /\ submitted \in Nat
      /\ count <= submitted /\ head \in Cells
  BY DEF IInv, TypeOK, Take, Core, RingOK
<1>2. queue[head] \in Tasks /\ queue[head].id = taken + 1
  <2>1. Cell(0) = head
    BY <1>1, CellIs DEF IInv, Cells
  <2>2. QED
    BY <1>1, <2>1 DEF IInv, Core, RingOK
<1>3. head' \in Cells /\ \A i \in 0 .. count - 1 : Cell(i)' = Cell(i + 1)
  <2>1. head' = (IF head + 1 < QueueCap THEN head + 1 ELSE 0) /\ head' \in Cells
    BY <1>1, StepIs DEF Take
  <2>2. ASSUME NEW i \in 0 .. count - 1 PROVE Cell(i)' = Cell(i + 1)
    <3>1. i \in 0 .. QueueCap /\ i + 1 \in 0 .. QueueCap
      BY <1>1
    <3>2. (head' + i) % QueueCap = IF head' + i < QueueCap THEN head' + i
                                   ELSE head' + i - QueueCap
      BY <2>1, <3>1, Wrap
    <3>3. Cell(i + 1) = IF head + (i + 1) < QueueCap THEN head + (i + 1)
                        ELSE head + (i + 1) - QueueCap
      BY <3>1, CellIs DEF IInv
    <3>4. (head' + i) % QueueCap = Cell(i + 1)
      BY <1>1, <2>1, <3>1, <3>2, <3>3 DEF Cells
    <3>5. QED
      BY <3>4 DEF Cell
  <2>3. QED
    BY <2>1, <2>2
<1>4. Woken(cstate, cstate', "notFull", "submit")
  BY WakeOneWakes DEF Take, IInv, TypeOK
<1>5. /\ cstate' \in [Callers -> CallerStates] /\ Entering' = Entering
      /\ \A c \in Callers : cstate'[c] = "out" <=> cstate[c] = "out"
  BY <1>4, CallersWoken DEF IInv
<1>6. /\ w \notin Busy /\ Busy' = Busy \cup {w} /\ Io' = Io \cup {w}
      /\ hand'[w] = queue[head] /\ \A v \in Workers : v # w => hand'[v] = hand[v]
  BY DEF IInv, TypeOK, Take, Busy, Io
<1>7. TypeOK'
  <2>1. count' \in 0 .. QueueCap
    BY <1>1 DEF Take
  <2>2. wstate' \in [Workers -> WorkerStates] /\ hand' \in [Workers -> Tasks \union {NoTask}]
    BY <1>2 DEF IInv, TypeOK, Take, WorkerStates
  <2>3. QED
    BY <1>3, <1>5, <2>1, <2>2 DEF IInv, TypeOK, Take, dataVars
<1>8. Core'
  <2>1. submitted' - count' = taken + 1 /\ count' = count - 1 /\ submitted' = submitted
    BY <1>1 DEF Take
  <2>2. RingOK'
    <3>1. tail' = (head' + count') % QueueCap
      <4>1. count' \in 0 .. count - 1 /\ count' + 1 = count
        BY <1>1, <2>1
      <4>2. \A i \in 0 .. count - 1 : (head' + i) % QueueCap = Cell(i + 1)
        BY <1>3 DEF Cell
      <4>3. (head' + count') % QueueCap = Cell(count)
        BY <4>1, <4>2
      <4>4. QED
        BY <4>3 DEF IInv, Core, RingOK, Take
    <3>2. ASSUME NEW i \in 0 .. count' - 1
          PROVE  /\ queue'[Cell(i)'] \in Tasks
                 /\ queue'[Cell(i)'].id = submitted' - count' + 1 + i
      <4>1. i \in 0 .. count - 1 /\ i + 1 \in 0 .. count - 1
        BY <1>1, <2>1
      <4>2. queue' = queue /\ Cell(i)' = Cell(i + 1)
        BY <1>3, <4>1 DEF Take
      <4>3. queue[Cell(i + 1)] \in Tasks /\ queue[Cell(i + 1)].id = taken + 1 + (i + 1)
        BY <4>1 DEF IInv, Core, RingOK
      <4>4. QED
        BY <1>1, <2>1, <4>2, <4>3
    <3>3. count' <= submitted'
      BY <1>1, <2>1
    <3>4. QED
      BY <3>1, <3>2, <3>3 DEF RingOK, Cell
  <2>3. HandsOK'
    <3>1. \A v \in Busy : /\ hand'[v] = hand[v] /\ hand[v] \in Tasks /\ hand[v].id \in Int
                          /\ hand[v].id <= taken
      BY <1>6 DEF IInv, Core, HandsOK, Busy, Tasks, Ids
    <3>2. \A v \in Busy' : hand'[v] \in Tasks /\ hand'[v].id <= submitted' - count'
      BY <1>1, <1>2, <1>6, <2>1, <3>1
    <3>3. \A u, v \in Busy' : hand'[u].id = hand'[v].id => u = v
      <4>1. \A u, v \in Busy : hand[u].id = hand[v].id => u = v
        BY DEF IInv, Core, HandsOK
      <4>2. \A v \in Busy : hand'[v].id # hand'[w].id
        BY <1>1, <1>2, <1>6, <3>1
      <4>3. QED
        BY <1>6, <3>1, <4>1, <4>2
    <3>4. QED
      BY <3>2, <3>3 DEF HandsOK
  <2>4. RunsOK'
    <3> SUFFICES ASSUME NEW i \in Ids
                 PROVE  runs'[i] = IF i <= submitted' - count' /\ ~ \E v \in Io' : hand'[v].id = i
                                   THEN 1 ELSE 0
      BY DEF RunsOK
    <3>1. runs' = runs /\ i \in Int
      BY DEF Take, dataVars, Ids
    <3>2. runs[i] = IF i <= taken /\ ~ \E v \in Io : hand[v].id = i THEN 1 ELSE 0
      BY DEF IInv, Core, RunsOK
    <3>3. Io \subseteq Workers /\ w \notin Io
      BY <1>6 DEF Io, Busy
    <3>4. CASE i = taken + 1
      <4>1. w \in Io' /\ hand'[w].id = i
        BY <1>2, <1>6, <3>4
      <4>2. ~ i <= taken
        BY <1>1, <3>4
      <4>3. QED
        BY <3>1, <3>2, <4>1, <4>2
    <3>5. CASE i # taken + 1
      <4>1. i <= taken <=> i <= submitted' - count'
        BY <1>1, <2>1, <3>1, <3>5
      <4>2. (\E v \in Io' : hand'[v].id = i) <=> (\E v \in Io : hand[v].id = i)
        BY <1>2, <1>6, <3>3, <3>5
      <4>3. QED
        BY <3>1, <3>2, <4>1, <4>2
    <3>6. QED
      BY <3>4, <3>5
  <2>5. CountOK'
    <3>1. Cardinality(Busy') = Cardinality(Busy) + 1 /\ Cardinality(Busy) \in Nat
      BY <1>6, BusyFinite, FS_AddElement
    <3>2. completed' = completed /\ completed \in Nat
      BY DEF IInv, TypeOK, Take
    <3>3. completed = taken - Cardinality(Busy)
      BY DEF IInv, Core, CountOK
    <3>4. QED
      BY <1>1, <2>1, <3>1, <3>2, <3>3 DEF CountOK
  <2>6. QED
    BY <2>2, <2>3, <2>4, <2>5 DEF Core
<1>9. LifeOK'
  <2>1. \A v \in Workers : wstate'[v] = "gone" <=> wstate[v] = "gone"
    BY DEF IInv, TypeOK, Take
  <2>2. QED
    BY <1>5, <2>1 DEF IInv, LifeOK, Take
<1>10. RoomOK' /\ WantOK'
  BY <1>5, CallsKept DEF IInv, Take
<1>11. DataOK'
  <2>1. Open' = Open
    <3>1. {queue'[Cell(i)'] : i \in 0 .. count' - 1} \cup {queue[head]} =
          {queue[Cell(i)] : i \in 0 .. count - 1}
      <4>1. Cell(0) = head
        BY <1>1, CellIs DEF IInv, Cells
      <4>2. \A i \in 0 .. count' - 1 : /\ i \in 0 .. count - 1 /\ i + 1 \in 0 .. count - 1
                                       /\ Cell(i)' = Cell(i + 1)
        BY <1>1, <1>3 DEF Take
      <4>3. \A i \in 0 .. count - 1 : i = 0 \/ i - 1 \in 0 .. count' - 1
        BY <1>1 DEF Take
      <4>4. \A i \in 0 .. count - 1 : i # 0 => Cell(i - 1)' = Cell(i)
        <5> SUFFICES ASSUME NEW i \in 0 .. count - 1, i # 0 PROVE Cell(i - 1)' = Cell(i)
          OBVIOUS
        <5>1. i - 1 \in 0 .. count - 1 /\ (i - 1) + 1 = i
          BY <1>1
        <5>2. Cell(i - 1)' = Cell((i - 1) + 1)
          BY <1>3, <5>1
        <5>3. QED
          BY <5>1, <5>2
      <4>5. queue' = queue
        BY DEF Take
      <4>6. 0 \in 0 .. count - 1
        BY <1>1
      <4>7. QED
        BY <4>1, <4>2, <4>3, <4>4, <4>5, <4>6
    <3>2. {hand'[v] : v \in Io'} = {hand[v] : v \in Io} \cup {queue[head]}
      <4>1. w \notin Io /\ Io \subseteq Workers
        BY <1>6 DEF Io, Busy
      <4>2. QED
        BY <1>6, <4>1
    <3>3. QED
      BY <3>1, <3>2 DEF Open
  <2>2. QED
    BY <2>1 DEF IInv, DataOK, Take, dataVars
<1>12. QED
  BY <1>7, <1>8, <1>9, <1>10, <1>11 DEF IInv

\* The tasks not performed yet have different ids.
LEMMA OpenDistinct ==
  ASSUME IInv, NEW w \in Io, NEW t \in {queue[Cell(i)] : i \in 0 .. count - 1}
                                   \cup {hand[v] : v \in Io \ {w}}
  PROVE  t # hand[w]
<1>1. /\ count \in Nat /\ submitted \in Nat /\ w \in Busy
      /\ hand[w].id \in Int /\ hand[w].id <= submitted - count
  BY DEF IInv, TypeOK, Core, HandsOK, Io, Busy, Tasks, Ids
<1>2. CASE t \in {queue[Cell(i)] : i \in 0 .. count - 1}
  <2>1. PICK i \in 0 .. count - 1 : t = queue[Cell(i)]
    BY <1>2
  <2>2. t.id = submitted - count + 1 + i
    BY <2>1 DEF IInv, Core, RingOK
  <2>3. QED
    BY <1>1, <2>2
<1>3. CASE t \in {hand[v] : v \in Io \ {w}}
  BY <1>1, <1>3 DEF IInv, Core, HandsOK, Io, Busy
<1>4. QED
  BY <1>2, <1>3

LEMMA PerformFine == ASSUME IInv, NEW w \in Workers, Perform(w) PROVE IInv'
<1> DEFINE task == hand[w]
           p == task.place
<1>1. /\ w \in Io /\ w \in Busy /\ Busy' = Busy /\ Io' = Io \ {w} /\ hand' = hand
      /\ Entering' = Entering
  BY DEF IInv, TypeOK, Perform, Busy, Io, Entering, callerVars
<1>2. /\ task \in Tasks /\ task.id \in Ids /\ p \in Places /\ task.op \in Ops
      /\ task.id <= submitted - count
  BY <1>1 DEF IInv, Core, HandsOK, Tasks
<1>3. \/ task.op = "read" /\ stored' = stored /\ latest' = latest
      \/ /\ task.op = "write"
         /\ \E d \in {task.id, Torn} :
              /\ stored' = [stored EXCEPT ![p] = d]
              /\ latest' = IF d = Torn THEN [latest EXCEPT ![p] = Torn] ELSE latest
  BY DEF Perform
<1>4. TypeOK'
  <2>1. stored' \in [Places -> Data] /\ latest' \in [Places -> Data]
    BY <1>2, <1>3 DEF IInv, TypeOK, Data
  <2>2. runs' \in [Ids -> Nat] /\ wstate' \in [Workers -> WorkerStates]
    BY <1>2 DEF IInv, TypeOK, Perform, WorkerStates
  <2>3. QED
    BY <2>1, <2>2 DEF IInv, TypeOK, Perform, ringVars, callerVars
<1>5. Core'
  <2>1. UNCHANGED <<queue, head, tail, count, submitted, completed, hand>>
    BY DEF Perform, ringVars
  <2>2. RingOK' /\ HandsOK' /\ CountOK'
    BY <1>1, <2>1 DEF IInv, Core, RingOK, HandsOK, CountOK, Cell
  <2>3. RunsOK'
    <3> SUFFICES ASSUME NEW i \in Ids
                 PROVE  runs'[i] = IF i <= submitted - count /\ ~ \E v \in Io' : hand[v].id = i
                                   THEN 1 ELSE 0
      BY <2>1 DEF RunsOK
    <3>1. runs[i] = IF i <= submitted - count /\ ~ \E v \in Io : hand[v].id = i THEN 1 ELSE 0
      BY DEF IInv, Core, RunsOK
    <3>2. runs' = [runs EXCEPT ![task.id] = runs[task.id] + 1]
      BY DEF Perform
    <3>3. CASE i = task.id
      <4>1. runs[i] = 0 /\ runs'[i] = 1
        BY <1>1, <1>2, <3>1, <3>2, <3>3 DEF IInv, TypeOK
      <4>2. ~ \E v \in Io' : hand[v].id = i
        BY <1>1, <3>3 DEF IInv, Core, HandsOK, Io, Busy
      <4>3. QED
        BY <1>2, <3>3, <4>1, <4>2
    <3>4. CASE i # task.id
      <4>1. runs'[i] = runs[i]
        BY <3>2, <3>4 DEF IInv, TypeOK
      <4>2. (\E v \in Io' : hand[v].id = i) <=> (\E v \in Io : hand[v].id = i)
        BY <1>1, <3>4
      <4>3. QED
        BY <3>1, <4>1, <4>2
    <3>5. QED
      BY <3>3, <3>4
  <2>4. QED
    BY <2>2, <2>3 DEF Core
<1>6. LifeOK'
  <2>1. \A v \in Workers : wstate'[v] = "gone" <=> wstate[v] = "gone"
    BY DEF IInv, TypeOK, Perform
  <2>2. QED
    BY <2>1 DEF IInv, LifeOK, Perform, ringVars, callerVars
<1>7. RoomOK' /\ WantOK'
  BY <1>1, CallsKept DEF IInv, Perform, callerVars
<1>8. DataOK'
  <2> SUFFICES ASSUME FlushBetween PROVE DataOK'
    BY DEF DataOK
  <2>1. Open' = {queue[Cell(i)] : i \in 0 .. count - 1} \cup {hand[v] : v \in Io \ {w}}
    BY <1>1 DEF Open, Cell, Perform, ringVars
  <2>2. Open' \subseteq Open /\ task \in Open /\ task \notin Open' /\ Open = Open' \cup {task}
    <3>1. {hand[v] : v \in Io} = {hand[v] : v \in Io \ {w}} \cup {task}
      BY <1>1
    <3>2. Open = Open' \cup {task}
      BY <2>1, <3>1 DEF Open
    <3>3. task \notin {hand[v] : v \in Io \ {w}}
      BY <1>1, OpenDistinct
    <3>4. task \notin {queue[Cell(i)] : i \in 0 .. count - 1}
      BY <1>1, OpenDistinct
    <3>5. QED
      BY <2>1, <3>2, <3>3, <3>4
  <2>3. /\ \A t \in Open : t.place \in unflushed
        /\ \A t, u \in Open : t.place = u.place => t = u
        /\ \A t \in Open : t.op = "write" => latest[t.place] = t.id
        /\ \A q \in Places : (\A t \in Open : t.place = q => t.op # "write")
                              => stored[q] = latest[q]
    BY DEF IInv, DataOK
  <2>4. \A t \in Open' : t.place # p
    BY <2>2, <2>3
  <2>5. \A q \in Places : q # p => stored'[q] = stored[q] /\ latest'[q] = latest[q]
    BY <1>3 DEF IInv, TypeOK
  <2>6. stored'[p] = latest'[p]
    <3>1. CASE task.op = "read"
      <4>1. \A t \in Open : t.place = p => t.op # "write"
        BY <2>2, <2>3, <3>1
      <4>2. QED
        BY <1>2, <1>3, <2>3, <3>1, <4>1
    <3>2. CASE task.op = "write"
      <4>1. latest[p] = task.id
        BY <2>2, <2>3, <3>2
      <4>2. QED
        BY <1>2, <1>3, <3>2, <4>1 DEF IInv, TypeOK
    <3>3. QED
      BY <1>2, <3>1, <3>2 DEF Ops
  <2>7. unflushed' = unflushed
    BY DEF Perform
  <2>8. \A t \in Open : t.place \in Places
    BY <2>3 DEF IInv, TypeOK
  <2>9. \A q \in Places : (\A t \in Open' : t.place = q => t.op # "write")
                            => stored'[q] = latest'[q]
    <3> SUFFICES ASSUME NEW q \in Places, \A t \in Open' : t.place = q => t.op # "write"
                 PROVE  stored'[q] = latest'[q]
      OBVIOUS
    <3>1. CASE q = p
      BY <2>6, <3>1
    <3>2. CASE q # p
      <4>1. \A t \in Open : t.place = q => t.op # "write"
        BY <2>2, <3>2
      <4>2. QED
        BY <2>3, <2>5, <3>2, <4>1
    <3>3. QED
      BY <3>1, <3>2
  <2>10. /\ \A t \in Open' : t.place \in unflushed'
         /\ \A t, u \in Open' : t.place = u.place => t = u
    BY <2>2, <2>3, <2>7
  <2>11. \A t \in Open' : t.op = "write" => latest'[t.place] = t.id
    BY <2>2, <2>3, <2>4, <2>5, <2>8
  <2>12. QED
    BY <2>9, <2>10, <2>11 DEF DataOK
<1>9. QED
  BY <1>4, <1>5, <1>6, <1>7, <1>8 DEF IInv

LEMMA CompleteFine == ASSUME IInv, NEW w \in Workers, Complete(w) PROVE IInv'
<1>1. /\ w \in Busy /\ w \notin Io /\ Busy' = Busy \ {w} /\ Io' = Io
      /\ \A v \in Workers : v # w => hand'[v] = hand[v]
  BY DEF IInv, TypeOK, Complete, Busy, Io
<1>2. /\ cstate' \in [Callers -> CallerStates] /\ Entering' = Entering
      /\ \A c \in Callers : cstate'[c] = "out" <=> cstate[c] = "out"
  <2>1. CASE completed' = submitted
    <3>1. Woken(cstate, cstate', "allDone", "flush")
      BY <2>1, WakeAllWakes DEF Complete
    <3>2. QED
      BY <3>1, CallersWoken DEF IInv
  <2>2. CASE completed' # submitted
    BY <2>2 DEF Complete, IInv, TypeOK, Entering
  <2>3. QED
    BY <2>1, <2>2
<1>3. /\ count \in Nat /\ submitted \in Nat /\ submitted <= MaxTasks /\ count <= submitted
      /\ completed \in Nat
  BY DEF IInv, TypeOK, Core, RingOK
<1>4. CountOK' /\ completed' \in 0 .. MaxTasks
  <2>1. Cardinality(Busy') = Cardinality(Busy) - 1 /\ Cardinality(Busy) \in Nat
        /\ Cardinality(Busy') \in Nat
    <3>1. Cardinality(Busy \ {w}) = Cardinality(Busy) - 1
      BY <1>1, BusyFinite, FS_RemoveElement
    <3>2. Cardinality(Busy \ {w}) \in Nat
      BY BusyFinite, FS_RemoveElement, FS_CardinalityType
    <3>3. QED
      BY <1>1, <3>1, <3>2, BusyFinite
  <2>2. completed' = completed + 1 /\ submitted' = submitted /\ count' = count
    BY DEF Complete, ringVars
  <2>3. completed = submitted - count - Cardinality(Busy)
    BY DEF IInv, Core, CountOK
  <2>4. completed' = submitted - count - Cardinality(Busy')
    BY <1>3, <2>1, <2>2, <2>3
  <2>5. QED
    BY <1>3, <2>1, <2>2, <2>4 DEF CountOK
<1>5. TypeOK'
  <2>1. wstate' \in [Workers -> WorkerStates] /\ hand' \in [Workers -> Tasks \union {NoTask}]
    BY DEF IInv, TypeOK, Complete, WorkerStates
  <2>2. QED
    BY <1>2, <1>4, <2>1 DEF IInv, TypeOK, Complete, ringVars, dataVars
<1>6. Core'
  <2>1. UNCHANGED <<queue, head, tail, count, submitted, runs>>
    BY DEF Complete, ringVars, dataVars
  <2>2. RingOK'
    BY <2>1 DEF IInv, Core, RingOK, Cell
  <2>3. HandsOK'
    BY <1>1, <2>1 DEF IInv, Core, HandsOK, Busy
  <2>4. RunsOK'
    <3>1. \A v \in Io : hand'[v] = hand[v]
      BY <1>1 DEF Io
    <3>2. QED
      BY <1>1, <2>1, <3>1 DEF IInv, Core, RunsOK
  <2>5. QED
    BY <1>4, <2>2, <2>3, <2>4 DEF Core
<1>7. LifeOK'
  <2>1. \A v \in Workers : wstate'[v] = "gone" <=> wstate[v] = "gone"
    BY DEF IInv, TypeOK, Complete
  <2>2. QED
    BY <1>2, <2>1 DEF IInv, LifeOK, Complete, ringVars
<1>8. RoomOK' /\ WantOK'
  BY <1>2, CallsKept DEF IInv, Complete
<1>9. DataOK'
  <2>1. Open' = Open
    <3>1. {hand'[v] : v \in Io'} = {hand[v] : v \in Io}
      BY <1>1 DEF Io
    <3>2. UNCHANGED <<queue, head, count>>
      BY DEF Complete, ringVars
    <3>3. QED
      BY <3>1, <3>2 DEF Open, Cell
  <2>2. QED
    BY <2>1 DEF IInv, DataOK, Complete, dataVars
<1>10. QED
  BY <1>5, <1>6, <1>7, <1>8, <1>9 DEF IInv

-----------------------------------------------------------------------------
(* The callers.                                                            *)

LEMMA CallSubmitFine ==
  ASSUME IInv, NEW c \in Callers, NEW op \in Ops, NEW p \in PlacesOf[c], CallSubmit(c, op, p)
  PROVE  IInv'
<1>1. c \notin Entering /\ Entering' = Entering \cup {c}
  BY DEF IInv, TypeOK, CallSubmit, Entering
<1>2. Busy' = Busy /\ Io' = Io
  BY DEF CallSubmit, workerVars, Busy, Io
<1>3. p \in Places
  OBVIOUS
<1>4. TypeOK'
  <2>1. cstate' \in [Callers -> CallerStates]
    BY DEF IInv, TypeOK, CallSubmit, CallerStates
  <2>2. want' \in [Callers -> [op : Ops, place : Places] \union {NoTask}]
    BY <1>3 DEF IInv, TypeOK, CallSubmit
  <2>3. QED
    BY <2>1, <2>2 DEF IInv, TypeOK, CallSubmit, ringVars, workerVars, dataVars
<1>5. Core'
  BY <1>2, CoreKept DEF IInv, CallSubmit, workerVars, dataVars
<1>6. LifeOK'
  BY DEF IInv, LifeOK, CallSubmit, workerVars, ringVars
<1>7. RoomOK'
  <2>1. Cardinality(Entering') = Cardinality(Entering) + 1 /\ Cardinality(Entering) \in Nat
    BY <1>1, EnteringFinite, FS_AddElement
  <2>2. submitted + Cardinality(Entering) < MaxTasks /\ submitted' = submitted
    BY DEF CallSubmit, Entering
  <2>3. submitted \in Nat
    BY DEF IInv, TypeOK
  <2>4. QED
    BY <2>1, <2>2, <2>3 DEF RoomOK
<1>8. WantOK'
  <2>1. want'[c] = [op |-> op, place |-> p] /\ \A d \in Callers : d # c => want'[d] = want[d]
    BY DEF IInv, TypeOK, CallSubmit
  <2>2. (FlushBetween => p \notin unflushed) /\ unflushed' = unflushed
    BY DEF CallSubmit
  <2>3. \A d \in Entering : d \in Callers /\ d # c
    BY <1>1 DEF Entering
  <2>4. QED
    BY <1>1, <2>1, <2>2, <2>3 DEF IInv, WantOK
<1>9. DataOK'
  BY <1>2, DataKept DEF IInv, CallSubmit, workerVars, dataVars
<1>10. QED
  BY <1>4, <1>5, <1>6, <1>7, <1>8, <1>9 DEF IInv

LEMMA BlockFine == ASSUME IInv, NEW c \in Callers, Block(c) PROVE IInv'
<1>1. Busy' = Busy /\ Io' = Io /\ Entering' = Entering
  BY DEF IInv, TypeOK, Block, workerVars, Busy, Io, Entering
<1>2. TypeOK'
  BY DEF IInv, TypeOK, Block, CallerStates, ringVars, workerVars, dataVars
<1>3. Core'
  BY <1>1, CoreKept DEF IInv, Block, workerVars, dataVars
<1>4. LifeOK'
  BY DEF IInv, TypeOK, LifeOK, Block, workerVars, ringVars
<1>5. RoomOK' /\ WantOK'
  BY <1>1, CallsKept DEF IInv, Block
<1>6. DataOK'
  BY <1>1, DataKept DEF IInv, Block, workerVars, dataVars
<1>7. QED
  BY <1>2, <1>3, <1>4, <1>5, <1>6 DEF IInv

LEMMA CallFlushFine == ASSUME IInv, NEW c \in Callers, CallFlush(c) PROVE IInv'
<1>1. Busy' = Busy /\ Io' = Io /\ Entering' = Entering
  BY DEF IInv, TypeOK, CallFlush, workerVars, Busy, Io, Entering
<1>2. TypeOK'
  BY DEF IInv, TypeOK, CallFlush, CallerStates, ringVars, workerVars, dataVars
<1>3. Core'
  BY <1>1, CoreKept DEF IInv, CallFlush, workerVars, dataVars
<1>4. LifeOK'
  BY DEF IInv, LifeOK, CallFlush, workerVars, ringVars
<1>5. RoomOK' /\ WantOK'
  BY <1>1, CallsKept DEF IInv, CallFlush
<1>6. DataOK'
  BY <1>1, DataKept DEF IInv, CallFlush, workerVars, dataVars
<1>7. QED
  BY <1>2, <1>3, <1>4, <1>5, <1>6 DEF IInv

LEMMA AwaitFine == ASSUME IInv, NEW c \in Callers, Await(c) PROVE IInv'
<1>1. Busy' = Busy /\ Io' = Io /\ Entering' = Entering
  BY DEF IInv, TypeOK, Await, workerVars, Busy, Io, Entering
<1>2. TypeOK'
  BY DEF IInv, TypeOK, Await, CallerStates, ringVars, workerVars, dataVars
<1>3. Core'
  BY <1>1, CoreKept DEF IInv, Await, workerVars, dataVars
<1>4. LifeOK'
  BY DEF IInv, TypeOK, LifeOK, Await, workerVars, ringVars
<1>5. RoomOK' /\ WantOK'
  BY <1>1, CallsKept DEF IInv, Await
<1>6. DataOK'
  BY <1>1, DataKept DEF IInv, Await, workerVars, dataVars
<1>7. QED
  BY <1>2, <1>3, <1>4, <1>5, <1>6 DEF IInv

\* One caller fewer enters.
LEMMA EnteringLess ==
  ASSUME NEW c \in Entering, Entering' = Entering \ {c}
  PROVE  Cardinality(Entering') = Cardinality(Entering) - 1 /\ Cardinality(Entering) \in Nat \ {0}
<1>1. Cardinality(Entering \ {c}) = Cardinality(Entering) - 1
  BY EnteringFinite, FS_RemoveElement
<1>2. Cardinality(Entering \ {c}) \in Nat
  BY EnteringFinite, FS_RemoveElement, FS_CardinalityType
<1>3. QED
  BY <1>1, <1>2, EnteringFinite

LEMMA RefuseFine == ASSUME IInv, NEW c \in Callers, Refuse(c) PROVE IInv'
<1>1. Busy' = Busy /\ Io' = Io /\ c \in Entering /\ Entering' = Entering \ {c}
  BY DEF IInv, TypeOK, Refuse, workerVars, Busy, Io, Entering
<1>2. TypeOK'
  BY DEF IInv, TypeOK, Refuse, CallerStates, ringVars, workerVars, dataVars
<1>3. Core'
  BY <1>1, CoreKept DEF IInv, Refuse, workerVars, dataVars
<1>4. LifeOK'
  BY DEF IInv, TypeOK, LifeOK, Refuse, workerVars, ringVars
<1>5. RoomOK'
  <2>1. submitted \in Nat /\ submitted' = submitted
    BY DEF IInv, TypeOK, Refuse
  <2>2. Cardinality(Entering') = Cardinality(Entering) - 1 /\ Cardinality(Entering) \in Nat \ {0}
    BY <1>1, EnteringLess
  <2>3. submitted + Cardinality(Entering) <= MaxTasks
    BY DEF IInv, RoomOK
  <2>4. QED
    BY <2>1, <2>2, <2>3 DEF RoomOK
<1>6. WantOK'
  BY <1>1 DEF IInv, TypeOK, WantOK, Refuse, Entering
<1>7. DataOK'
  BY <1>1, DataKept DEF IInv, Refuse, workerVars, dataVars
<1>8. QED
  BY <1>2, <1>3, <1>4, <1>5, <1>6, <1>7 DEF IInv

\* A task goes into the cell behind the newest.
LEMMA EnqueueFine == ASSUME IInv, NEW c \in Callers, Enqueue(c) PROVE IInv'
<1> DEFINE p == want[c].place
           id == submitted + 1
           new == [op |-> want[c].op, place |-> p, id |-> id]
<1>1. /\ count \in Nat /\ count < QueueCap /\ submitted \in Nat /\ count <= submitted
      /\ head \in Cells /\ tail = Cell(count)
  BY DEF IInv, TypeOK, Enqueue, Full, Core, RingOK
<1>2. Woken(wstate, wstate', "notEmpty", "ready")
  BY WakeOneWakes DEF IInv, TypeOK, Enqueue
<1>3. /\ wstate' \in [Workers -> WorkerStates] /\ Busy' = Busy /\ Io' = Io
      /\ \A w \in Workers : wstate'[w] = "gone" <=> wstate[w] = "gone"
  BY <1>2, WorkersWoken DEF IInv
<1>4. c \in Entering /\ Entering' = Entering \ {c}
  BY DEF IInv, TypeOK, Enqueue, Entering
<1>5. Cardinality(Entering') = Cardinality(Entering) - 1 /\ Cardinality(Entering) \in Nat \ {0}
  BY <1>4, EnteringLess
<1>6. id \in Ids
  <2>1. submitted + Cardinality(Entering) <= MaxTasks
    BY DEF IInv, RoomOK
  <2>2. QED
    BY <1>1, <1>5, <2>1 DEF Ids
<1>7. /\ p \in PlacesOf[c] /\ p \in Places /\ want[c].op \in Ops
      /\ FlushBetween => p \notin unflushed
  BY <1>4 DEF IInv, WantOK
<1>8. new \in Tasks
  BY <1>6, <1>7 DEF Tasks
<1>9. /\ queue' = [queue EXCEPT ![tail] = new] /\ submitted' = id /\ count' = count + 1
      /\ head' = head /\ tail' = Step(tail)
      /\ unflushed' = unflushed \union {p}
      /\ latest' = IF want[c].op = "write" THEN [latest EXCEPT ![p] = id] ELSE latest
  BY DEF Enqueue
<1>10. /\ queue'[Cell(count)] = new
       /\ \A i \in 0 .. count - 1 : Cell(i) \in Cells /\ queue'[Cell(i)] = queue[Cell(i)]
  <2>1. Cell(count) \in Cells
        /\ Cell(count) = IF head + count < QueueCap THEN head + count ELSE head + count - QueueCap
    BY <1>1, CellIs DEF IInv
  <2>2. ASSUME NEW i \in 0 .. count - 1 PROVE Cell(i) \in Cells /\ Cell(i) # Cell(count)
    <3>1. i \in 0 .. QueueCap /\ i < count /\ i \in Nat
      BY <1>1
    <3>2. Cell(i) \in Cells
          /\ Cell(i) = IF head + i < QueueCap THEN head + i ELSE head + i - QueueCap
      BY <3>1, CellIs DEF IInv
    <3>3. QED
      BY <1>1, <2>1, <3>1, <3>2 DEF Cells
  <2>3. QED
    BY <1>1, <1>9, <2>1, <2>2 DEF IInv, TypeOK
<1>11. \A i : Cell(i)' = Cell(i)
  BY <1>9 DEF Cell
<1>12. TypeOK'
  <2>1. queue' \in [Cells -> Tasks \union {NoTask}]
    BY <1>8, <1>9 DEF IInv, TypeOK
  <2>2. tail' \in Cells
    BY <1>9, StepIs DEF IInv, TypeOK
  <2>3. count' \in 0 .. QueueCap /\ submitted' \in 0 .. MaxTasks
    BY <1>1, <1>6, <1>9 DEF Ids
  <2>4. cstate' \in [Callers -> CallerStates]
    BY DEF IInv, TypeOK, Enqueue, CallerStates
  <2>5. want' \in [Callers -> [op : Ops, place : Places] \union {NoTask}]
    BY DEF IInv, TypeOK, Enqueue
  <2>6. latest' \in [Places -> Data]
    BY <1>6, <1>9 DEF IInv, TypeOK, Data
  <2>7. unflushed' \subseteq Places
    BY <1>7, <1>9 DEF IInv, TypeOK
  <2>8. QED
    BY <1>3, <2>1, <2>2, <2>3, <2>4, <2>5, <2>6, <2>7 DEF IInv, TypeOK, Enqueue
<1>13. Core'
  <2>1. submitted' - count' = submitted - count
    BY <1>1, <1>9
  <2>2. RingOK'
    <3>1. tail' = (head' + count') % QueueCap
      <4>1. (head + (count + 1)) % QueueCap = IF head + (count + 1) < QueueCap
              THEN head + (count + 1) ELSE head + (count + 1) - QueueCap
        <5>1. count + 1 \in 0 .. QueueCap
          BY <1>1
        <5>2. QED
          BY <1>1, <5>1, Wrap
      <4>2. tail \in Cells
            /\ tail = IF head + count < QueueCap THEN head + count ELSE head + count - QueueCap
        BY <1>1, CellIs DEF IInv
      <4>3. tail' = IF tail + 1 < QueueCap THEN tail + 1 ELSE 0
        BY <1>9, <4>2, StepIs
      <4>4. QED
        BY <1>1, <1>9, <4>1, <4>2, <4>3 DEF Cells
    <3>2. ASSUME NEW i \in 0 .. count' - 1
          PROVE  /\ queue'[Cell(i)'] \in Tasks
                 /\ queue'[Cell(i)'].id = submitted' - count' + 1 + i
      <4>1. i \in 0 .. count - 1 \/ i = count
        BY <1>1, <1>9
      <4>2. CASE i \in 0 .. count - 1
        <5>1. queue[Cell(i)] \in Tasks /\ queue[Cell(i)].id = submitted - count + 1 + i
          BY <4>2 DEF IInv, Core, RingOK
        <5>2. QED
          BY <1>10, <1>11, <2>1, <4>2, <5>1
      <4>3. CASE i = count
        <5>1. new.id = submitted - count + 1 + i
          BY <1>1, <4>3
        <5>2. queue'[Cell(i)'] = new
          BY <1>10, <1>11, <4>3
        <5>3. QED
          BY <1>8, <2>1, <5>1, <5>2
      <4>4. QED
        BY <4>1, <4>2, <4>3
    <3>3. count' <= submitted'
      BY <1>1, <1>9
    <3>4. QED
      BY <3>1, <3>2, <3>3 DEF RingOK, Cell
  <2>3. hand' = hand /\ runs' = runs /\ completed' = completed
    BY DEF Enqueue
  <2>4. HandsOK' /\ RunsOK' /\ CountOK'
    BY <1>3, <2>1, <2>3 DEF IInv, Core, HandsOK, RunsOK, CountOK
  <2>5. QED
    BY <2>2, <2>4 DEF Core
<1>14. LifeOK'
  BY <1>3, <1>1 DEF IInv, TypeOK, LifeOK, Enqueue
<1>15. RoomOK'
  <2>1. submitted + Cardinality(Entering) <= MaxTasks
    BY DEF IInv, RoomOK
  <2>2. QED
    BY <1>1, <1>5, <1>9, <2>1 DEF RoomOK
<1>16. WantOK'
  <2> SUFFICES ASSUME NEW d \in Entering'
               PROVE  /\ want'[d] \in [op : Ops, place : PlacesOf[d]]
                      /\ FlushBetween => want'[d].place \notin unflushed'
    BY DEF WantOK
  <2>1. d \in Entering /\ d # c /\ d \in Callers /\ want'[d] = want[d]
    BY <1>4 DEF Entering, Enqueue, IInv, TypeOK
  <2>2. /\ want[d] \in [op : Ops, place : PlacesOf[d]]
        /\ FlushBetween => want[d].place \notin unflushed
    BY <2>1 DEF IInv, WantOK
  <2>3. want[d].place # p
    BY <1>7, <2>1, <2>2
  <2>4. QED
    BY <1>9, <2>1, <2>2, <2>3
<1>17. DataOK'
  <2> SUFFICES ASSUME FlushBetween PROVE DataOK'
    BY DEF DataOK
  <2>1. Open' = Open \cup {new}
    <3>1. hand' = hand
      BY DEF Enqueue
    <3>2. \A i \in 0 .. count' - 1 : i \in 0 .. count - 1 \/ i = count
      BY <1>1, <1>9
    <3>3. count \in 0 .. count' - 1 /\ 0 .. count - 1 \subseteq 0 .. count' - 1
      BY <1>1, <1>9
    <3>4. {queue'[Cell(i)'] : i \in 0 .. count' - 1} =
          {queue[Cell(i)] : i \in 0 .. count - 1} \cup {new}
      BY <1>10, <1>11, <3>2, <3>3
    <3>5. QED
      BY <1>3, <3>1, <3>4 DEF Open
  <2>2. /\ \A t \in Open : t.place \in unflushed
        /\ \A t, u \in Open : t.place = u.place => t = u
        /\ \A t \in Open : t.op = "write" => latest[t.place] = t.id
        /\ \A q \in Places : (\A t \in Open : t.place = q => t.op # "write")
                              => stored[q] = latest[q]
    BY DEF IInv, DataOK
  <2>3. new.place = p /\ new.op = want[c].op /\ new.id = id
    OBVIOUS
  <2>4. \A t \in Open : t.place # p /\ t.place \in Places
    BY <1>7, <2>2 DEF IInv, TypeOK
  <2>5. /\ \A q \in Places : q # p => latest'[q] = latest[q]
        /\ want[c].op = "write" => latest'[p] = id
        /\ want[c].op # "write" => latest' = latest
    BY <1>7, <1>9 DEF IInv, TypeOK
  <2>6. stored' = stored
    BY DEF Enqueue
  <2> HIDE DEF new, p, id
  <2>7. \A t \in Open' : t.place \in unflushed'
    BY <1>9, <2>1, <2>2, <2>3
  <2>8. \A t, u \in Open' : t.place = u.place => t = u
    BY <2>1, <2>2, <2>3, <2>4
  <2>9. \A t \in Open' : t.op = "write" => latest'[t.place] = t.id
    BY <2>1, <2>2, <2>3, <2>4, <2>5
  <2>10. ASSUME NEW q \in Places, \A t \in Open' : t.place = q => t.op # "write"
         PROVE  stored'[q] = latest'[q]
    <3>1. \A t \in Open : t.place = q => t.op # "write"
      BY <2>1, <2>10
    <3>2. stored[q] = latest[q]
      BY <2>2, <3>1
    <3>3. CASE q = p
      <4>1. want[c].op # "write"
        BY <2>1, <2>3, <2>10, <3>3
      <4>2. QED
        BY <2>5, <2>6, <3>2, <4>1
    <3>4. CASE q # p
      BY <2>5, <2>6, <3>2, <3>4
    <3>5. QED
      BY <3>3, <3>4
  <2>11. QED
    BY <2>7, <2>8, <2>9, <2>10 DEF DataOK
<1>18. QED
  BY <1>12, <1>13, <1>14, <1>15, <1>16, <1>17 DEF IInv

\* When a flush returns, no task is open.
LEMMA FlushedAll ==
  ASSUME IInv, ~ Outstanding
  PROVE  /\ count = 0 /\ Busy = {} /\ Io = {} /\ Open = {}
         /\ \A i \in 1 .. submitted : i \in Ids /\ runs[i] = 1
<1>1. /\ count \in Nat /\ submitted \in Nat /\ submitted <= MaxTasks /\ completed \in Nat
      /\ count <= submitted
  BY DEF IInv, TypeOK, Core, RingOK
<1>2. completed = submitted - count - Cardinality(Busy) /\ Cardinality(Busy) \in Nat
  BY BusyFinite DEF IInv, Core, CountOK
<1>3. completed >= submitted
  BY <1>1 DEF Outstanding
<1>4. count = 0 /\ Cardinality(Busy) = 0
  BY <1>1, <1>2, <1>3
<1>5. Busy = {}
  BY <1>4, BusyFinite, FS_EmptySet
<1>6. Io = {}
  BY <1>5 DEF Io, Busy
<1>7. Open = {}
  BY <1>4, <1>6 DEF Open
<1>8. ASSUME NEW i \in 1 .. submitted PROVE i \in Ids /\ runs[i] = 1
  <2>1. i \in Ids /\ i <= submitted - count
    BY <1>1, <1>4 DEF Ids
  <2>2. QED
    BY <1>6, <2>1 DEF IInv, Core, RunsOK
<1>9. QED
  BY <1>4, <1>5, <1>6, <1>7, <1>8

LEMMA FlushedFine == ASSUME IInv, NEW c \in Callers, Flushed(c) PROVE IInv'
<1>1. Busy' = Busy /\ Io' = Io /\ Entering' = Entering
  BY DEF IInv, TypeOK, Flushed, workerVars, Busy, Io, Entering
<1>2. TypeOK'
  BY DEF IInv, TypeOK, Flushed, CallerStates, ringVars, workerVars, dataVars
<1>3. Core'
  BY <1>1, CoreKept DEF IInv, Flushed, workerVars, dataVars
<1>4. LifeOK'
  BY DEF IInv, TypeOK, LifeOK, Flushed, workerVars, ringVars
<1>5. RoomOK' /\ WantOK'
  BY <1>1 DEF IInv, RoomOK, WantOK, Flushed
<1>6. DataOK'
  <2>1. Open = {} /\ Open' = Open
    BY <1>1, FlushedAll DEF Flushed, Open, Cell, ringVars, workerVars
  <2>2. QED
    BY <2>1 DEF IInv, DataOK, Flushed, dataVars
<1>7. QED
  BY <1>2, <1>3, <1>4, <1>5, <1>6 DEF IInv

LEMMA SpuriousFine == ASSUME IInv, Spurious PROVE IInv'
<1>1. /\ wstate' \in [Workers -> WorkerStates] /\ Busy' = Busy /\ Io' = Io
      /\ \A w \in Workers : wstate'[w] = "gone" <=> wstate[w] = "gone"
  BY DEF IInv, TypeOK, Spurious, WorkerStates, Busy, Io
<1>2. /\ cstate' \in [Callers -> CallerStates] /\ Entering' = Entering
      /\ \A c \in Callers : cstate'[c] = "out" <=> cstate[c] = "out"
  <2>1. CASE cstate' = cstate
    BY <2>1 DEF IInv, TypeOK, Entering
  <2>2. ASSUME NEW c \in Callers, cstate[c] = "notFull",
               cstate' = [cstate EXCEPT ![c] = "submit"]
        PROVE  /\ cstate' \in [Callers -> CallerStates] /\ Entering' = Entering
               /\ \A d \in Callers : cstate'[d] = "out" <=> cstate[d] = "out"
    BY <2>2 DEF IInv, TypeOK, CallerStates, Entering
  <2>3. ASSUME NEW c \in Callers, cstate[c] = "allDone",
               cstate' = [cstate EXCEPT ![c] = "flush"]
        PROVE  /\ cstate' \in [Callers -> CallerStates] /\ Entering' = Entering
               /\ \A d \in Callers : cstate'[d] = "out" <=> cstate[d] = "out"
    BY <2>3 DEF IInv, TypeOK, CallerStates, Entering
  <2>4. QED
    BY <2>1, <2>2, <2>3 DEF Spurious
<1>3. TypeOK'
  BY <1>1, <1>2 DEF IInv, TypeOK, Spurious, ringVars, dataVars
<1>4. Core'
  BY <1>1, CoreKept DEF IInv, Spurious, dataVars
<1>5. LifeOK'
  BY <1>1, <1>2 DEF IInv, LifeOK, Spurious, ringVars
<1>6. RoomOK' /\ WantOK'
  BY <1>2, CallsKept DEF IInv, Spurious
<1>7. DataOK'
  BY <1>1, DataKept DEF IInv, Spurious, dataVars
<1>8. QED
  BY <1>3, <1>4, <1>5, <1>6, <1>7 DEF IInv

-----------------------------------------------------------------------------
(* The theorems.                                                           *)

LEMMA NextFine == IInv /\ [Next]_vars => IInv'
<1> SUFFICES ASSUME IInv, [Next]_vars PROVE IInv'
  OBVIOUS
<1>1. CASE UNCHANGED vars
  <2>1. Busy' = Busy /\ Io' = Io /\ Entering' = Entering
    BY <1>1 DEF vars, Busy, Io, Entering
  <2>2. TypeOK'
    BY <1>1 DEF IInv, TypeOK, vars
  <2>3. Core'
    BY <1>1, <2>1, CoreKept DEF IInv, vars, ringVars
  <2>4. LifeOK'
    BY <1>1 DEF IInv, LifeOK, vars
  <2>5. RoomOK' /\ WantOK'
    BY <1>1, <2>1, CallsKept DEF IInv, vars
  <2>6. DataOK'
    BY <1>1, <2>1, DataKept DEF IInv, vars, ringVars
  <2>7. QED
    BY <2>2, <2>3, <2>4, <2>5, <2>6 DEF IInv
<1>2. CASE PoolInit \/ Destroy \/ Joined \/ Spurious
  BY <1>2, PoolInitFine, DestroyFine, JoinedFine, SpuriousFine
<1>3. ASSUME NEW w \in Workers, WorkerStep(w) PROVE IInv'
  BY <1>3, SleepFine, LeaveFine, TakeFine, PerformFine, CompleteFine DEF WorkerStep
<1>4. ASSUME NEW c \in Callers, Inside(c) \/ CallFlush(c) PROVE IInv'
  BY <1>4, BlockFine, RefuseFine, EnqueueFine, AwaitFine, FlushedFine, CallFlushFine DEF Inside
<1>5. ASSUME NEW c \in Callers, NEW op \in Ops, NEW p \in PlacesOf[c], CallSubmit(c, op, p)
      PROVE  IInv'
  BY <1>5, CallSubmitFine
<1>6. QED
  BY <1>1, <1>2, <1>3, <1>4, <1>5 DEF Next

\* The inductive invariant.
LEMMA SpecFine == Spec => []IInv
  BY InitFine, NextFine, PTL DEF Spec

\* Type correctness (TypeOK), which is where the indices stay in the ring and
\* the counters under their bound.
THEOREM PoolTypeCorrect == Spec => []TypeOK
<1>1. IInv => TypeOK
  BY DEF IInv
<1>2. QED
  BY <1>1, SpecFine, PTL

\* Every task submitted is in the ring, in one worker's hands, or performed
\* once, and completed counts what no worker holds (ExactlyOnce).
THEOREM TasksRunOnce == Spec => []ExactlyOnce
<1>1. IInv => ExactlyOnce
  <2> SUFFICES ASSUME IInv PROVE ExactlyOnce
    OBVIOUS
  <2>1. \A i \in 0 .. count - 1 : Queued[i].id = submitted - count + 1 + i
    BY DEF IInv, Core, RingOK, Queued, Cell
  <2>2. \A i \in Ids : runs[i] = IF i <= submitted - count /\ ~ \E w \in Workers :
                                      wstate[w] = "io" /\ hand[w].id = i
                                 THEN 1 ELSE 0
    BY DEF IInv, Core, RunsOK, Io
  <2>3. pool # "running" /\ (\A w \in Workers : wstate[w] = "gone") => count = 0
    BY DEF IInv, LifeOK
  <2>4. QED
    BY <2>1, <2>2, <2>3 DEF IInv, Core, HandsOK, CountOK, ExactlyOnce
<1>2. QED
  BY <1>1, SpecFine, PTL

\* What FlushIsBarrier and ReadsLatest say of one step.
FlushStep ==
  \A c \in Callers : cstate[c] = "flush" /\ cstate'[c] = "out" =>
    /\ Busy = {}
    /\ \A i \in 1 .. submitted : runs[i] = 1
ReadStep ==
  \A w \in Workers :
    wstate[w] = "io" /\ wstate'[w] = "done" /\ hand[w].op = "read" =>
      stored[hand[w].place] = latest[hand[w].place]

\* A flush returns only when every task submitted by then, by whichever
\* caller, has been performed (FlushIsBarrier).
THEOREM FlushWaitsForAll == Spec => FlushIsBarrier
<1>1. IInv /\ [Next]_vars => [FlushStep]_vars
  <2> SUFFICES ASSUME IInv, Next, NEW c \in Callers, cstate[c] = "flush", cstate'[c] = "out"
               PROVE  Busy = {} /\ \A i \in 1 .. submitted : runs[i] = 1
    BY DEF FlushStep
  <2>1. CASE ~ Outstanding
    BY <2>1, FlushedAll
  <2>2. CASE Outstanding
    <3>1. cstate' = cstate \/ cstate'[c] # "out"
      <4>1. CASE PoolInit \/ Destroy \/ Joined \/ Spurious
        BY <4>1 DEF PoolInit, Destroy, Joined, Spurious, callerVars, IInv, TypeOK
      <4>2. ASSUME NEW w \in Workers, WorkerStep(w) PROVE cstate' = cstate \/ cstate'[c] # "out"
        <5>1. CASE Take(w)
          <6>1. Woken(cstate, cstate', "notFull", "submit")
            BY <5>1, WakeOneWakes DEF Take, IInv, TypeOK
          <6>2. QED
            BY <6>1, CallersWoken DEF IInv
        <5>2. CASE Complete(w)
          <6>1. cstate' = cstate \/ Woken(cstate, cstate', "allDone", "flush")
            BY <5>2, WakeAllWakes DEF Complete
          <6>2. QED
            BY <6>1, CallersWoken DEF IInv
        <5>3. CASE Sleep(w) \/ Leave(w) \/ Perform(w)
          BY <5>3 DEF Sleep, Leave, Perform, callerVars
        <5>4. QED
          BY <4>2, <5>1, <5>2, <5>3 DEF WorkerStep
      <4>3. ASSUME NEW d \in Callers, Inside(d) \/ CallFlush(d)
            PROVE  cstate' = cstate \/ cstate'[c] # "out"
        BY <2>2, <4>3 DEF Inside, CallFlush, Block, Refuse, Enqueue, Await, Flushed, IInv, TypeOK
      <4>4. ASSUME NEW d \in Callers, NEW op \in Ops, NEW p \in PlacesOf[d], CallSubmit(d, op, p)
            PROVE  cstate' = cstate \/ cstate'[c] # "out"
        BY <4>4 DEF CallSubmit, IInv, TypeOK
      <4>5. QED
        BY <4>1, <4>2, <4>3, <4>4 DEF Next
    <3>2. QED
      BY <3>1
  <2>3. QED
    BY <2>1, <2>2
<1>2. QED
  BY <1>1, SpecFine, PTL DEF Spec, FlushIsBarrier, FlushStep

\* A caller that flushes between two tasks on a place reads what it wrote
\* last (ReadsLatest): the read is the place's only open task, so no write is
\* still to come.
THEOREM FlushedReadsLatest == ASSUME FlushBetween PROVE Spec => ReadsLatest
<1>1. IInv /\ [Next]_vars => [ReadStep]_vars
  <2> SUFFICES ASSUME IInv, Next, NEW w \in Workers,
                      wstate[w] = "io", wstate'[w] = "done", hand[w].op = "read"
               PROVE  stored[hand[w].place] = latest[hand[w].place]
    BY DEF ReadStep
  <2>1. w \in Io /\ hand[w] \in Open
    BY DEF Io, Open
  <2>2. hand[w].place \in Places
    BY <2>1 DEF IInv, TypeOK, DataOK
  <2>3. \A t \in Open : t.place = hand[w].place => t.op # "write"
    BY <2>1 DEF IInv, DataOK
  <2>4. QED
    BY <2>2, <2>3 DEF IInv, DataOK
<1>2. QED
  BY <1>1, SpecFine, PTL DEF Spec, ReadsLatest, ReadStep
=============================================================================
