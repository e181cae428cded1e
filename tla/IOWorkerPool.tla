---------------------------- MODULE IOWorkerPool ----------------------------
(***************************************************************************)
(* The asynchronous I/O pool of src/tiered_store/io_worker.c: a bounded     *)
(* ring of tasks under one mutex, worker threads that take and perform them *)
(* outside it, and three condition variables.                              *)
(*                                                                         *)
(* Every stretch of code between taking the mutex and giving it up is one  *)
(* action; a thread asleep in pthread_cond_wait has a state that names the *)
(* condition variable.  Wakeups may be spurious, as POSIX allows.          *)
(***************************************************************************)
EXTENDS Integers, FiniteSets

CONSTANTS
  Workers,          \* the worker threads
  Callers,          \* the threads that submit tasks and flush
  Places,           \* the blocks in storage that tasks write and read
  PlacesOf,         \* caller -> the places it alone uses
  QueueCap,         \* queue_cap
  MaxTasks,         \* BOUND: tasks submitted between init and destroy
  FlushBetween,     \* do callers flush between two tasks on one place?
  LateCallers,      \* may the pool be destroyed while callers are inside it?
  NoTask

Ops   == {"write", "read"}
Ids   == 1 .. MaxTasks
Tasks == [op : Ops, place : Places, id : Ids]   \* id: the count at submission
Cells == 0 .. QueueCap - 1

\* What a place holds: the id of the write performed last, 0 before any, or
\* Torn after a write that failed.
Torn == -1
Data == Ids \union {0, Torn}

ASSUME PoolConstantsOK ==
  /\ IsFiniteSet(Workers) /\ Workers # {}
  /\ PlacesOf \in [Callers -> SUBSET Places]
  /\ \A c, d \in Callers : c # d => PlacesOf[c] \cap PlacesOf[d] = {}
  /\ Callers \cap Workers = {} /\ IsFiniteSet(Callers)
  /\ QueueCap \in Nat \ {0} /\ MaxTasks \in Nat
  /\ FlushBetween \in BOOLEAN /\ LateCallers \in BOOLEAN
  /\ NoTask \notin Tasks

VARIABLES
  pool,                 \* "none", "running", "joining": the pool's life
  queue, head, tail, count,     \* the ring
  submitted, completed, shutdown,
  wstate, hand,         \* worker -> its state, the task it holds
  cstate, want,         \* caller -> its state, the task it is submitting
  stored,               \* place -> what it holds in storage
  runs,                 \* HISTORY: id -> times the task was performed
  latest,               \* HISTORY: place -> what a read now should find
  unflushed             \* HISTORY: places with a task its caller has not flushed

ringVars   == <<queue, head, tail, count>>
workerVars == <<wstate, hand>>
callerVars == <<cstate, want>>
dataVars   == <<stored, runs, latest>>
vars == <<pool, queue, head, tail, count, submitted, completed, shutdown, wstate,
          hand, cstate, want, stored, runs, latest, unflushed>>

\* A worker is "ready" to take the mutex, asleep on not_empty, performing a
\* task ("io"), about to report it ("done"), or gone.
WorkerStates == {"ready", "notEmpty", "io", "done", "gone"}
\* A caller is outside the pool, or about to take the mutex in submit or
\* flush, or asleep on not_full or all_done.
CallerStates == {"out", "submit", "notFull", "flush", "allDone"}

-----------------------------------------------------------------------------
(* The tests and updates of the code.  (Definitions marked MUTANT are faulty *)
(* variants of the one that follows; nothing uses them.)                    *)

StepNoWrap(i) == i + 1  \* MUTANT: the index of the ring does not wrap
Step(i)       == (i + 1) % QueueCap

FullLate == count > QueueCap  \* MUTANT: a full ring accepts one more
Full     == count = QueueCap

OutstandingQueued == count > 0  \* MUTANT: a flush that forgets running tasks
Outstanding       == completed < submitted

MayGoEarly == shutdown  \* MUTANT: a worker leaves queued tasks behind
MayGo      == shutdown /\ count = 0

\* pthread_cond_signal and pthread_cond_broadcast for threads in `asleep`.
WakeOne(state, asleep, awake) ==
  IF \E t \in DOMAIN state : state[t] = asleep
  THEN {[state EXCEPT ![t] = awake] : t \in {u \in DOMAIN state : state[u] = asleep}}
  ELSE {state}
WakeAllButOne(state, asleep, awake) ==  \* MUTANT: signal for broadcast
  CHOOSE s \in WakeOne(state, asleep, awake) : TRUE
WakeAll(state, asleep, awake) ==
  [t \in DOMAIN state |-> IF state[t] = asleep THEN awake ELSE state[t]]

-----------------------------------------------------------------------------
(* The pool's life.                                                        *)

\* io_worker_init: everything zeroed, the workers started.
PoolInit ==
  /\ pool = "none" /\ \A c \in Callers : cstate[c] = "out"
  /\ pool' = "running"
  /\ queue' = [i \in Cells |-> NoTask] /\ head' = 0 /\ tail' = 0 /\ count' = 0
  /\ submitted' = 0 /\ completed' = 0 /\ shutdown' = FALSE
  /\ wstate' = [w \in Workers |-> "ready"] /\ hand' = [w \in Workers |-> NoTask]
  /\ runs' = [i \in Ids |-> 0]
  /\ stored' = [p \in Places |-> 0] /\ latest' = [p \in Places |-> 0]
  /\ unflushed' = {}
  /\ UNCHANGED callerVars

\* io_worker_destroy up to the joins: only not_empty is broadcast.
Destroy ==
  /\ pool = "running"
  /\ LateCallers \/ \A c \in Callers : cstate[c] = "out"
  /\ pool' = "joining" /\ shutdown' = TRUE
  /\ wstate' = WakeAll(wstate, "notEmpty", "ready")
  /\ UNCHANGED <<ringVars, submitted, completed, hand, callerVars, dataVars, unflushed>>

\* The last join returns, and mutex, condition variables and ring are torn
\* down, whether or not a caller is still inside.  To such a caller the model
\* leaves the most harmless outcome: shutdown is set, so it can only Refuse.
Joined ==
  /\ pool = "joining" /\ \A w \in Workers : wstate[w] = "gone"
  /\ pool' = "none"
  /\ UNCHANGED <<ringVars, submitted, completed, shutdown, workerVars, callerVars,
                 dataVars, unflushed>>

-----------------------------------------------------------------------------
(* worker_thread.                                                          *)

Sleep(w) ==
  /\ wstate[w] = "ready" /\ count = 0 /\ ~shutdown
  /\ wstate' = [wstate EXCEPT ![w] = "notEmpty"]
  /\ UNCHANGED <<pool, ringVars, submitted, completed, shutdown, hand, callerVars,
                 dataVars, unflushed>>

Leave(w) ==
  /\ wstate[w] = "ready" /\ MayGo
  /\ wstate' = [wstate EXCEPT ![w] = "gone"]
  /\ UNCHANGED <<pool, ringVars, submitted, completed, shutdown, hand, callerVars,
                 dataVars, unflushed>>

Take(w) ==
  /\ wstate[w] = "ready" /\ count > 0
  /\ wstate' = [wstate EXCEPT ![w] = "io"]
  /\ hand' = [hand EXCEPT ![w] = queue[head]]
  /\ head' = Step(head) /\ count' = count - 1
  /\ cstate' \in WakeOne(cstate, "notFull", "submit")
  /\ UNCHANGED <<pool, queue, tail, submitted, completed, shutdown, want, dataVars,
                 unflushed>>

\* orchfs_tier_write or orchfs_tier_read, then the callback with the status.
\* A read that fails delivers nothing; after a write that fails nobody knows
\* what the place holds.  Either way the task counts as completed.
Perform(w) ==
  LET task == hand[w]
      p    == task.place
  IN  /\ wstate[w] = "io"
      /\ wstate' = [wstate EXCEPT ![w] = "done"]
      /\ runs' = [runs EXCEPT ![task.id] = @ + 1]
      /\ \/ task.op = "read" /\ UNCHANGED <<stored, latest>>
         \/ /\ task.op = "write"
            /\ \E d \in {task.id, Torn} :
                 /\ stored' = [stored EXCEPT ![p] = d]
                 /\ latest' = IF d = Torn THEN [latest EXCEPT ![p] = Torn] ELSE latest
      /\ UNCHANGED <<pool, ringVars, submitted, completed, shutdown, hand, callerVars,
                     unflushed>>

Complete(w) ==
  /\ wstate[w] = "done"
  /\ wstate' = [wstate EXCEPT ![w] = "ready"]
  /\ hand' = [hand EXCEPT ![w] = NoTask]
  /\ completed' = completed + 1
  /\ cstate' = IF completed' = submitted THEN WakeAll(cstate, "allDone", "flush")
               ELSE cstate
  /\ UNCHANGED <<pool, ringVars, submitted, shutdown, want, dataVars, unflushed>>

-----------------------------------------------------------------------------
(* io_worker_submit.                                                       *)

\* A caller enters; the bound counts the callers that are inside already.
CallSubmit(c, op, p) ==
  /\ pool = "running" /\ cstate[c] = "out"
  /\ submitted + Cardinality({d \in Callers : cstate[d] \in {"submit", "notFull"}})
       < MaxTasks
  /\ FlushBetween => p \notin unflushed
  /\ cstate' = [cstate EXCEPT ![c] = "submit"]
  /\ want' = [want EXCEPT ![c] = [op |-> op, place |-> p]]
  /\ UNCHANGED <<pool, ringVars, submitted, completed, shutdown, workerVars,
                 dataVars, unflushed>>

Block(c) ==
  /\ cstate[c] = "submit" /\ Full /\ ~shutdown
  /\ cstate' = [cstate EXCEPT ![c] = "notFull"]
  /\ UNCHANGED <<pool, ringVars, submitted, completed, shutdown, workerVars, want,
                 dataVars, unflushed>>

\* ORCHKV_ERR_INIT.
Refuse(c) ==
  /\ cstate[c] = "submit" /\ shutdown
  /\ cstate' = [cstate EXCEPT ![c] = "out"]
  /\ want' = [want EXCEPT ![c] = NoTask]
  /\ UNCHANGED <<pool, ringVars, submitted, completed, shutdown, workerVars,
                 dataVars, unflushed>>

Enqueue(c) ==
  LET p  == want[c].place
      id == submitted + 1
  IN  /\ cstate[c] = "submit" /\ ~Full /\ ~shutdown
      /\ queue' = [queue EXCEPT ![tail] =
                    [op |-> want[c].op, place |-> p, id |-> id]]
      /\ tail' = Step(tail) /\ count' = count + 1
      /\ submitted' = id
      /\ wstate' \in WakeOne(wstate, "notEmpty", "ready")
      /\ cstate' = [cstate EXCEPT ![c] = "out"]
      /\ want' = [want EXCEPT ![c] = NoTask]
      /\ unflushed' = unflushed \union {p}
      /\ latest' = IF want[c].op = "write" THEN [latest EXCEPT ![p] = id] ELSE latest
      /\ UNCHANGED <<pool, head, completed, shutdown, hand, stored, runs>>

-----------------------------------------------------------------------------
(* io_worker_flush.                                                        *)

CallFlush(c) ==
  /\ pool = "running" /\ cstate[c] = "out"
  /\ cstate' = [cstate EXCEPT ![c] = "flush"]
  /\ UNCHANGED <<pool, ringVars, submitted, completed, shutdown, workerVars, want,
                 dataVars, unflushed>>

Await(c) ==
  /\ cstate[c] = "flush" /\ Outstanding
  /\ cstate' = [cstate EXCEPT ![c] = "allDone"]
  /\ UNCHANGED <<pool, ringVars, submitted, completed, shutdown, workerVars, want,
                 dataVars, unflushed>>

Flushed(c) ==
  /\ cstate[c] = "flush" /\ ~Outstanding
  /\ cstate' = [cstate EXCEPT ![c] = "out"]
  /\ unflushed' = unflushed \ PlacesOf[c]
  /\ UNCHANGED <<pool, ringVars, submitted, completed, shutdown, workerVars, want,
                 dataVars>>

-----------------------------------------------------------------------------
\* pthread_cond_wait returns without a signal.
Spurious ==
  /\ \/ \E w \in Workers : /\ wstate[w] = "notEmpty"
                           /\ wstate' = [wstate EXCEPT ![w] = "ready"]
                           /\ UNCHANGED cstate
     \/ \E c \in Callers, how \in {<<"notFull", "submit">>, <<"allDone", "flush">>} :
          /\ cstate[c] = how[1]
          /\ cstate' = [cstate EXCEPT ![c] = how[2]]
          /\ UNCHANGED wstate
  /\ UNCHANGED <<pool, ringVars, submitted, completed, shutdown, hand, want, dataVars,
                 unflushed>>

Init ==
  /\ pool = "none" /\ shutdown = FALSE /\ submitted = 0 /\ completed = 0
  /\ queue = [i \in Cells |-> NoTask] /\ head = 0 /\ tail = 0 /\ count = 0
  /\ wstate = [w \in Workers |-> "gone"] /\ hand = [w \in Workers |-> NoTask]
  /\ cstate = [c \in Callers |-> "out"] /\ want = [c \in Callers |-> NoTask]
  /\ stored = [p \in Places |-> 0] /\ latest = [p \in Places |-> 0]
  /\ runs = [i \in Ids |-> 0] /\ unflushed = {}

WorkerStep(w) == Sleep(w) \/ Leave(w) \/ Take(w) \/ Perform(w) \/ Complete(w)
Inside(c)     == Block(c) \/ Refuse(c) \/ Enqueue(c) \/ Await(c) \/ Flushed(c)

Next ==
  \/ PoolInit \/ Destroy \/ Joined \/ Spurious
  \/ \E w \in Workers : WorkerStep(w)
  \/ \E c \in Callers : Inside(c) \/ CallFlush(c)
  \/ \E c \in Callers, op \in Ops : \E p \in PlacesOf[c] : CallSubmit(c, op, p)

\* A thread that is not asleep is run again and again; nobody has to call.
Fairness ==
  /\ \A w \in Workers : WF_vars(WorkerStep(w))
  /\ \A c \in Callers : WF_vars(Inside(c))
  /\ WF_vars(Joined)

Spec     == Init /\ [][Next]_vars
FairSpec == Spec /\ Fairness

-----------------------------------------------------------------------------
(* Properties.                                                             *)

\* The tasks in the ring, oldest first, and those the workers hold.
Queued == [i \in 0 .. count - 1 |-> queue[(head + i) % QueueCap]]
Busy   == {w \in Workers : wstate[w] \in {"io", "done"}}

\* Every variable holds a value of its kind; the indices stay in the ring.
TypeOK ==
  /\ pool \in {"none", "running", "joining"} /\ shutdown \in BOOLEAN
  /\ queue \in [Cells -> Tasks \union {NoTask}]
  /\ head \in Cells /\ tail \in Cells /\ count \in 0 .. QueueCap
  /\ submitted \in 0 .. MaxTasks /\ completed \in 0 .. MaxTasks
  /\ wstate \in [Workers -> WorkerStates]
  /\ hand \in [Workers -> Tasks \union {NoTask}]
  /\ cstate \in [Callers -> CallerStates]
  /\ want \in [Callers -> [op : Ops, place : Places] \union {NoTask}]
  /\ stored \in [Places -> Data] /\ latest \in [Places -> Data]
  /\ runs \in [Ids -> Nat] /\ unflushed \subseteq Places

\* The ring holds the tasks submitted last, in order; each task before those
\* is in one worker's hand or has been performed, never twice and never
\* neither; and `completed` counts the ones no worker holds.  A full ring
\* overwriting a task, two workers taking one, or a task forgotten at
\* shutdown would break it.
ExactlyOnce ==
  LET taken == submitted - count
  IN  /\ \A i \in 0 .. count - 1 : Queued[i].id = taken + 1 + i
      /\ \A w \in Busy : hand[w].id <= taken
      /\ \A v, w \in Busy : hand[v].id = hand[w].id => v = w
      /\ \A i \in Ids :
           runs[i] = IF i <= taken /\ ~ \E w \in Workers :
                          wstate[w] = "io" /\ hand[w].id = i
                     THEN 1 ELSE 0
      /\ completed = taken - Cardinality(Busy)
      /\ pool # "running" /\ (\A w \in Workers : wstate[w] = "gone") => count = 0

\* When a flush returns, every task submitted until then, by whichever caller,
\* has been performed and its callback has returned.
FlushIsBarrier ==
  [][\A c \in Callers : cstate[c] = "flush" /\ cstate'[c] = "out" =>
       /\ Busy = {}
       /\ \A i \in 1 .. submitted : runs[i] = 1]_vars

\* A caller that flushes between two tasks on a place reads what it wrote
\* last, although the workers perform tasks in any order.
ReadsLatest ==
  [][\A w \in Workers :
       wstate[w] = "io" /\ wstate'[w] = "done" /\ hand[w].op = "read" =>
         stored[hand[w].place] = latest[hand[w].place]]_vars

\* A submitted task is performed and counted, also when the pool is destroyed
\* while it is queued.
TasksComplete ==
  \A i \in Ids : (submitted >= i /\ runs[i] = 0) ~> (runs[i] = 1 /\ Busy = {})

\* Every call into the pool returns: no sleeper misses its wakeup.
CallsReturn == \A c \in Callers : cstate[c] # "out" ~> cstate[c] = "out"

\* io_worker_destroy returns: every worker is woken, drains the ring and ends.
DestroyReturns == pool = "joining" ~> pool = "none"
=============================================================================
