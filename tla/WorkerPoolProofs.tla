--------------------------- MODULE WorkerPoolProofs ---------------------------
(***************************************************************************)
(* Theorems about WorkerPool: what the locks and the shutdown loop are     *)
(* for, and that the pool implements the life cycle of a task, for any     *)
(* number of workers and tasks and wherever workers are killed.            *)
(***************************************************************************)
EXTENDS WorkerPool, TLAPS

(* Who is inside a critical section holds its lock.                        *)
Inside == [table |-> {"registering", "marking", "freeing"},
           cond  |-> {"pushing"}, read |-> {"popping"}]

LockInv ==
    \A w \in Workers : \A l \in DOMAIN Inside :
       at[w] \in Inside[l] => owner[l] = w

(* A worker has a task from pop() until it has pushed the result; and the  *)
(* table says READY until the task is marked.                              *)
HandInv ==
    \A w \in Workers :
       /\ task[w] # NoTask => at[w] \in {"popped", "marking", "execute",
                                         "executed", "pushing"}
       /\ state[w] = "READY" => at[w] \in {"loop", "waiting", "popping", "popped",
                                           "marking", "dead"}
       /\ at[w] \in {"init", "dead"} => buffered[w] = Nothing

(* The round of the shutdown loop has noted who is alive.                  *)
RoundInv ==
    /\ main \notin {"shutdown", "exit", "down"} => todo = Workers /\ ~active
    /\ main = "shutdown" => \A w \in Workers \ todo : IsAlive(w) => active

(* The places a task can be at; each given task is at one of them at most, *)
(* and is there once.                                                      *)
Pending(t) == t \in given /\ reported[t] = 0

AtMost(t) ==
    /\ \A i, j \in DOMAIN tasks : tasks[i] = t /\ tasks[j] = t => i = j
    /\ \A v, w \in Workers : v \in PoppedBy(t) /\ w \in PoppedBy(t) => v = w
    /\ results[t] \in {0, 1} /\ \A w \in Workers : buffered[w][t] \in {0, 1}
    /\ \A v, w \in Workers : buffered[v][t] > 0 /\ buffered[w][t] > 0 => v = w
    /\ \A w \in Workers : buffered[w][t] > 0 => results[t] = 0
    /\ InQueue(t) => PoppedBy(t) = {} /\ ~IsResult(t)
    /\ PoppedBy(t) # {} => ~IsResult(t)
    /\ InQueue(t) \/ PoppedBy(t) # {} \/ IsResult(t) => Pending(t)
    /\ reported[t] \in {0, 1} /\ (reported[t] = 1 => t \in given)

PlaceInv == \A t \in Tids : AtMost(t)

WInv == TypeOK /\ LockInv /\ HandInv /\ RoundInv /\ NoOrphans /\ PlaceInv

-----------------------------------------------------------------------------
(***************************************************************************)
(* The steps.  Most of what main() does moves itself only.                 *)
(***************************************************************************)
USE NamesAssumption, SizeAssumption DEF mainVars, workerVars, queueVars, taskVars

Looking ==
    /\ main \notin {"shutdown", "exit", "down"}
    /\ main' \in {"results", "ready", "alive", "busy", "talk", "shutdown", main}
    /\ run' \in {run, FALSE} /\ asked' \in {TRUE, FALSE, asked}
    /\ UNCHANGED <<todo, active, queueVars, owner, workerVars, taskVars>>

Worker(w) ==
    /\ WorkerStep(w) \/ Flush(w) \/ KillWorker(w)
    /\ UNCHANGED <<mainVars, taskVars>>

LEMMA StepCases ==
    ASSUME [Next]_vars
    PROVE  \/ Looking
           \/ PopResult \/ EndStopRound \/ Exit
           \/ \E t \in Tids : ReceiveTask(t)
           \/ \E w \in Workers : StopWorker(w)
           \/ \E w \in Workers : Worker(w)
           \/ UNCHANGED vars
  <1>1. ASSUME StartWorkers \/ GiveUpStart PROVE Looking
    BY <1>1 DEF StartWorkers, GiveUpStart, Steps, LoopTop, Looking
  <1>2. ASSUME SeeNoResult \/ RequestTask \/ SeeNoReadyWorker PROVE Looking
    BY <1>2 DEF SeeNoResult, RequestTask, SeeNoReadyWorker, Steps, Looking
  <1>3. ASSUME CheckAlive PROVE Looking
    BY <1>3 DEF CheckAlive, Steps, LoopTop, Looking
  <1>4. ASSUME AwaitResult PROVE Looking
    BY <1>4 DEF AwaitResult, Steps, LoopTop, Looking
  <1>5. ASSUME Exchange PROVE Looking
    BY <1>5 DEF Exchange, Steps, LoopTop, Looking
  <1>6. ASSUME Signal PROVE Looking
    BY <1>6 DEF Signal, Looking
  <1>7. QED
    BY <1>1, <1>2, <1>3, <1>4, <1>5, <1>6 DEF Next, MainStep, Worker

(* Nobody comes back to life, and the dead do nothing.                     *)
LEMMA DeadStayDead ==
    ASSUME TypeOK, NEW w \in Workers, Worker(w)
    PROVE  /\ IsAlive(w)
           /\ \A v \in Workers : at'[v] # "dead" => at[v] # "dead"
           /\ \A v \in Workers \ {w} : at'[v] = at[v]
  <1> USE DEF TypeOK, IsAlive, Goes, Enter, Leave
  <1>1. CASE InstallHandler(w) \/ Register(w) \/ StayInLoop(w) \/ PopTask(w)
    BY <1>1 DEF InstallHandler, Register, StayInLoop, PopTask
  <1>2. CASE MarkExecuting(w) \/ Execute(w) \/ PushResult(w)
    BY <1>2 DEF MarkExecuting, Execute, PushResult
  <1>3. CASE MarkReady(w) \/ ExitWorker(w) \/ Flush(w) \/ KillWorker(w)
    BY <1>3 DEF MarkReady, ExitWorker, Flush, KillWorker
  <1>4. QED
    BY <1>1, <1>2, <1>3 DEF Worker, WorkerStep

-----------------------------------------------------------------------------
LEMMA TailType ==
    ASSUME NEW S, NEW s \in Seq(S), s # << >>
    PROVE  Tail(s) \in Seq(S)
  OBVIOUS

(***************************************************************************)
(* Types.                                                                  *)
(***************************************************************************)
LEMMA WorkerTypes ==
    ASSUME TypeOK, NEW w \in Workers, Worker(w)
    PROVE  TypeOK'
  <1> USE DEF TypeOK, Goes, Enter, Leave, Locks
  <1>1. CASE InstallHandler(w)
    BY <1>1 DEF InstallHandler, Worker
  <1>2. CASE Register(w) \/ StayInLoop(w)
    BY <1>2 DEF Register, StayInLoop, Worker
  <1>3. CASE PopTask(w)
    <2>1. CASE Enter(w, "read", "waiting", "popping")
      BY <2>1 DEF Worker
    <2>2. CASE ~ Enter(w, "read", "waiting", "popping")
      <3>1. tasks' \in Seq(Tids)
        <4>1. tasks' = tasks \/ (tasks # << >> /\ tasks' = Tail(tasks))
          BY <1>3, <2>2 DEF PopTask
        <4>2. tasks \in Seq(Tids)
          OBVIOUS
        <4>3. tasks # << >> => Tail(tasks) \in Seq(Tids)
          BY <4>2, TailType
        <4>4. QED BY <4>1, <4>2, <4>3, Zenon
      <3>2. pills' \in 0 .. MaxPills
        BY <1>3, <2>2 DEF PopTask
      <3>3. task' \in [Workers -> Tids \union {PoisonPill, NoTask}]
        BY <1>3, <2>2 DEF PopTask
      <3>4. /\ at' = [at EXCEPT ![w] = "popped"]
            /\ owner' = [owner EXCEPT !["read"] = Nobody]
            /\ UNCHANGED <<state, buffered, results, runFlag>>
        BY <1>3, <2>2 DEF PopTask
      <3>5. QED
        BY <3>1, <3>2, <3>3, <3>4 DEF Worker
    <2>3. QED BY <2>1, <2>2
  <1>4. CASE MarkExecuting(w)
    <2>1. state' \in [Workers -> {"NOT_READY", "READY", "EXECUTING"}]
      BY <1>4 DEF MarkExecuting
    <2>2. QED BY <1>4, <2>1 DEF MarkExecuting, Worker
  <1>5. CASE Execute(w)
    BY <1>5 DEF Execute, Worker
  <1>6. CASE PushResult(w)
    <2>1. buffered' \in [Workers -> Counts]
      <3>1. CASE task[w] \in Tids /\ buffered' = [buffered EXCEPT ![w][task[w]] = @ + 1]
        BY <3>1 DEF Counts
      <3>2. CASE UNCHANGED buffered
        BY <3>2
      <3>3. QED BY <1>6, <3>1, <3>2 DEF PushResult
    <2>2. QED BY <1>6, <2>1 DEF PushResult, Worker
  <1>7. CASE MarkReady(w)
    <2>1. state' \in [Workers -> {"NOT_READY", "READY", "EXECUTING"}]
      BY <1>7 DEF MarkReady
    <2>2. QED BY <1>7, <2>1 DEF MarkReady, Worker
  <1>8. CASE ExitWorker(w)
    BY <1>8 DEF ExitWorker, Nothing, Counts, Worker
  <1>9. CASE Flush(w)
    <2>1. PICK t \in Tids : /\ buffered[w][t] > 0
                            /\ buffered' = [buffered EXCEPT ![w][t] = @ - 1]
                            /\ results' = [results EXCEPT ![t] = @ + 1]
      BY <1>9 DEF Flush
    <2>2. buffered' \in [Workers -> Counts] /\ results' \in Counts
      BY <2>1 DEF Counts
    <2>3. QED BY <1>9, <2>2 DEF Flush, Worker
  <1>10. CASE KillWorker(w)
    BY <1>10 DEF KillWorker, Nothing, Counts, Worker
  <1>11. QED
    BY <1>1, <1>2, <1>3, <1>4, <1>5, <1>6, <1>7, <1>8, <1>9, <1>10
       DEF Worker, WorkerStep

LEMMA Types ==
    ASSUME TypeOK, [Next]_vars
    PROVE  TypeOK'
  <1>1. CASE Looking
    BY <1>1 DEF Looking, TypeOK
  <1>2. CASE PopResult
    <2>1. PICK t \in Tids : /\ results[t] > 0
                            /\ results' = [results EXCEPT ![t] = @ - 1]
                            /\ reported' = [reported EXCEPT ![t] = @ + 1]
      BY <1>2 DEF PopResult
    <2>2. results' \in Counts /\ reported' \in Counts
      BY <2>1 DEF TypeOK, Counts
    <2>3. QED BY <1>2, <2>2 DEF PopResult, Steps, TypeOK
  <1>3. CASE EndStopRound
    BY <1>3 DEF EndStopRound, TypeOK
  <1>9. CASE Exit
    <2>1. << >> \in Seq(Tids)
      OBVIOUS
    <2>2. QED BY <1>9, <2>1 DEF Exit, Nothing, Counts, TypeOK
  <1>4. ASSUME NEW t \in Tids, ReceiveTask(t) PROVE TypeOK'
    BY <1>4 DEF ReceiveTask, Steps, LoopTop, TypeOK
  <1>5. ASSUME NEW w \in Workers, StopWorker(w) PROVE TypeOK'
    <2>1. pills' \in 0 .. MaxPills
      BY <1>5 DEF StopWorker, PushPill, TypeOK
    <2>2. at' = at \/ at' = [at EXCEPT ![w] = "dead"]
      BY <1>5 DEF StopWorker
    <2>3. runFlag' = runFlag \/ runFlag' = [runFlag EXCEPT ![w] = FALSE]
      BY <1>5 DEF StopWorker
    <2>4. active' \in BOOLEAN /\ todo' \subseteq Workers
      BY <1>5 DEF StopWorker, TypeOK
    <2>5. UNCHANGED <<main, run, asked, tasks, results, owner, state, task,
                      buffered, taskVars>>
      BY <1>5 DEF StopWorker
    <2>6. runFlag' \in [Workers -> BOOLEAN]
      BY <2>3 DEF TypeOK
    <2>7. QED BY <2>1, <2>2, <2>4, <2>5, <2>6 DEF TypeOK
  <1>6. ASSUME NEW w \in Workers, Worker(w) PROVE TypeOK'
    BY <1>6, WorkerTypes
  <1>7. CASE UNCHANGED vars
    BY <1>7 DEF vars, TypeOK
  <1>8. QED
    BY <1>1, <1>2, <1>3, <1>4, <1>5, <1>6, <1>7, <1>9, StepCases

-----------------------------------------------------------------------------
(***************************************************************************)
(* Locks, hands and the shutdown.                                          *)
(***************************************************************************)
LEMMA WorkerLocks ==
    ASSUME TypeOK, LockInv, NEW w \in Workers, Worker(w)
    PROVE  LockInv'
  <1> USE DEF TypeOK, LockInv, Inside, Locks, Goes, Enter, Leave, Free
  <1>1. CASE InstallHandler(w)
    BY <1>1 DEF InstallHandler
  <1>2. CASE Register(w) \/ StayInLoop(w)
    BY <1>2 DEF Register, StayInLoop
  <1>3. CASE PopTask(w)
    BY <1>3 DEF PopTask
  <1>4. CASE MarkExecuting(w)
    BY <1>4 DEF MarkExecuting
  <1>5. CASE Execute(w)
    BY <1>5 DEF Execute
  <1>6. CASE PushResult(w)
    BY <1>6 DEF PushResult
  <1>7. CASE MarkReady(w)
    BY <1>7 DEF MarkReady
  <1>8. CASE ExitWorker(w)
    BY <1>8 DEF ExitWorker
  <1>9. CASE Flush(w)
    BY <1>9 DEF Flush
  <1>10. CASE KillWorker(w)
    BY <1>10 DEF KillWorker
  <1>11. QED
    BY <1>1, <1>2, <1>3, <1>4, <1>5, <1>6, <1>7, <1>8, <1>9, <1>10
       DEF Worker, WorkerStep

LEMMA LocksHeld ==
    ASSUME TypeOK, LockInv, [Next]_vars
    PROVE  LockInv'
  <1>1. ASSUME NEW w \in Workers, StopWorker(w) PROVE LockInv'
    BY <1>1 DEF StopWorker, TypeOK, LockInv, Inside
  <1>2. ASSUME UNCHANGED <<at, owner>> PROVE LockInv'
    BY <1>2 DEF LockInv, Inside
  <1>3. ASSUME NEW t \in Tids, ReceiveTask(t) PROVE LockInv'
    BY <1>2, <1>3 DEF ReceiveTask, Steps
  <1>4. ASSUME PopResult \/ EndStopRound \/ Exit \/ Looking \/ UNCHANGED vars PROVE LockInv'
    BY <1>2, <1>4 DEF PopResult, EndStopRound, Exit, Steps, Looking, vars
  <1>5. QED
    BY <1>1, <1>3, <1>4, StepCases, WorkerLocks

LEMMA WorkerHands ==
    ASSUME TypeOK, HandInv, NEW w \in Workers, Worker(w)
    PROVE  HandInv'
  <1> USE DEF TypeOK, HandInv, Goes, Enter, Leave
  <1>1. CASE InstallHandler(w)
    BY <1>1 DEF InstallHandler
  <1>2. CASE Register(w) \/ StayInLoop(w)
    BY <1>2 DEF Register, StayInLoop
  <1>3. CASE PopTask(w)
    BY <1>3 DEF PopTask
  <1>4. CASE MarkExecuting(w)
    BY <1>4 DEF MarkExecuting
  <1>5. CASE Execute(w)
    BY <1>5 DEF Execute
  <1>6. CASE PushResult(w)
    BY <1>6 DEF PushResult
  <1>7. CASE MarkReady(w)
    BY <1>7 DEF MarkReady
  <1>8. CASE ExitWorker(w)
    BY <1>8 DEF ExitWorker
  <1>9. CASE Flush(w)
    BY <1>9 DEF Flush, IsAlive, Nothing
  <1>10. CASE KillWorker(w)
    BY <1>10 DEF KillWorker
  <1>11. QED
    BY <1>1, <1>2, <1>3, <1>4, <1>5, <1>6, <1>7, <1>8, <1>9, <1>10
       DEF Worker, WorkerStep

LEMMA HandsKnown ==
    ASSUME TypeOK, HandInv, [Next]_vars
    PROVE  HandInv'
  <1>1. ASSUME NEW w \in Workers, StopWorker(w) PROVE HandInv'
    BY <1>1 DEF StopWorker, TypeOK, HandInv
  <1>2. ASSUME UNCHANGED <<at, task, state, buffered>> PROVE HandInv'
    BY <1>2 DEF HandInv
  <1>3. ASSUME NEW t \in Tids, ReceiveTask(t) PROVE HandInv'
    BY <1>2, <1>3 DEF ReceiveTask, Steps
  <1>4. ASSUME PopResult \/ EndStopRound \/ Exit \/ Looking \/ UNCHANGED vars PROVE HandInv'
    BY <1>2, <1>4 DEF PopResult, EndStopRound, Exit, Steps, Looking, vars
  <1>5. QED
    BY <1>1, <1>3, <1>4, StepCases, WorkerHands

LEMMA RoundsComplete ==
    ASSUME TypeOK, RoundInv, NoOrphans, [Next]_vars
    PROVE  RoundInv' /\ NoOrphans'
  <1> USE DEF TypeOK, RoundInv, NoOrphans, IsAlive
  <1>1. CASE Looking
    BY <1>1 DEF Looking
  <1>2. CASE PopResult
    BY <1>2 DEF PopResult, Steps
  <1>3. CASE EndStopRound \/ Exit
    BY <1>3 DEF EndStopRound, Exit
  <1>4. ASSUME NEW t \in Tids, ReceiveTask(t) PROVE RoundInv' /\ NoOrphans'
    BY <1>4 DEF ReceiveTask, Steps, LoopTop
  <1>5. ASSUME NEW w \in Workers, StopWorker(w) PROVE RoundInv' /\ NoOrphans'
    BY <1>5 DEF StopWorker
  <1>6. ASSUME NEW w \in Workers, Worker(w) PROVE RoundInv' /\ NoOrphans'
    BY <1>6, DeadStayDead DEF Worker
  <1>7. CASE UNCHANGED vars
    BY <1>7 DEF vars
  <1>8. QED
    BY <1>1, <1>2, <1>3, <1>4, <1>5, <1>6, <1>7, StepCases

-----------------------------------------------------------------------------
(***************************************************************************)
(* Places.  A step takes a task from one place to the next, or loses it,   *)
(* and leaves the other tasks where they are.                              *)
(***************************************************************************)
LEMMA FewerPlaces ==
    ASSUME NEW t \in Tids, AtMost(t),
           \A i, j \in DOMAIN tasks' : tasks'[i] = t /\ tasks'[j] = t => i = j,
           \A i \in DOMAIN tasks' : tasks'[i] = t => InQueue(t),
           \A w \in Workers : task'[w] = t => task[w] = t,
           \A w \in Workers : buffered'[w][t] \in {0, buffered[w][t]},
           results'[t] \in {0, results[t]},
           reported'[t] = reported[t], t \in given => t \in given'
    PROVE  AtMost(t)'
  BY DEF AtMost, InQueue, PoppedBy, IsResult, Pending

LEMMA SamePlaces ==
    ASSUME PlaceInv, UNCHANGED <<tasks, task, buffered, results, given, reported>>
    PROVE  PlaceInv'
  BY DEF PlaceInv, AtMost, InQueue, PoppedBy, IsResult, Pending

LEMMA PopPlaces ==
    ASSUME TypeOK, PlaceInv, NEW w \in Workers,
           tasks # << >>, task' = [task EXCEPT ![w] = Head(tasks)],
           tasks' = Tail(tasks), UNCHANGED <<buffered, results, given, reported>>
    PROVE  PlaceInv'
  <1>1. /\ tasks \in Seq(Tids) /\ Head(tasks) = tasks[1] /\ 1 \in DOMAIN tasks
        /\ \A i \in DOMAIN tasks' : /\ i \in Nat /\ i > 0
                                    /\ i + 1 \in DOMAIN tasks
                                    /\ tasks'[i] = tasks[i + 1]
    BY DEF TypeOK
  <1>2. /\ \A v \in Workers \ {w} : task'[v] = task[v]
        /\ task'[w] = tasks[1]
    BY <1>1 DEF TypeOK
  <1> SUFFICES ASSUME NEW t \in Tids PROVE AtMost(t)'
    BY DEF PlaceInv
  <1>3. AtMost(t)
    BY DEF PlaceInv
  <1>4. \A i, j \in DOMAIN tasks' : tasks'[i] = t /\ tasks'[j] = t => i = j
    <2> SUFFICES ASSUME NEW i \in DOMAIN tasks', NEW j \in DOMAIN tasks',
                        tasks'[i] = t, tasks'[j] = t
                 PROVE  i = j
      OBVIOUS
    <2>1. i + 1 = j + 1
      BY <1>1, <1>3 DEF AtMost
    <2>2. QED BY <1>1, <2>1
  <1>5. CASE t = tasks[1]
    <2>1. \A i \in DOMAIN tasks' : tasks'[i] # t
      <3> SUFFICES ASSUME NEW i \in DOMAIN tasks', tasks'[i] = t PROVE FALSE
        OBVIOUS
      <3>1. i + 1 = 1
        BY <1>1, <1>3, <1>5 DEF AtMost
      <3>2. QED BY <1>1, <3>1
    <2>2. /\ InQueue(t) /\ PoppedBy(t) = {} /\ ~IsResult(t)
          /\ Pending(t)
      BY <1>1, <1>3, <1>5 DEF AtMost, InQueue
    <2>3. ~InQueue(t)' /\ ~IsResult(t)' /\ Pending(t)'
      BY <2>1, <2>2 DEF InQueue, IsResult, Pending
    <2>4. \A v \in Workers : task'[v] = t => v = w
      BY <2>2, <1>2 DEF PoppedBy
    <2>6. /\ results'[t] \in {0, 1} /\ \A v \in Workers : buffered'[v][t] \in {0, 1}
          /\ reported'[t] \in {0, 1}
      BY <1>3 DEF AtMost
    <2>5. QED BY <2>1, <2>3, <2>4, <2>6 DEF AtMost, InQueue, IsResult, PoppedBy, Pending
  <1>6. CASE t # tasks[1]
    <2>1. \A i \in DOMAIN tasks' : tasks'[i] = t => InQueue(t)
      BY <1>1 DEF InQueue
    <2>2. QED BY <1>2, <1>3, <1>4, <1>6, <2>1, FewerPlaces
  <1>7. QED BY <1>5, <1>6

LEMMA PushPlaces ==
    ASSUME TypeOK, PlaceInv, NEW w \in Workers, task[w] \in Tids,
           buffered' = [buffered EXCEPT ![w][task[w]] = @ + 1],
           task' = [task EXCEPT ![w] = NoTask],
           UNCHANGED <<tasks, results, given, reported>>
    PROVE  PlaceInv'
  <1>1. /\ \A v \in Workers \ {w} : task'[v] = task[v] /\ buffered'[v] = buffered[v]
        /\ task'[w] = NoTask
        /\ buffered'[w] = [buffered[w] EXCEPT ![task[w]] = @ + 1]
        /\ buffered[w] \in [Tids -> Nat]
    BY DEF TypeOK, Counts
  <1> SUFFICES ASSUME NEW t \in Tids PROVE AtMost(t)'
    BY DEF PlaceInv
  <1>2. AtMost(t) /\ t # NoTask
    BY DEF PlaceInv
  <1>3. CASE task[w] = t
    <2>1. /\ PoppedBy(t) = {w} /\ ~InQueue(t) /\ ~IsResult(t)
          /\ Pending(t)
      BY <1>2, <1>3 DEF AtMost, PoppedBy
    <2>2. PoppedBy(t)' = {} /\ ~InQueue(t)'
      BY <2>1, <1>1, <1>2 DEF PoppedBy, InQueue
    <2>3. /\ \A v \in Workers \ {w} : buffered'[v][t] = 0
          /\ buffered'[w][t] = 1
      <3>1. \A v \in Workers : buffered[v][t] = 0
        BY <2>1, <1>2 DEF IsResult, AtMost
      <3>2. QED BY <3>1, <1>1, <1>3
    <2>4. results'[t] = 0 /\ Pending(t)'
      BY <2>1, <1>2 DEF IsResult, AtMost, Pending
    <2>5. QED BY <2>2, <2>3, <2>4 DEF AtMost, InQueue, IsResult, Pending
  <1>4. CASE task[w] # t
    <2>1. \A i, j \in DOMAIN tasks' : tasks'[i] = t /\ tasks'[j] = t => i = j
      BY <1>2 DEF AtMost
    <2>2. \A v \in Workers : buffered'[v][t] = buffered[v][t]
      BY <1>1, <1>4
    <2>3. QED BY <1>1, <1>2, <2>1, <2>2, FewerPlaces DEF InQueue
  <1>5. QED BY <1>3, <1>4

LEMMA FlushPlaces ==
    ASSUME TypeOK, PlaceInv, NEW w \in Workers, NEW r \in Tids,
           buffered[w][r] > 0,
           buffered' = [buffered EXCEPT ![w][r] = @ - 1],
           results' = [results EXCEPT ![r] = @ + 1],
           UNCHANGED <<tasks, task, given, reported>>
    PROVE  PlaceInv'
  <1>1. /\ \A v \in Workers \ {w} : buffered'[v] = buffered[v]
        /\ buffered'[w] = [buffered[w] EXCEPT ![r] = @ - 1]
        /\ buffered[w] \in [Tids -> Nat] /\ results \in [Tids -> Nat]
    BY DEF TypeOK, Counts
  <1> SUFFICES ASSUME NEW t \in Tids PROVE AtMost(t)'
    BY DEF PlaceInv
  <1>2. AtMost(t)
    BY DEF PlaceInv
  <1>3. CASE t = r
    <2>1. /\ PoppedBy(t) = {} /\ ~InQueue(t) /\ Pending(t)
          /\ buffered[w][t] = 1 /\ results[t] = 0
          /\ \A v \in Workers \ {w} : buffered[v][t] = 0
      BY <1>2, <1>3 DEF AtMost, IsResult
    <2>2. PoppedBy(t)' = {} /\ ~InQueue(t)' /\ Pending(t)'
      BY <2>1 DEF PoppedBy, InQueue, Pending
    <2>3. \A v \in Workers : buffered'[v][t] = 0
      BY <2>1, <1>1, <1>3
    <2>4. results'[t] = 1
      BY <2>1, <1>1, <1>3
    <2>5. QED BY <2>2, <2>3, <2>4 DEF AtMost, InQueue, Pending
  <1>4. CASE t # r
    <2>1. \A i, j \in DOMAIN tasks' : tasks'[i] = t /\ tasks'[j] = t => i = j
      BY <1>2 DEF AtMost
    <2>2. results'[t] = results[t] /\ \A v \in Workers : buffered'[v][t] = buffered[v][t]
      BY <1>1, <1>4
    <2>3. QED BY <1>2, <2>1, <2>2, FewerPlaces DEF InQueue
  <1>5. QED BY <1>3, <1>4

LEMMA LosePlaces ==
    ASSUME TypeOK, PlaceInv, NEW w \in Workers,
           buffered' = [buffered EXCEPT ![w] = Nothing],
           task' = task \/ task' = [task EXCEPT ![w] = NoTask],
           UNCHANGED <<tasks, results, given, reported>>
    PROVE  PlaceInv'
  <1> SUFFICES ASSUME NEW t \in Tids PROVE AtMost(t)'
    BY DEF PlaceInv
  <1>1. AtMost(t) /\ t # NoTask
    BY DEF PlaceInv
  <1>2. \A v \in Workers : /\ task'[v] = t => task[v] = t
                           /\ buffered'[v][t] \in {0, buffered[v][t]}
    BY <1>1 DEF TypeOK, Nothing
  <1>3. \A i, j \in DOMAIN tasks' : tasks'[i] = t /\ tasks'[j] = t => i = j
    BY <1>1 DEF AtMost
  <1>4. QED BY <1>1, <1>2, <1>3, FewerPlaces DEF InQueue

LEMMA OtherPlaces ==
    ASSUME TypeOK, PlaceInv, NEW w \in Workers, NEW x, x \notin Tids,
           task' = [task EXCEPT ![w] = x],
           UNCHANGED <<tasks, buffered, results, given, reported>>
    PROVE  PlaceInv'
  <1> SUFFICES ASSUME NEW t \in Tids PROVE AtMost(t)'
    BY DEF PlaceInv
  <1>1. AtMost(t) /\ t # x
    BY DEF PlaceInv
  <1>2. \A v \in Workers : task'[v] = t => task[v] = t
    BY <1>1 DEF TypeOK
  <1>3. \A i, j \in DOMAIN tasks' : tasks'[i] = t /\ tasks'[j] = t => i = j
    BY <1>1 DEF AtMost
  <1>4. QED BY <1>1, <1>2, <1>3, FewerPlaces DEF InQueue

LEMMA ReportPlaces ==
    ASSUME TypeOK, PlaceInv, NEW r \in Tids, results[r] > 0,
           results' = [results EXCEPT ![r] = @ - 1],
           reported' = [reported EXCEPT ![r] = @ + 1],
           UNCHANGED <<tasks, task, buffered, given>>
    PROVE  PlaceInv'
  <1>1. results \in [Tids -> Nat] /\ reported \in [Tids -> Nat]
    BY DEF TypeOK, Counts
  <1> SUFFICES ASSUME NEW t \in Tids PROVE AtMost(t)'
    BY DEF PlaceInv
  <1>2. AtMost(t)
    BY DEF PlaceInv
  <1>3. CASE t = r
    <2>1. /\ PoppedBy(t) = {} /\ ~InQueue(t) /\ Pending(t)
          /\ results[t] = 1 /\ \A v \in Workers : buffered[v][t] = 0
      BY <1>2, <1>3 DEF AtMost, IsResult
    <2>2. results'[t] = 0 /\ reported'[t] = 1 /\ t \in given'
      BY <1>1, <1>3, <2>1 DEF Pending
    <2>3. PoppedBy(t)' = {} /\ ~InQueue(t)' /\ ~IsResult(t)'
      BY <2>1, <2>2 DEF PoppedBy, InQueue, IsResult
    <2>4. QED BY <2>1, <2>2, <2>3 DEF AtMost, InQueue
  <1>4. CASE t # r
    <2>1. \A i, j \in DOMAIN tasks' : tasks'[i] = t /\ tasks'[j] = t => i = j
      BY <1>2 DEF AtMost
    <2>2. results'[t] = results[t] /\ reported'[t] = reported[t]
      BY <1>1, <1>4
    <2>3. QED BY <1>2, <2>1, <2>2, FewerPlaces DEF InQueue
  <1>5. QED BY <1>3, <1>4

LEMMA AssignPlaces ==
    ASSUME TypeOK, PlaceInv, NEW a \in Tids, a \notin given,
           tasks' = Append(tasks, a), given' = given \union {a},
           UNCHANGED <<task, buffered, results, reported>>
    PROVE  PlaceInv'
  <1>1. /\ tasks \in Seq(Tids) /\ DOMAIN tasks' = 1 .. Len(tasks) + 1
        /\ tasks'[Len(tasks) + 1] = a
        /\ \A i \in 1 .. Len(tasks) : tasks'[i] = tasks[i] /\ i \in DOMAIN tasks
    BY DEF TypeOK
  <1> SUFFICES ASSUME NEW t \in Tids PROVE AtMost(t)'
    BY DEF PlaceInv
  <1>2. AtMost(t)
    BY DEF PlaceInv
  <1>3. CASE t = a
    <2>1. /\ PoppedBy(t) = {} /\ ~InQueue(t) /\ ~IsResult(t) /\ reported[t] = 0
      BY <1>2, <1>3 DEF AtMost, Pending
    <2>2. PoppedBy(t)' = {} /\ ~IsResult(t)' /\ Pending(t)'
      BY <2>1, <1>3 DEF PoppedBy, IsResult, Pending
    <2>5. /\ results'[t] \in {0, 1} /\ reported'[t] = 0
          /\ \A v \in Workers : buffered'[v][t] \in {0, 1}
      BY <1>2, <2>1 DEF AtMost
    <2>3. \A i \in DOMAIN tasks' : tasks'[i] = t => i = Len(tasks) + 1
      BY <2>1, <1>1 DEF InQueue
    <2>4. QED BY <2>2, <2>3, <2>5 DEF AtMost, IsResult
  <1>4. CASE t # a
    <2>1. \A i \in DOMAIN tasks' :
             tasks'[i] = t => i \in DOMAIN tasks /\ tasks[i] = t
      BY <1>1, <1>4
    <2>2. \A i, j \in DOMAIN tasks' : tasks'[i] = t /\ tasks'[j] = t => i = j
      BY <1>2, <2>1 DEF AtMost
    <2>3. \A i \in DOMAIN tasks' : tasks'[i] = t => InQueue(t)
      BY <2>1 DEF InQueue
    <2>4. QED BY <1>2, <2>2, <2>3, FewerPlaces
  <1>5. QED BY <1>3, <1>4

LEMMA EndPlaces ==
    ASSUME PlaceInv, tasks' = << >>, results' = Nothing,
           UNCHANGED <<task, buffered, given, reported>>
    PROVE  PlaceInv'
  <1> SUFFICES ASSUME NEW t \in Tids PROVE AtMost(t)'
    BY DEF PlaceInv
  <1>1. AtMost(t)
    BY DEF PlaceInv
  <1>2. (\A i \in DOMAIN tasks' : FALSE) /\ results'[t] = 0
    BY DEF Nothing
  <1>3. QED BY <1>1, <1>2, FewerPlaces

LEMMA WorkerPlaces ==
    ASSUME TypeOK, PlaceInv, NEW w \in Workers, Worker(w)
    PROVE  PlaceInv'
  <1> USE DEF Enter, Leave, Goes
  <1>0. UNCHANGED <<given, reported>>
    BY DEF Worker
  <1>1. CASE InstallHandler(w) \/ Register(w) \/ StayInLoop(w)
    BY <1>0, <1>1, SamePlaces DEF InstallHandler, Register, StayInLoop
  <1>2. CASE PopTask(w)
    <2>1. CASE Enter(w, "read", "waiting", "popping")
      BY <1>0, <2>1, SamePlaces
    <2>2. CASE ~Enter(w, "read", "waiting", "popping")
      BY <1>0, <1>2, <2>2, PopPlaces, OtherPlaces DEF PopTask
    <2>3. QED BY <2>1, <2>2
  <1>3. CASE MarkExecuting(w) \/ Execute(w) \/ MarkReady(w)
    BY <1>0, <1>3, SamePlaces DEF MarkExecuting, Execute, MarkReady
  <1>4. CASE PushResult(w)
    <2>1. CASE Enter(w, "cond", "executed", "pushing")
      BY <1>0, <2>1, SamePlaces
    <2>2. CASE task[w] \in Tids /\ ~Enter(w, "cond", "executed", "pushing")
      BY <1>0, <1>4, <2>2, PushPlaces DEF PushResult
    <2>3. CASE task[w] \notin Tids /\ ~Enter(w, "cond", "executed", "pushing")
      BY <1>0, <1>4, <2>3, OtherPlaces DEF PushResult
    <2>4. QED BY <2>1, <2>2, <2>3
  <1>5. CASE ExitWorker(w)
    BY <1>0, <1>5, LosePlaces DEF ExitWorker
  <1>6. CASE Flush(w)
    BY <1>0, <1>6, FlushPlaces DEF Flush
  <1>7. CASE KillWorker(w)
    BY <1>0, <1>7, LosePlaces DEF KillWorker
  <1>8. QED
    BY <1>1, <1>2, <1>3, <1>4, <1>5, <1>6, <1>7 DEF Worker, WorkerStep

LEMMA PlacesDistinct ==
    ASSUME TypeOK, PlaceInv, [Next]_vars
    PROVE  PlaceInv'
  <1>1. CASE Looking \/ UNCHANGED vars
    BY <1>1, SamePlaces DEF Looking, vars
  <1>2. CASE PopResult
    BY <1>2, ReportPlaces DEF PopResult, Steps
  <1>3. CASE EndStopRound \/ Exit
    BY <1>3, SamePlaces, EndPlaces DEF EndStopRound, Exit
  <1>4. ASSUME NEW t \in Tids, ReceiveTask(t) PROVE PlaceInv'
    BY <1>4, AssignPlaces DEF ReceiveTask, Steps
  <1>5. ASSUME NEW w \in Workers, StopWorker(w) PROVE PlaceInv'
    BY <1>5, SamePlaces DEF StopWorker
  <1>6. QED
    BY <1>1, <1>2, <1>3, <1>4, <1>5, WorkerPlaces, StepCases

-----------------------------------------------------------------------------
LEMMA Start == Init => WInv
  <1> SUFFICES ASSUME Init PROVE WInv
    OBVIOUS
  <1>1. TypeOK
    <2>1. << >> \in Seq(Tids)
      OBVIOUS
    <2>2. tasks \in Seq(Tids) /\ pills \in 0 .. MaxPills
      BY <2>1 DEF Init
    <2>3. QED BY <2>2 DEF Init, TypeOK, Nothing, Counts
  <1>2. LockInv /\ HandInv
    BY DEF Init, LockInv, HandInv, Inside
  <1>3. RoundInv /\ NoOrphans
    BY DEF Init, RoundInv, NoOrphans
  <1>4. PlaceInv
    <2> SUFFICES ASSUME NEW t \in Tids PROVE AtMost(t)
      BY DEF PlaceInv
    <2>1. ~InQueue(t) /\ PoppedBy(t) = {} /\ ~IsResult(t)
      BY DEF Init, InQueue, PoppedBy, IsResult, Nothing
    <2>2. QED BY <2>1 DEF Init, AtMost, Nothing
  <1>5. QED BY <1>1, <1>2, <1>3, <1>4 DEF WInv

LEMMA Inductive == WInv /\ [Next]_vars => WInv'
  <1>1. WInv /\ [Next]_vars => TypeOK' /\ LockInv' /\ HandInv'
    BY Types, LocksHeld, HandsKnown DEF WInv
  <1>2. WInv /\ [Next]_vars => RoundInv' /\ NoOrphans' /\ PlaceInv'
    BY RoundsComplete, PlacesDistinct DEF WInv
  <1>3. QED BY <1>1, <1>2 DEF WInv

LEMMA Invariance == Spec => []WInv
  BY Start, Inductive, PTL DEF Spec

(* The controller's and the workers' variables keep their types.           *)
THEOREM TypesHold == Spec => []TypeOK
  <1>1. WInv => TypeOK
    BY DEF WInv
  <1>2. QED BY <1>1, Invariance, PTL

(* A worker that is seen READY under the lock of the table has handed over *)
(* the result of the task before.                                          *)
THEOREM ReadyWorkersAreDone == Spec => []ReadyHasNoResult
  <1>1. WInv => ReadyHasNoResult
    BY DEF WInv, TypeOK, LockInv, HandInv, Inside, Locks, ReadyHasNoResult,
           Free, IsAlive
  <1>2. QED BY <1>1, Invariance, PTL

(* When the controller ends none of its worker processes is left, wherever *)
(* they were when the shutdown came.                                       *)
THEOREM LeavesNoOrphans == Spec => []NoOrphans
  <1>1. WInv => NoOrphans
    BY DEF WInv
  <1>2. QED BY <1>1, Invariance, PTL

-----------------------------------------------------------------------------
(***************************************************************************)
(* The life cycle.  What a task's life is follows from the place it is at. *)
(***************************************************************************)
Over(w) == at[w] \in {"executed", "pushing"}

Once(t)  == reported[t] = 1
Again(t) == reported[t] # 0 /\ reported[t] # 1

LifeIs(t) ==
    /\ t \notin given => Life(t) = "new"
    /\ t \in given /\ Once(t) => Life(t) = "finished"
    /\ t \in given /\ Again(t) => Life(t) = "repeated"
    /\ Pending(t) /\ InQueue(t) => Life(t) = "dispatched"
    /\ Pending(t) /\ ~InQueue(t) =>
          /\ (\E w \in PoppedBy(t) : Over(w)) => Life(t) = "executed"
          /\ PoppedBy(t) # {} /\ (\A w \in PoppedBy(t) : ~Over(w)) => Life(t) = "running"
          /\ PoppedBy(t) = {} /\ IsResult(t) => Life(t) = "executed"
          /\ PoppedBy(t) = {} /\ ~IsResult(t) => Life(t) = "lost"

LEMMA LifeFrom == \A t \in Tids : LifeIs(t)
  <1> SUFFICES ASSUME NEW t \in Tids PROVE LifeIs(t)
    OBVIOUS
  <1> DEFINE x == \E w \in PoppedBy(t) : Over(w)
  <1>1. Life(t) = IF t \notin given THEN "new" ELSE IF reported[t] = 1 THEN "finished"
                  ELSE IF reported[t] # 0 THEN "repeated"
                  ELSE IF InQueue(t) THEN "dispatched" ELSE IF x THEN "executed"
                  ELSE IF PoppedBy(t) # {} THEN "running"
                  ELSE IF IsResult(t) THEN "executed" ELSE "lost"
    BY DEF Life, Over
  <1>2. x => PoppedBy(t) # {}
    OBVIOUS
  <1>3. (\A w \in PoppedBy(t) : ~Over(w)) => ~x
    OBVIOUS
  <1>4. reported[t] = 0 => reported[t] # 1
    OBVIOUS
  <1> HIDE DEF x
  <1>5. QED
    BY <1>1, <1>2, <1>3, <1>4, Zenon DEF x, LifeIs, Pending, Once, Again

LEMMA LifeThen == (\A t \in Tids : LifeIs(t))'
  BY LifeFrom, PTL

(* A task whose place, and the state of whose worker, don't change.        *)
LEMMA SameLife ==
    ASSUME NEW t \in Tids,
           t \in given' <=> t \in given, reported'[t] = reported[t],
           InQueue(t)' <=> InQueue(t), IsResult(t)' <=> IsResult(t),
           PoppedBy(t)' = PoppedBy(t),
           \A w \in PoppedBy(t) : Over(w)' <=> Over(w)
    PROVE  Life(t)' = Life(t)
  <1>1. LifeIs(t) /\ LifeIs(t)'
    BY LifeFrom, LifeThen
  <1>2. /\ Pending(t)' <=> Pending(t)
        /\ Once(t)' <=> Once(t)
        /\ Again(t)' <=> Again(t)
    BY DEF Pending, Once, Again
  <1>3. t \notin given \/ Pending(t) \/ Once(t) \/ Again(t)
    BY DEF Pending, Once, Again
  <1>4. QED BY <1>1, <1>2, <1>3 DEF LifeIs

(* A task is lost when it is taken from the one place it is at.            *)
Lost(t) == Life(t) \in {"dispatched", "running", "executed"} /\ Life(t)' = "lost"

LEMMA LoseLife ==
    ASSUME NEW t \in Tids, AtMost(t),
           UNCHANGED <<given, reported>>,
           InQueue(t)' => InQueue(t), IsResult(t)' => IsResult(t),
           PoppedBy(t)' \subseteq PoppedBy(t),
           \A w \in PoppedBy(t)' : Over(w)' <=> Over(w)
    PROVE  Life(t)' = Life(t) \/ Lost(t)
  <1>1. LifeIs(t) /\ LifeIs(t)'
    BY LifeFrom, LifeThen
  <1>2. CASE ~Pending(t)
    <2>1. Once(t)' <=> Once(t)
      BY DEF Once
    <2>2. t \notin given \/ Once(t)
      BY <1>2 DEF AtMost, Pending, Once
    <2>3. QED BY <1>1, <2>1, <2>2 DEF LifeIs
  <1>3. CASE Pending(t) /\ InQueue(t)
    BY <1>1, <1>3 DEF LifeIs, AtMost, Lost, Pending
  <1>4. CASE Pending(t) /\ ~InQueue(t) /\ PoppedBy(t) # {}
    <2>1. PICK w \in PoppedBy(t) : PoppedBy(t) = {w}
      BY <1>4 DEF AtMost, PoppedBy
    <2>2. ~IsResult(t)
      BY <1>4 DEF AtMost
    <2>3. PoppedBy(t)' = {} \/ PoppedBy(t)' = {w}
      BY <2>1
    <2>4. QED BY <1>1, <1>4, <2>1, <2>2, <2>3 DEF LifeIs, Lost, Pending
  <1>5. CASE Pending(t) /\ ~InQueue(t) /\ PoppedBy(t) = {}
    BY <1>1, <1>5 DEF LifeIs, Lost, Pending
  <1>6. QED BY <1>2, <1>3, <1>4, <1>5

(* The steps of the life cycle.                                            *)
life == [t \in Tids |-> Life(t)]

Stays == \A t \in Tids : Life(t)' = Life(t)
SomeLost == \A t \in Tids : Life(t)' = Life(t) \/ Lost(t)
Moves(t, from, to) ==
    /\ Life(t) = from /\ Life(t)' = to
    /\ \A u \in Tids \ {t} : Life(u)' = Life(u)

LEMMA PopLife ==
    ASSUME WInv, WInv', NEW w \in Workers, at[w] = "popping",
           at' = [at EXCEPT ![w] = "popped"],
           tasks # << >>, task' = [task EXCEPT ![w] = Head(tasks)],
           tasks' = Tail(tasks), UNCHANGED <<buffered, results, given, reported>>
    PROVE  \E t \in Tids : Moves(t, "dispatched", "running")
  <1>1. /\ tasks \in Seq(Tids) /\ Head(tasks) = tasks[1] /\ 1 \in DOMAIN tasks
        /\ \A i \in DOMAIN tasks' : i + 1 \in DOMAIN tasks /\ tasks'[i] = tasks[i + 1]
        /\ \A i \in DOMAIN tasks : i # 1 => i - 1 \in DOMAIN tasks' /\ tasks'[i - 1] = tasks[i]
    BY DEF WInv, TypeOK
  <1>2. /\ \A v \in Workers \ {w} : task'[v] = task[v] /\ at'[v] = at[v]
        /\ task'[w] = tasks[1] /\ task[w] = NoTask
        /\ at'[w] = "popped"
    <2>1. task[w] = NoTask
      BY DEF WInv, HandInv
    <2>2. QED BY <1>1, <2>1 DEF WInv, TypeOK
  <1>3. PICK t \in Tids : t = tasks[1]
    BY <1>1
  <1>4. Life(t) = "dispatched"
    <2>1. InQueue(t)
      BY <1>1, <1>3 DEF InQueue
    <2>2. Pending(t)
      BY <1>3, <2>1 DEF WInv, PlaceInv, AtMost
    <2>3. QED BY <1>3, <2>1, <2>2, LifeFrom DEF LifeIs
  <1>5. Life(t)' = "running"
    <2>1. AtMost(t)'
      BY <1>3 DEF WInv, PlaceInv
    <2>2. w \in PoppedBy(t)'
      BY <1>2, <1>3 DEF PoppedBy
    <2>3. ~InQueue(t)' /\ PoppedBy(t)' = {w} /\ Pending(t)'
      BY <2>1, <2>2 DEF AtMost, PoppedBy
    <2>4. ~Over(w)'
      BY <1>2 DEF Over
    <2>5. QED
      <3>1. LifeIs(t)'
        BY <1>3, LifeThen
      <3>2. QED BY <2>3, <2>4, <3>1 DEF LifeIs
  <1>6. ASSUME NEW u \in Tids \ {t} PROVE Life(u)' = Life(u)
    <2>1. InQueue(u)' <=> InQueue(u)
      <3>1. ASSUME InQueue(u)' PROVE InQueue(u)
        BY <1>1, <3>1 DEF InQueue
      <3>2. ASSUME InQueue(u) PROVE InQueue(u)'
        <4>1. PICK i \in DOMAIN tasks : tasks[i] = u
          BY <3>2 DEF InQueue
        <4>2. i # 1
          BY <1>3, <4>1
        <4>3. QED BY <1>1, <4>1, <4>2 DEF InQueue
      <3>3. QED BY <3>1, <3>2
    <2>2. PoppedBy(u)' = PoppedBy(u)
      BY <1>2, <1>3 DEF PoppedBy
    <2>3. \A v \in PoppedBy(u) : Over(v)' <=> Over(v)
      BY <1>2 DEF Over, PoppedBy
    <2>4. IsResult(u)' <=> IsResult(u)
      BY DEF IsResult
    <2>5. QED BY <2>1, <2>2, <2>3, <2>4, SameLife
  <1>7. QED BY <1>4, <1>5, <1>6 DEF Moves

(* Only Execute makes a worker's task one that is over.                    *)
LEMMA QuietLife ==
    ASSUME WInv, UNCHANGED <<tasks, buffered, results, given, reported>>,
           \A t \in Tids : PoppedBy(t)' = PoppedBy(t),
           \A w \in Workers : task[w] \in Tids => (Over(w)' <=> Over(w))
    PROVE  Stays
  <1> SUFFICES ASSUME NEW t \in Tids PROVE Life(t)' = Life(t)
    BY DEF Stays
  <1>1. \A w \in PoppedBy(t) : Over(w)' <=> Over(w)
    BY DEF PoppedBy
  <1>2. (InQueue(t)' <=> InQueue(t)) /\ (IsResult(t)' <=> IsResult(t))
    BY DEF InQueue, IsResult
  <1>3. QED BY <1>1, <1>2, SameLife

LEMMA ExecuteLife ==
    ASSUME WInv, WInv', NEW w \in Workers, Execute(w), UNCHANGED <<given, reported>>
    PROVE  Stays \/ \E t \in Tids : Moves(t, "running", "executed")
  <1>1. /\ at[w] = "execute" /\ at'[w] = "executed"
        /\ \A v \in Workers \ {w} : at'[v] = at[v]
        /\ UNCHANGED <<tasks, results, buffered, task, given, reported>>
    BY DEF Execute, Goes, WInv, TypeOK
  <1>2. /\ \A t \in Tids : PoppedBy(t)' = PoppedBy(t)
        /\ \A v \in Workers \ {w} : Over(v)' <=> Over(v)
        /\ ~Over(w) /\ Over(w)'
    BY <1>1 DEF PoppedBy, Over
  <1>3. CASE task[w] \notin Tids
    BY <1>1, <1>2, <1>3, QuietLife
  <1>4. CASE task[w] \in Tids
    <2>0. PICK t \in Tids : t = task[w]
      BY <1>4
    <2>1. PoppedBy(t) = {w} /\ ~InQueue(t) /\ Pending(t)
      BY <2>0 DEF WInv, PlaceInv, AtMost, PoppedBy
    <2>2. ~InQueue(t)' /\ PoppedBy(t)' = {w} /\ Pending(t)'
      BY <1>1, <1>2, <2>1 DEF InQueue, Pending
    <2>3. Life(t) = "running" /\ Life(t)' = "executed"
      <3>1. LifeIs(t) /\ LifeIs(t)'
        BY LifeFrom, LifeThen
      <3>2. QED BY <2>1, <2>2, <3>1, <1>2 DEF LifeIs
    <2>4. ASSUME NEW u \in Tids \ {t} PROVE Life(u)' = Life(u)
      <3>1. \A v \in PoppedBy(u) : Over(v)' <=> Over(v)
        BY <1>2, <2>0 DEF PoppedBy
      <3>2. (InQueue(u)' <=> InQueue(u)) /\ (IsResult(u)' <=> IsResult(u))
        BY <1>1 DEF InQueue, IsResult
      <3>3. QED BY <1>1, <1>2, <3>1, <3>2, SameLife
    <2>5. QED BY <2>3, <2>4 DEF Moves
  <1>5. QED BY <1>3, <1>4

LEMMA PushLife ==
    ASSUME WInv, NEW w \in Workers, at[w] = "pushing",
           at' = [at EXCEPT ![w] = "pushed"],
           IF task[w] \in Tids
           THEN buffered' = [buffered EXCEPT ![w][task[w]] = @ + 1]
           ELSE UNCHANGED buffered,
           task' = [task EXCEPT ![w] = NoTask],
           UNCHANGED <<tasks, results, given, reported>>
    PROVE  Stays
  <1>1. /\ \A v \in Workers \ {w} : /\ task'[v] = task[v] /\ at'[v] = at[v]
                                    /\ buffered'[v] = buffered[v]
        /\ task'[w] = NoTask
        /\ \A t \in Tids : buffered'[w][t] = IF t = task[w] THEN buffered[w][t] + 1
                                            ELSE buffered[w][t]
    BY DEF WInv, TypeOK, Counts
  <1> SUFFICES ASSUME NEW t \in Tids PROVE Life(t)' = Life(t)
    BY DEF Stays
  <1>2. InQueue(t)' <=> InQueue(t)
    BY DEF InQueue
  <1>3. CASE task[w] = t
    <2>1. PoppedBy(t) = {w} /\ ~InQueue(t) /\ Pending(t) /\ buffered[w][t] \in {0, 1}
      BY <1>3 DEF WInv, PlaceInv, AtMost, PoppedBy
    <2>2. Over(w)
      BY DEF Over
    <2>3. PoppedBy(t)' = {} /\ IsResult(t)' /\ Pending(t)'
      <3>1. buffered'[w][t] > 0
        BY <1>1, <1>3, <2>1
      <3>2. PoppedBy(t)' = {}
        BY <1>1, <2>1 DEF PoppedBy
      <3>3. QED BY <2>1, <3>1, <3>2 DEF IsResult, Pending
    <2>4. LifeIs(t) /\ LifeIs(t)'
      BY LifeFrom, LifeThen
    <2>5. QED BY <1>2, <2>1, <2>2, <2>3, <2>4 DEF LifeIs
  <1>4. CASE task[w] # t
    <2>1. PoppedBy(t)' = PoppedBy(t)
      BY <1>1, <1>4 DEF PoppedBy
    <2>2. \A v \in PoppedBy(t) : Over(v)' <=> Over(v)
      BY <1>1, <1>4 DEF Over, PoppedBy
    <2>3. \A v \in Workers : buffered'[v][t] = buffered[v][t]
      BY <1>1, <1>4
    <2>4. IsResult(t)' <=> IsResult(t)
      BY <2>3 DEF IsResult
    <2>5. QED BY <1>2, <2>1, <2>2, <2>4, SameLife
  <1>5. QED BY <1>3, <1>4

LEMMA FlushLife ==
    ASSUME WInv, NEW w \in Workers, NEW r \in Tids, buffered[w][r] > 0,
           buffered' = [buffered EXCEPT ![w][r] = @ - 1],
           results' = [results EXCEPT ![r] = @ + 1],
           UNCHANGED <<at, tasks, task, given, reported>>
    PROVE  Stays
  <1>1. /\ \A v \in Workers \ {w} : buffered'[v] = buffered[v]
        /\ \A t \in Tids \ {r} : /\ buffered'[w][t] = buffered[w][t]
                                 /\ results'[t] = results[t]
        /\ results'[r] = results[r] + 1 /\ results[r] \in Nat
    BY DEF WInv, TypeOK, Counts
  <1> SUFFICES ASSUME NEW t \in Tids PROVE Life(t)' = Life(t)
    BY DEF Stays
  <1>2. IsResult(t)' <=> IsResult(t)
    <2>1. CASE t = r
      <3>1. results'[t] > 0
        BY <1>1, <2>1
      <3>2. QED BY <2>1, <3>1 DEF IsResult
    <2>2. CASE t # r
      <3>1. results'[t] = results[t] /\ \A v \in Workers : buffered'[v][t] = buffered[v][t]
        BY <1>1, <2>2
      <3>2. QED BY <3>1 DEF IsResult
    <2>3. QED BY <2>1, <2>2
  <1>3. /\ InQueue(t)' <=> InQueue(t)
        /\ PoppedBy(t)' = PoppedBy(t)
        /\ \A v \in PoppedBy(t) : Over(v)' <=> Over(v)
    BY DEF InQueue, PoppedBy, Over
  <1>4. QED BY <1>2, <1>3, SameLife

LEMMA DieLife ==
    ASSUME WInv, NEW w \in Workers,
           at' = [at EXCEPT ![w] = "dead"],
           buffered' = [buffered EXCEPT ![w] = Nothing],
           \/ task' = [task EXCEPT ![w] = NoTask]
           \/ task[w] = NoTask /\ UNCHANGED task,
           UNCHANGED <<tasks, results, given, reported>>
    PROVE  SomeLost
  <1>1. /\ \A v \in Workers \ {w} : /\ task'[v] = task[v] /\ at'[v] = at[v]
                                    /\ buffered'[v] = buffered[v]
        /\ task'[w] = NoTask /\ buffered'[w] = Nothing
    BY DEF WInv, TypeOK
  <1> SUFFICES ASSUME NEW t \in Tids PROVE Life(t)' = Life(t) \/ Lost(t)
    BY DEF SomeLost
  <1>2. AtMost(t) /\ t # NoTask
    BY DEF WInv, PlaceInv
  <1>3. /\ InQueue(t)' => InQueue(t)
        /\ IsResult(t)' => IsResult(t)
    BY <1>1 DEF InQueue, IsResult, Nothing
  <1>4. PoppedBy(t)' \subseteq PoppedBy(t) \ {w}
    BY <1>1, <1>2 DEF PoppedBy
  <1>5. \A v \in PoppedBy(t)' : Over(v)' <=> Over(v)
    BY <1>1, <1>4 DEF Over, PoppedBy
  <1>6. QED BY <1>2, <1>3, <1>4, <1>5, LoseLife

LEMMA WorkerLife ==
    ASSUME WInv, WInv', NEW w \in Workers, Worker(w)
    PROVE  \/ Stays \/ SomeLost
           \/ \E t \in Tids : Moves(t, "dispatched", "running")
           \/ \E t \in Tids : Moves(t, "running", "executed")
  <1> USE DEF Enter, Leave, Goes
  <1>0. UNCHANGED <<given, reported>>
    BY DEF Worker
  <1>1. ASSUME NEW a, NEW b, at[w] = a, at' = [at EXCEPT ![w] = b],
               UNCHANGED <<tasks, buffered, results, task>>,
               a \in {"executed", "pushing"} <=> b \in {"executed", "pushing"}
        PROVE  Stays
    <2>1. \A v \in Workers : Over(v)' <=> Over(v)
      BY <1>1 DEF Over, WInv, TypeOK
    <2>2. QED BY <1>0, <1>1, <2>1, QuietLife DEF PoppedBy
  <1>2. CASE InstallHandler(w) \/ Register(w) \/ StayInLoop(w)
    BY <1>1, <1>2 DEF InstallHandler, Register, StayInLoop
  <1>3. CASE PopTask(w)
    <2>1. CASE Enter(w, "read", "waiting", "popping")
      BY <1>1, <2>1
    <2>2. CASE /\ Leave(w, "read", "popping", "popped")
               /\ tasks # << >> /\ task' = [task EXCEPT ![w] = Head(tasks)]
               /\ tasks' = Tail(tasks)
               /\ UNCHANGED <<buffered, results>>
      BY <1>0, <2>2, PopLife
    <2>3. CASE /\ Leave(w, "read", "popping", "popped")
               /\ task' = [task EXCEPT ![w] = PoisonPill]
               /\ UNCHANGED <<tasks, buffered, results>>
      <3>1. /\ \A v \in Workers \ {w} : task'[v] = task[v] /\ at'[v] = at[v]
            /\ task'[w] = PoisonPill /\ task[w] = NoTask
        BY <2>3 DEF WInv, TypeOK, HandInv
      <3>2. \A t \in Tids : PoppedBy(t)' = PoppedBy(t)
        BY <3>1 DEF PoppedBy
      <3>3. \A v \in Workers : task[v] \in Tids => (Over(v)' <=> Over(v))
        BY <3>1 DEF Over
      <3>4. QED BY <1>0, <2>3, <3>2, <3>3, QuietLife
    <2>4. QED BY <1>3, <2>1, <2>2, <2>3 DEF PopTask
  <1>4. CASE MarkExecuting(w) \/ MarkReady(w)
    BY <1>1, <1>4 DEF MarkExecuting, MarkReady
  <1>5. CASE Execute(w)
    BY <1>0, <1>5, ExecuteLife
  <1>6. CASE PushResult(w)
    <2>1. CASE Enter(w, "cond", "executed", "pushing")
      BY <1>1, <2>1
    <2>2. CASE ~Enter(w, "cond", "executed", "pushing")
      BY <1>0, <1>6, <2>2, PushLife DEF PushResult
    <2>3. QED BY <2>1, <2>2
  <1>7. CASE ExitWorker(w)
    <2>1. task[w] = NoTask
      BY <1>7 DEF ExitWorker, WInv, HandInv
    <2>2. QED BY <1>0, <1>7, <2>1, DieLife DEF ExitWorker
  <1>8. CASE Flush(w)
    BY <1>0, <1>8, FlushLife DEF Flush
  <1>9. CASE KillWorker(w)
    <2>1. /\ at' = [at EXCEPT ![w] = "dead"]
          /\ buffered' = [buffered EXCEPT ![w] = Nothing]
          /\ task' = [task EXCEPT ![w] = NoTask]
          /\ UNCHANGED <<tasks, results>>
      BY <1>9 DEF KillWorker
    <2>2. QED BY <1>0, <2>1, DieLife
  <1>10. QED
    BY <1>2, <1>3, <1>4, <1>5, <1>6, <1>7, <1>8, <1>9 DEF Worker, WorkerStep

(* A result that is read is reported, a task that is assigned dispatched;  *)
(* what is left in the queues at the end is lost.                          *)
LEMMA ReportLife ==
    ASSUME WInv, PopResult
    PROVE  \E t \in Tids : Moves(t, "executed", "finished")
  <1>1. PICK r \in Tids : /\ results[r] > 0
                          /\ results' = [results EXCEPT ![r] = @ - 1]
                          /\ reported' = [reported EXCEPT ![r] = @ + 1]
    BY DEF PopResult
  <1>2. UNCHANGED <<tasks, task, at, buffered, given>>
    BY DEF PopResult, Steps
  <1>3. Pending(r) /\ ~InQueue(r) /\ PoppedBy(r) = {} /\ IsResult(r)
    BY <1>1 DEF WInv, PlaceInv, AtMost, IsResult
  <1>4. /\ r \in given' /\ reported'[r] = 1
        /\ \A u \in Tids \ {r} : results'[u] = results[u] /\ reported'[u] = reported[u]
    BY <1>1, <1>2, <1>3 DEF WInv, TypeOK, Counts, Pending
  <1>5. Life(r) = "executed" /\ Life(r)' = "finished"
    <2>1. LifeIs(r) /\ LifeIs(r)'
      BY LifeFrom, LifeThen
    <2>2. Once(r)'
      BY <1>4 DEF Once
    <2>3. QED BY <1>3, <1>4, <2>1, <2>2 DEF LifeIs
  <1>6. ASSUME NEW u \in Tids \ {r} PROVE Life(u)' = Life(u)
    <2>1. /\ InQueue(u)' <=> InQueue(u)
          /\ PoppedBy(u)' = PoppedBy(u)
          /\ \A v \in PoppedBy(u) : Over(v)' <=> Over(v)
      BY <1>2 DEF InQueue, PoppedBy, Over
    <2>2. IsResult(u)' <=> IsResult(u)
      BY <1>4, <1>2 DEF IsResult
    <2>3. QED BY <1>4, <1>2, <2>1, <2>2, SameLife
  <1>7. QED BY <1>5, <1>6 DEF Moves

LEMMA AssignLife ==
    ASSUME WInv, NEW t \in Tids, ReceiveTask(t)
    PROVE  Moves(t, "new", "dispatched")
  <1>1. /\ tasks \in Seq(Tids) /\ tasks' = Append(tasks, t)
        /\ t \notin given /\ given' = given \union {t}
        /\ UNCHANGED <<task, at, buffered, results, reported>>
    BY DEF ReceiveTask, Steps, WInv, TypeOK
  <1>2. /\ Len(tasks) + 1 \in DOMAIN tasks' /\ tasks'[Len(tasks) + 1] = t
        /\ \A i \in DOMAIN tasks : i \in DOMAIN tasks' /\ tasks'[i] = tasks[i]
        /\ \A i \in DOMAIN tasks' \ {Len(tasks) + 1} : i \in DOMAIN tasks
    BY <1>1
  <1>3. Pending(t)' /\ InQueue(t)'
    <2>1. reported[t] = 0
      BY <1>1 DEF WInv, PlaceInv, AtMost
    <2>2. QED BY <1>1, <1>2, <2>1 DEF InQueue, Pending
  <1>4. Life(t) = "new" /\ Life(t)' = "dispatched"
    <2>1. LifeIs(t) /\ LifeIs(t)'
      BY LifeFrom, LifeThen
    <2>2. QED BY <1>1, <1>3, <2>1 DEF LifeIs
  <1>5. ASSUME NEW u \in Tids \ {t} PROVE Life(u)' = Life(u)
    <2>1. InQueue(u)' <=> InQueue(u)
      BY <1>2 DEF InQueue
    <2>2. /\ IsResult(u)' <=> IsResult(u)
          /\ PoppedBy(u)' = PoppedBy(u)
          /\ \A v \in PoppedBy(u) : Over(v)' <=> Over(v)
      BY <1>1 DEF IsResult, PoppedBy, Over
    <2>3. QED BY <1>1, <2>1, <2>2, SameLife
  <1>6. QED BY <1>4, <1>5 DEF Moves

LEMMA ExitLife ==
    ASSUME WInv, Exit
    PROVE  SomeLost
  <1>1. UNCHANGED <<task, at, buffered, given, reported>> /\ tasks' = << >> /\ results' = Nothing
    BY DEF Exit
  <1> SUFFICES ASSUME NEW t \in Tids PROVE Life(t)' = Life(t) \/ Lost(t)
    BY DEF SomeLost
  <1>2. AtMost(t)
    BY DEF WInv, PlaceInv
  <1>3. ~InQueue(t)'
    <2>1. DOMAIN tasks' = {}
      BY <1>1
    <2>2. QED BY <2>1 DEF InQueue
  <1>4. /\ IsResult(t)' => IsResult(t)
        /\ PoppedBy(t)' \subseteq PoppedBy(t)
        /\ \A v \in PoppedBy(t)' : Over(v)' <=> Over(v)
    BY <1>1 DEF IsResult, PoppedBy, Over, Nothing
  <1>5. QED BY <1>1, <1>2, <1>3, <1>4, LoseLife

LEMMA StepLife ==
    ASSUME WInv, WInv', [Next]_vars
    PROVE  \/ Stays \/ SomeLost
           \/ \E t \in Tids : Moves(t, "new", "dispatched")
           \/ \E t \in Tids : Moves(t, "dispatched", "running")
           \/ \E t \in Tids : Moves(t, "running", "executed")
           \/ \E t \in Tids : Moves(t, "executed", "finished")
  <1>1. CASE Looking \/ UNCHANGED vars
    BY <1>1, QuietLife DEF Looking, vars, PoppedBy, Over
  <1>2. CASE PopResult
    BY <1>2, ReportLife
  <1>3. CASE Exit
    BY <1>3, ExitLife
  <1>7. CASE EndStopRound
    BY <1>7, QuietLife DEF EndStopRound, PoppedBy, Over
  <1>4. ASSUME NEW t \in Tids, ReceiveTask(t) PROVE Moves(t, "new", "dispatched")
    BY <1>4, AssignLife
  <1>5. ASSUME NEW w \in Workers, StopWorker(w) PROVE Stays
    <2>1. /\ UNCHANGED <<tasks, buffered, results, task, given, reported>>
          /\ \/ at' = at
             \/ at[w] = "init" /\ at' = [at EXCEPT ![w] = "dead"]
      <3>1. UNCHANGED <<tasks, buffered, results, task, given, reported>>
        BY <1>5 DEF StopWorker
      <3>2. \/ at' = at
            \/ at[w] = "init" /\ at' = [at EXCEPT ![w] = "dead"]
        BY <1>5, Zenon DEF StopWorker
      <3>3. QED BY <3>1, <3>2
    <2>2. \A v \in Workers : Over(v)' <=> Over(v)
      BY <2>1 DEF WInv, TypeOK, Over
    <2>3. QED BY <2>1, <2>2, QuietLife DEF PoppedBy
  <1>6. QED
    BY <1>1, <1>2, <1>3, <1>4, <1>5, <1>7, WorkerLife, StepCases

LEMMA LifeSteps ==
    ASSUME WInv, WInv', [Next]_vars
    PROVE  [Lifecycle!Next]_life
  <1> USE DEF Lifecycle!Next, Lifecycle!Moves, Lifecycle!Move, Lifecycle!Losses,
              Lifecycle!Forward, Lifecycle!Dispatch, life
  <1>0. \A t \in Tids : life[t] = Life(t) /\ life'[t] = Life(t)'
    OBVIOUS
  <1>1. CASE Stays \/ SomeLost
    BY <1>1 DEF Stays, SomeLost, Lost
  <1>2. ASSUME NEW t \in Tids, NEW a, NEW b, <<a, b>> \in Lifecycle!Forward,
               Moves(t, a, b)
        PROVE  Lifecycle!Next
    BY <1>2 DEF Moves
  <1>3. QED
    BY <1>1, <1>2, StepLife

(* The refinement: whatever the order in which the processes take their    *)
(* locks and whoever is killed, each step of the pool is one of the life   *)
(* of its tasks, or none.                                                  *)
THEOREM PoolImplementsLifecycle == Spec => PoolLifecycle
  <1>1. Init => Lifecycle!Init
    BY LifeFrom DEF Init, Lifecycle!Init, LifeIs
  <1>2. WInv /\ WInv' /\ [Next]_vars => [Lifecycle!Next]_life
    BY LifeSteps
  <1>3. QED
    BY <1>1, <1>2, Invariance, PTL DEF Spec, PoolLifecycle, Lifecycle!Spec, life
=============================================================================
