----------------------------- MODULE WorkerPool -----------------------------
(***************************************************************************)
(* One controller and its worker processes: the part of                    *)
(* cyclone-controller.py and worker.py that Controller takes as atomic.    *)
(* The processes share the worker state table and two multiprocessing      *)
(* queues, under the locks of Locks; a process that is killed keeps what   *)
(* it has locked.  What the master answers is a choice.                    *)
(***************************************************************************)
EXTENDS Naturals, Sequences

CONSTANTS
    Workers,
    Tids,
    Nobody,         \* the holder of a free lock
    NoTask,         \* what a worker without a task holds
    PoisonPill,     \* the pseudo task that frees a worker from pop()
    MayBeKilled,    \* a worker process may be killed (out of memory, kill -9)
    PipeSize,       \* how many items the task queue's pipe has room for
    MaxPrefetched,  \* bound of the model on the tasks in the task queue
    MaxPills        \* bound of the model on the pills in it

ASSUME NamesAssumption ==
    /\ Nobody \notin Workers
    /\ NoTask \notin Tids \union {PoisonPill} /\ PoisonPill \notin Tids
ASSUME SizeAssumption ==
    /\ MayBeKilled \in BOOLEAN /\ PipeSize \in Nat
    /\ MaxPrefetched \in Nat \ {0} /\ MaxPills \in Nat \ {0}

(***************************************************************************)
(* "table"  lock_worker_state_table                                        *)
(* "cond"   cond_result_queue                                              *)
(* "read"   the reader lock inside the task queue: get() waits with it     *)
(* "write"  the writer lock inside the result queue: of the feeder threads *)
(***************************************************************************)
Locks == {"table", "cond", "read", "write"}

VARIABLES
    main,       \* where the controller's main() is
    run,        \* RUN_CONDITION
    asked,      \* the message under way is a TASK_REQUEST
    todo,       \* workers the round of the shutdown loop has still to see
    active,     \* found_active_worker
    tasks,      \* task_queue: tids, then the pills
    pills,      \* how many of them
    results,    \* result_queue, as its reader sees it: how often t is in it
    owner,      \* owner[l]: who holds lock l
    at,         \* at[w]: where worker w is
    runFlag,    \* run_flag[w]
    state,      \* the worker state table
    task,       \* task[w]: what w has popped
    buffered,   \* buffered[w][t]: and in what w's feeder thread has to write
    given,      \* tids the master has assigned
    reported    \* reported[t]: how often the controller has reported t

mainVars   == <<main, run, asked, todo, active>>
workerVars == <<at, runFlag, state, task, buffered>>
queueVars  == <<tasks, pills, results>>
taskVars   == <<given, reported>>
vars == <<mainVars, queueVars, owner, workerVars, taskVars>>

(* How often each task is somewhere.                                       *)
Counts == [Tids -> Nat]
Nothing == [t \in Tids |-> 0]

TypeOK ==
    /\ main \in {"startup", "results", "ready", "alive", "busy", "talk",
                 "shutdown", "exit", "down"}
    /\ run \in BOOLEAN /\ asked \in BOOLEAN /\ active \in BOOLEAN
    /\ todo \subseteq Workers
    /\ tasks \in Seq(Tids) /\ pills \in 0 .. MaxPills
    /\ results \in Counts
    /\ owner \in [Locks -> Workers \union {Nobody}]
    /\ at \in [Workers -> {"init", "register", "registering", "loop", "waiting",
                           "popping", "popped", "marking", "execute", "executed",
                           "pushing", "pushed", "freeing", "dead"}]
    /\ runFlag \in [Workers -> BOOLEAN]
    /\ state \in [Workers -> {"NOT_READY", "READY", "EXECUTING"}]
    /\ task \in [Workers -> Tids \union {PoisonPill, NoTask}]
    /\ buffered \in [Workers -> Counts]
    /\ given \subseteq Tids /\ reported \in Counts

Init ==
    /\ main = "startup" /\ run = TRUE /\ asked = FALSE
    /\ todo = Workers /\ active = FALSE
    /\ tasks = << >> /\ pills = 0 /\ results = Nothing
    /\ owner = [l \in Locks |-> Nobody]
    /\ at = [w \in Workers |-> "init"]
    /\ runFlag = [w \in Workers |-> TRUE]
    /\ state = [w \in Workers |-> "NOT_READY"]
    /\ task = [w \in Workers |-> NoTask]
    /\ buffered = [w \in Workers |-> Nothing]
    /\ given = {} /\ reported = Nothing

IsAlive(w) == at[w] # "dead"
Free(lock) == owner[lock] = Nobody

(***************************************************************************)
(* A worker.  Entering and leaving a critical section are two steps, with  *)
(* the effect at the end: what is inside is seen only under the lock.      *)
(***************************************************************************)
Goes(w, from, to) == at[w] = from /\ at' = [at EXCEPT ![w] = to]

Enter(w, lock, from, to) ==
    /\ Goes(w, from, to)
    /\ Free(lock)
    /\ owner' = [owner EXCEPT ![lock] = w]
    /\ UNCHANGED <<runFlag, state, task, buffered, queueVars>>

Leave(w, lock, from, to) ==
    /\ Goes(w, from, to)
    /\ owner' = [owner EXCEPT ![lock] = Nobody]
    /\ UNCHANGED runFlag

(* Up to here SIGUSR1 has its default action: it ends the process.         *)
InstallHandler(w) ==
    /\ Goes(w, "init", "register")
    /\ UNCHANGED <<runFlag, state, task, buffered, owner, queueVars>>

Register(w) ==
    \/ Enter(w, "table", "register", "registering")
    \/ /\ Leave(w, "table", "registering", "loop")
       /\ state' = [state EXCEPT ![w] = "READY"]
       /\ UNCHANGED <<task, buffered, queueVars>>

(* The flag is looked at here only: who waits in get() goes on waiting     *)
(* when a signal has been handled.                                         *)
StayInLoop(w) ==
    /\ runFlag[w]
    /\ Goes(w, "loop", "waiting")
    /\ UNCHANGED <<runFlag, state, task, buffered, owner, queueVars>>

(* Faulty variant: a worker doesn't wait for an item.                      *)
PopTaskNoWait(w) ==
    \/ Enter(w, "read", "waiting", "popping")
    \/ /\ Leave(w, "read", "popping", "popped")
       /\ tasks = << >>
       /\ pills' = pills - 1
       /\ task' = [task EXCEPT ![w] = PoisonPill]
       /\ UNCHANGED <<state, buffered, tasks, results>>

(* get(): wait for the reader lock, then, with it, for an item.            *)
PopTask(w) ==
    \/ Enter(w, "read", "waiting", "popping")
    \/ /\ Leave(w, "read", "popping", "popped")
       /\ IF tasks # << >>
          THEN /\ task' = [task EXCEPT ![w] = Head(tasks)]
               /\ tasks' = Tail(tasks) /\ UNCHANGED pills
          ELSE /\ pills > 0 /\ pills' = pills - 1
               /\ task' = [task EXCEPT ![w] = PoisonPill] /\ UNCHANGED tasks
       /\ UNCHANGED <<state, buffered, results>>

(* Faulty variant: the state table is left as it is.                       *)
MarkNothing(w) ==
    \/ Enter(w, "table", "popped", "marking")
    \/ /\ Leave(w, "table", "marking", "execute")
       /\ UNCHANGED <<state, task, buffered, queueVars>>

MarkExecuting(w) ==
    \/ Enter(w, "table", "popped", "marking")
    \/ /\ Leave(w, "table", "marking", "execute")
       /\ state' = [state EXCEPT ![w] = "EXECUTING"]
       /\ UNCHANGED <<task, buffered, queueVars>>

(* An exception of the task is logged, and the task counts as finished.    *)
Execute(w) ==
    /\ Goes(w, "execute", "executed")
    /\ UNCHANGED <<runFlag, state, task, buffered, owner, queueVars>>

(* A pill's tid goes into the result queue as well, which nobody reads any *)
(* more: it is left out.                                                   *)
PushResult(w) ==
    \/ Enter(w, "cond", "executed", "pushing")
    \/ /\ Leave(w, "cond", "pushing", "pushed")
       /\ IF task[w] \in Tids
          THEN buffered' = [buffered EXCEPT ![w][task[w]] = @ + 1]
          ELSE UNCHANGED buffered
       /\ task' = [task EXCEPT ![w] = NoTask]
       /\ UNCHANGED <<state, queueVars>>

MarkReady(w) ==
    \/ Enter(w, "table", "pushed", "freeing")
    \/ /\ Leave(w, "table", "freeing", "loop")
       /\ state' = [state EXCEPT ![w] = "READY"]
       /\ UNCHANGED <<task, buffered, queueVars>>

(* os._exit() drops what the feeder thread has not written.                *)
ExitWorker(w) ==
    /\ ~runFlag[w]
    /\ Goes(w, "loop", "dead")
    /\ buffered' = [buffered EXCEPT ![w] = Nothing]
    /\ UNCHANGED <<runFlag, state, task, owner, queueVars>>

WorkerStep(w) ==
    \/ InstallHandler(w) \/ Register(w) \/ StayInLoop(w) \/ PopTask(w)
    \/ MarkExecuting(w) \/ Execute(w) \/ PushResult(w) \/ MarkReady(w) \/ ExitWorker(w)

(* The feeder thread of w writes a result to the pipe.                     *)
Flush(w) ==
    /\ IsAlive(w) /\ Free("write")
    /\ \E t \in Tids :
          /\ buffered[w][t] > 0
          /\ buffered' = [buffered EXCEPT ![w][t] = @ - 1]
          /\ results' = [results EXCEPT ![t] = @ + 1]
    /\ UNCHANGED <<at, runFlag, state, task, owner, tasks, pills>>

KillWorker(w) ==
    /\ MayBeKilled /\ IsAlive(w)
    /\ at' = [at EXCEPT ![w] = "dead"]
    /\ \/ UNCHANGED owner
       \/ /\ buffered[w] # Nothing /\ Free("write")
          /\ owner' = [owner EXCEPT !["write"] = w]
    /\ buffered' = [buffered EXCEPT ![w] = Nothing]
    /\ task' = [task EXCEPT ![w] = NoTask]
    /\ UNCHANGED <<runFlag, state, queueVars>>

(***************************************************************************)
(* The controller.                                                         *)
(***************************************************************************)
Steps(from, to) ==
    /\ main = from /\ main' = to
    /\ UNCHANGED <<todo, active, owner, workerVars>>

LoopTop == IF run' THEN "results" ELSE "shutdown"

AllReady == \A w \in Workers : IsAlive(w) /\ state[w] = "READY"

StartWorkers ==
    /\ AllReady
    /\ UNCHANGED <<run, asked, queueVars, taskVars>>
    /\ Steps("startup", LoopTop)

(* The last wait is not followed by a last look: the workers may be ready. *)
GiveUpStart ==
    /\ run' = FALSE
    /\ UNCHANGED <<asked, queueVars, taskVars>>
    /\ Steps("startup", LoopTop)

(* Faulty variant: the result stays in the queue.                          *)
PopResultKept ==
    /\ Free("cond")
    /\ \E t \in Tids :
          results[t] > 0 /\ reported' = [reported EXCEPT ![t] = @ + 1]
    /\ asked' = FALSE
    /\ Steps("results", "talk")
    /\ UNCHANGED <<run, queueVars, given>>

PopResult ==
    /\ Free("cond")
    /\ \E t \in Tids :
          /\ results[t] > 0
          /\ results' = [results EXCEPT ![t] = @ - 1]
          /\ reported' = [reported EXCEPT ![t] = @ + 1]
    /\ asked' = FALSE
    /\ Steps("results", "talk")
    /\ UNCHANGED <<run, tasks, pills, given>>

(* Faulty variant: the result queue is not looked at.                      *)
SkipResults ==
    /\ Steps("results", "ready")
    /\ UNCHANGED <<run, asked, queueVars, taskVars>>

SeeNoResult ==
    /\ Free("cond") /\ results = Nothing
    /\ Steps("results", "ready")
    /\ UNCHANGED <<run, asked, queueVars, taskVars>>

ReadyWorker == \E w \in Workers : IsAlive(w) /\ state[w] = "READY"

RequestTask ==
    /\ Free("table") /\ ReadyWorker
    /\ asked' = TRUE
    /\ Steps("ready", "talk")
    /\ UNCHANGED <<run, queueVars, taskVars>>

SeeNoReadyWorker ==
    /\ Free("table") /\ ~ReadyWorker
    /\ Steps("ready", "alive")
    /\ UNCHANGED <<run, asked, queueVars, taskVars>>

CheckAlive ==
    /\ UNCHANGED <<asked, queueVars, taskVars>>
    /\ IF \E w \in Workers : IsAlive(w)
       THEN Steps("alive", "busy") /\ UNCHANGED run
       ELSE run' = FALSE /\ Steps("alive", LoopTop)

(* Wait on the condition, for a second at most.                            *)
AwaitResult ==
    /\ Free("cond")
    /\ asked' = FALSE
    /\ UNCHANGED <<run, queueVars, taskVars>>
    /\ Steps("busy", IF results = Nothing THEN "talk" ELSE LoopTop)

(* The exchange with the master: a command, or no answer at all.           *)
Exchange ==
    /\ run' \in {run, FALSE}
    /\ Steps("talk", LoopTop)
    /\ UNCHANGED <<asked, queueVars, taskVars>>

ReceiveTask(t) ==
    /\ asked /\ t \notin given
    /\ Len(tasks) < MaxPrefetched
    /\ tasks' = Append(tasks, t)
    /\ given' = given \union {t}
    /\ UNCHANGED <<run, asked, pills, results, reported>>
    /\ Steps("talk", LoopTop)

Signal ==
    /\ main \notin {"shutdown", "exit", "down"} /\ run
    /\ run' = FALSE
    /\ UNCHANGED <<main, asked, todo, active, queueVars, owner, workerVars, taskVars>>

(***************************************************************************)
(* The shutdown: rounds over all workers until one has found none alive.   *)
(***************************************************************************)
PushPill == pills' = IF pills < MaxPills THEN pills + 1 ELSE pills

(* Faulty variant: workers are signalled, but get no pill.                 *)
StopWorkerWithoutPill(w) ==
    /\ main = "shutdown" /\ w \in todo
    /\ todo' = todo \ {w}
    /\ IF IsAlive(w)
       THEN /\ active' = TRUE
            /\ IF at[w] = "init"
               THEN at' = [at EXCEPT ![w] = "dead"] /\ UNCHANGED runFlag
               ELSE runFlag' = [runFlag EXCEPT ![w] = FALSE] /\ UNCHANGED at
       ELSE UNCHANGED <<active, at, runFlag>>
    /\ UNCHANGED <<main, run, asked, queueVars, owner, state, task, buffered>>
    /\ UNCHANGED taskVars

StopWorker(w) ==
    /\ main = "shutdown" /\ w \in todo
    /\ todo' = todo \ {w}
    /\ IF IsAlive(w)
       THEN /\ active' = TRUE
            /\ PushPill
            /\ IF at[w] = "init"
               THEN at' = [at EXCEPT ![w] = "dead"] /\ UNCHANGED runFlag
               ELSE runFlag' = [runFlag EXCEPT ![w] = FALSE] /\ UNCHANGED at
       ELSE UNCHANGED <<active, pills, at, runFlag>>
    /\ UNCHANGED <<main, run, asked, tasks, results, owner, state, task, buffered>>
    /\ UNCHANGED taskVars

(* Faulty variant: one round is enough.                                    *)
EndStopRoundAtOnce ==
    /\ main = "shutdown" /\ todo = {}
    /\ main' = "exit"
    /\ UNCHANGED <<todo, active, run, asked, queueVars, owner, workerVars, taskVars>>

EndStopRound ==
    /\ main = "shutdown" /\ todo = {}
    /\ IF active
       THEN todo' = Workers /\ active' = FALSE /\ UNCHANGED main
       ELSE main' = "exit" /\ UNCHANGED <<todo, active>>
    /\ UNCHANGED <<run, asked, queueVars, owner, workerVars, taskVars>>

(* The end of the process waits for the feeder thread of its task queue,   *)
(* which nobody reads any more.                                            *)
Overfull == Len(tasks) + pills > PipeSize

Exit ==
    /\ main = "exit" /\ ~Overfull
    /\ main' = "down"
    /\ tasks' = << >> /\ pills' = 0 /\ results' = Nothing
    /\ UNCHANGED <<run, asked, todo, active, owner, workerVars, taskVars>>

MainStep ==
    \/ StartWorkers \/ PopResult \/ SeeNoResult \/ RequestTask \/ SeeNoReadyWorker
    \/ CheckAlive \/ AwaitResult \/ Exchange
    \/ \E t \in Tids : ReceiveTask(t)
    \/ EndStopRound \/ Exit \/ \E w \in Workers : StopWorker(w)

Next ==
    \/ MainStep
    \/ GiveUpStart
    \/ Signal
    \/ \E w \in Workers : (WorkerStep(w) \/ Flush(w) \/ KillWorker(w))
                           /\ UNCHANGED <<mainVars, taskVars>>

Spec == Init /\ [][Next]_vars

(***************************************************************************)
(* The processes and the feeder threads keep running and tasks end; the    *)
(* start is given up when the workers don't get ready.                     *)
(***************************************************************************)
FairSpec ==
    /\ Spec
    /\ WF_vars(MainStep \/ GiveUpStart)
    /\ \A w \in Workers :
          /\ WF_vars(WorkerStep(w) /\ UNCHANGED <<mainVars, taskVars>>)
          /\ WF_vars(Flush(w) /\ UNCHANGED <<mainVars, taskVars>>)

-----------------------------------------------------------------------------
InQueue(t) == \E k \in DOMAIN tasks : tasks[k] = t
PoppedBy(t) == {w \in Workers : task[w] = t}
IsResult(t) == results[t] > 0 \/ \E w \in Workers : buffered[w][t] > 0

Life(t) ==
    IF t \notin given THEN "new"
    ELSE IF reported[t] = 1 THEN "finished"
    ELSE IF reported[t] # 0 THEN "repeated"
    ELSE IF InQueue(t) THEN "dispatched"
    ELSE IF \E w \in PoppedBy(t) : at[w] \in {"executed", "pushing"} THEN "executed"
    ELSE IF PoppedBy(t) # {} THEN "running"
    ELSE IF IsResult(t) THEN "executed"
    ELSE "lost"

Lifecycle == INSTANCE TaskLifecycle WITH life <- [t \in Tids |-> Life(t)]

(* Whatever the order in which the processes take their locks, and whoever *)
(* is killed: a task the controller was given is executed by one worker,   *)
(* once, before it is reported, and reported once ("repeated" is none of   *)
(* the states of the life cycle).                                          *)
PoolLifecycle == Lifecycle!Spec

(* A worker that the controller sees READY, under the lock of the table,   *)
(* has handed over the result of the task before: it has none in hand but  *)
(* the one it has popped since.                                            *)
ReadyHasNoResult ==
    Free("table") =>
       \A w \in Workers : state[w] = "READY" /\ IsAlive(w) =>
                             task[w] = NoTask \/ at[w] = "popped"

(* The controller doesn't leave worker processes behind.                   *)
NoOrphans == main \in {"exit", "down"} => \A w \in Workers : ~IsAlive(w)

(* A lock whose holder is dead: nobody gets it any more.                   *)
Abandoned(locks) == \E l \in locks : owner[l] # Nobody /\ ~IsAlive(owner[l])

(* As long as the controller runs, each of its tasks is reported, unless   *)
(* its worker was killed, or some worker while it held a lock.             *)
TasksReported ==
    \A t \in Tids :
       t \in given ~> (reported[t] > 0 \/ ~run \/ Life(t) = "lost" \/ Abandoned(Locks))

(* Signals and pills reach workers that wait, work or start: the shutdown  *)
(* loop ends, whoever was killed, unless it was while he held a lock.      *)
(* Then the process ends, unless more is left in the task queue than its   *)
(* pipe has room for: each round pushes a pill for every worker alive, and *)
(* one that works goes to its end without taking any.                      *)
ShutsDownUnlessAbandoned ==
    ~run ~> (main = "down" \/ (main = "exit" /\ Overfull)
                           \/ Abandoned({"table", "cond", "read"}))
=============================================================================
