# Cyclone: TLA+ models, checks and proofs

This directory holds TLA+ models of the Cyclone framework for distributed,
task-driven execution (`src/`), the TLC configurations that check them on small
instances, and proofs, checked by TLAPS, that hold for instances of any size.

## 1. The system

| Component | Source | State it keeps | Operations |
|---|---|---|---|
| Master | `cyclone-master.py` | `task_status_dict`, `controller_heartbeat_dict`, `TASK_DISTRIBUTION`, `run_flag`, `error_count`, the REP socket | one loop iteration per message or poll timeout; signals; end of the `with` block, stop of the generator |
| Controller | `cyclone-controller.py` | `RUN_CONDITION`, `request_retry_count`, task queue, result queue, worker state table, worker processes | start of the workers, report, request or heartbeat, retries and reconnect, shutdown loop |
| Worker | `worker.py` | run flag, popped task | register, pop, mark, execute, push the result, mark |
| Connection | `comm/` over ZeroMQ | one REQ socket per controller, one REP socket | send, poll, reconnect, disconnect, all with `LINGER 0` |
| Messages | `msg/` | none | the text form of a message and its parser |
| Shared queues, condition, critical section | `ctrl/shared_queue.py`, `ctrl/critical_section.py` | multiprocessing queues with their own locks and feeder threads | push, pop, fill, clear, is_empty |
| PID file | `ctrl/pid_control.py` | the file | lock, unlock |
| Task generators | `task/generator/` | benchmark: a count; monitoring: an index set and an interval; migration: OST caches, states, fill levels, timers, round-robin indexes | fill or push tasks, pop results, interruptable sleep |
| Database proxy, Pushgateway client | `cyclone-database-proxy.py`, `cyclone-pushgateway-client.py`, `db/` | buffered results, intervals | receive, store or push by count and by time |
| Tasks, factory, XML | `task/` | none | parse, create, execute |
| Configuration, logging, versions | `conf/`, `util/`, `version/` | none | read once at the start |

How they interact. A generator fills the *task queue* and reads the *result
queue*; both are shared with the master, which is its parent process. A
controller sends the master one message at a time and waits for the one answer:
`TASK_REQUEST` is answered by `TASK_ASSIGN` or `WAIT_COMMAND`, `TASK_FINISHED`
and `HEARTBEAT` by `ACKNOWLEDGE`; once distribution is off, everything is
answered by `EXIT_COMMAND`. The controller hands tasks to its workers through a
queue of its own, and gets tids back through another. Tasks may send what they
measure to the database proxy or the Pushgateway client (a PULL socket).

What is hard, and where it is modelled:

* **Lost answers and late requests.** No answer in two polls: the controller
  closes its socket and opens another. The answer, perhaps a `TASK_ASSIGN` the
  master has recorded, is gone; the request may still be handled later.
  (`Wire`, `Controller`)
* **Redispatch.** A task assigned for longer than `task_resend_timeout` goes to
  a second controller, and both report it. It takes a generator that publishes a
  task again, so the benchmark never meets it. (`Master`, `Dispatch`)
* **Restart of a master** among controllers that still work for its predecessor;
  the exception that leaves the REP socket without an answer. (`Master`)
* **Shutdown, on all three levels**: distribution goes off by a signal, by an
  exception or by the generator's end; the master leaves its loop when every
  controller it knows was dismissed or timed out; a controller stops workers
  that start, wait in a queue or work. (`Dispatch`, `WorkerPool`)
* **Locks and processes that are killed.** (`WorkerPool`)
* **Results in any order, between timers that change the state of what they
  are about.** (`OstMigration`)
* **Starts and ends that overlap, crashes, PID reuse.** (`PidControl`)
* **A queue refilled item by item** while its feeder thread is late, its pipe
  full, or its reader dead; a generator that is told to end while it sleeps, is
  about to, or will never hear of it. (`MonitoringGenerator`)
* **Executions that share a file, are killed, or hang**, and results that are
  kept, stored or pushed by count and by time, by programs whose database or
  Pushgateway fails. (`LustreTasks`, `DatabaseProxy`, `PushgatewayClient`)
* **Texts that contain the separator** of the fields of a message.
  (`TaskMessages`)

`PROJECT.json` lists these hazards one by one, each at its line, with the
properties that cover it.

What makes each component correct:

* master and controllers: a task is with one worker at a time (no redispatch);
  the master knows every task that is under way; nobody who works is left
  behind undismissed; master and controllers end once they are to end;
* workers: executed once and before it is reported, every task of a running
  controller is reported, the shutdown ends and leaves no process behind;
* benchmark generator: the count is exact, and it ends by itself, with the
  whole system;
* migration generator: one task per source and per target, thresholds are
  respected, no file or OST is forgotten, it never trips over its own state;
* monitoring generator: a refilled queue has every OST once, refilling never
  blocks, the generator's end is noticed and ends the system;
* monitoring tasks: they measure the OST they are about, every execution sends
  its results, a write or read that hangs is reported;
* database proxy and Pushgateway client: no result is forgotten, kept too long
  or stored twice, a failed check gets to the Pushgateway, both programs end;
* messages, factory, XML: a controller makes the task of a message that was
  sent, or none;
* PID file: at most one process runs, and the file names it.

## 2. The modules

| Module | Models |
|---|---|
| `Wire` | the connection and the messages (type and tid) |
| `TaskGenerator` | the two queues and the most general generator |
| `Master` | the master's loop, EXTENDS `TaskGenerator` |
| `Controller` | request loop, queues and workers of every controller, each queue access atomic |
| `Dispatch` | `Master` and `Controller` composed; fairness; properties |
| `TaskLifecycle` | abstract specification of one dispatch of a task; implemented by `Dispatch` and, for one controller, by `WorkerPool` |
| `Benchmark` | `Dispatch` with the benchmark generator for the general one |
| `WorkerPool` | one controller and its workers with every lock and feeder thread |
| `OstMigration` | the migration generator with the rest of the system as its environment |
| `PidControl` | the PID file, one file system access a step |
| `MonitoringGenerator` | the monitoring generator, the queue it refills, and the end of the master |
| `ResultSink` | what the database proxy and the Pushgateway client share: sockets, poll, clock, signals |
| `DatabaseProxy` | buffering and storing, EXTENDS `ResultSink` |
| `LustreTasks` | executions of the three Lustre monitoring tasks, EXTENDS `ResultSink` |
| `PushgatewayClient` | metrics and pushing, EXTENDS `LustreTasks` |
| `Monitoring` | `LustreTasks` with the program that receives what they send; fairness; properties |
| `TaskMessages` | text form of messages, task factory and XML reader, as operators |
| `DispatchProofs`, `BenchmarkProofs`, `WorkerPoolProofs`, `OstMigrationProofs`, `OstKeyListProofs`, `PidControlProofs`, `MonitoringGeneratorProofs`, `MonitoringProofs` | theorems and proofs about the module they are named after (`OstKeyListProofs`: about `OstMigration`) |
| `MCDispatch`, `MCBenchmark`, `MCOstMigration`, `MCWorkerPool`, `MCPidControl`, `MCMonitoringGenerator`, `MCMonitoring` | instances for TLC |

### Master, Controller, Wire, TaskGenerator, Dispatch

One action of `Master` is one iteration of the loop at
`cyclone-master.py:182`: it takes a message, updates `known` (the keys of
`controller_heartbeat_dict`) and `status` (`task_status_dict`), pops from or
pushes to the generator's queues, and sends the answer. `replying` is the REP
socket's own state: after the exception of `cyclone-master.py:287` no answer is
sent, and a REP socket that owes one receives nothing. `phase` is the loop:
`"run"`, `"closing"` (`run_flag` is False), `"closed"` (the socket is gone).

Clocks are not modelled, their comparisons are: whether `task_resend_timeout`
or `controller_timeout` has passed is a choice. `Faults` says which choices an
instance allows, so that a run shows what it takes to reach a state:
`"timeout"` (a peer is slower than the other's timeout), `"stop"`, `"start"`
(operators stop and start controllers), `"worker"` (a worker process dies),
`"crash"` (a controller is killed or crashes), `"resend"`, `"signal"` (to the
master), `"restart"` (of the master). Without `"timeout"` a timeout passes only
when no answer can come any more (`AnswerOverdue`, `HeartbeatOverdue`).

In `Controller`, `pc` is `"loop"` at the top of the main loop, `"first"` and
`"second"` in the two polls for an answer, `"stopping"` in the shutdown loop,
`"down"` after the end. The retry counter is compared before it is counted and
for equality, as in `cyclone-controller.py:360`. A controller that runs out of
attempts closes its socket and still goes through the second poll, in which no
answer can come any more (`CloseConnection` drops it); it reconnects and counts
once more before it ends. A controller that crashes (`CrashController`) shuts
nothing down: its workers go on with the tasks in its queue, and nobody gets their
results. When it is started again it has new queues and workers, and the old
ones are out of sight.

`Wire` keeps for each controller the request on its open connection and the
answer under way, and in `stale` the requests of connections that are closed,
which the master may handle all the same.

The queue predicates `is_empty()` of multiprocessing are unreliable while a
feeder thread is late: the master may see an empty task queue that is not
(`TaskRequestNoTask`), and a controller may miss a result (it may request
another task although `results` is not empty).

### WorkerPool

The same controller, seen from inside. Entering and leaving each critical
section are separate steps (`Enter`, `Leave`) on the four locks `Locks`. A worker
looks at its run flag only at the top of its loop (`StayInLoop` or `ExitWorker`);
then it is `"waiting"` in `get()` for the reader lock of the task queue and
`"popping"` with it, until it has an item, whatever signals come: Python takes up
the waiting again after a signal handler that raises nothing. Results go through
the buffer of the worker's feeder thread (`Flush`). `buffered`, `results` and
`reported` count how often a tid is there, so a result that stayed in a queue, or
was reported twice, would be seen. `KillWorker` ends a worker anywhere and leaves
its locks taken; a feeder thread may be killed with the queue's write lock. The
critical sections of the main loop contain no other blocking call, so each is one
step, enabled when the lock is free. The shutdown loop goes round over the workers, signals
each one alive and pushes a poison pill for it; a worker that has not installed
its handler dies of the signal. What the master answers is a choice in
`Exchange` and `ReceiveTask`. After the shutdown loop `main` is `"exit"`: the
process is gone (`"down"`) when the feeder thread of the task queue could write
what is left, tasks and pills that no worker took, to the pipe (`Overfull`,
`Exit`).

### OstMigration

`pc` walks through `run()`: scheduling (`BeginRound`, `SkipSource`,
`NoTargetReady`, `PushTask`, `EndRound`), the results (`PopResult`), and the
three timers, each due or not (`UpdateFillLevels`, `ProcessInputFiles`,
`DeallocateEmptyCaches`, `NotDue`). The state machine of one OST
(`_update_ost_state_dict`) is `Opened`, `Closed` and `Released`; the state
`"absent"` is a missing key. The two indexes and the counter of checked targets
are kept exactly. Exceptions are states: `"missing"` (an OST the file system
does not list), `"inconsistent"` (the OST state dictionaries contradict a
result, or a key is missing). The environment returns each task's tid in any
order, or loses it (`TasksMayBeLost`).

### PidControl

Each of the calls in `lock()` and `unlock()` that touches the file system or
the process table is a step. The path names an inode or nothing, and an open
file lives on when its name is removed. `read_pid_from_file()` is three steps, in
`lock()` and in `unlock()`: it looks whether the file is there (`FindFile`), opens
it (`OpenFile`, an exception if it is gone by then), and reads it (`ReadPid`,
`Unlock`). A PID is free, used by another
program, or used by a process of ours (`at`), and is reused.

### MonitoringGenerator

`at` walks through `run()`: the index set and the task list (`CreateTasks`,
which fails when the file system lists no OST, or not all that are selected),
the critical section with `clear()` (`ClearMore`, `ClearGet`) and `fill()`
(`FillBegins` or `FillFails`, then one `Put` per task), and the sleep, second by
second (or, for an interval of a second or less, in one `time.sleep()` that no
interrupt ends). The queue of multiprocessing is what it is: `buffer` holds what was put
and the feeder thread has not yet written, `pipe` what it has; `empty()` looks
at the pipe only, `get()` waits for it. The pipe is bounded.

`main` is the part of the master that meets it: the lock, a pop, an empty queue
and a generator that may be dead, and the end: SIGUSR1, so many seconds of
waiting, `terminate()` (without effect: the generator has inherited the
master's handler of SIGTERM and has no flag of the master's to look at), `join()`
and the exit of the interpreter, which waits for the feeder thread of the
result queue. That queue is `unread`: nothing but a number of tids.

The history variables say when the signal came (`signalled`) and how long the
generator slept after it, and whether the last refill found the feeder thread
late (`late`).

### ResultSink, DatabaseProxy, LustreTasks, PushgatewayClient, Monitoring

One step of a program that receives is one iteration of its loop: a result or a
poll timeout, then a store or a push if it is time to, then round again or out.
Time passes in the poll only (`Tick`); `since` counts it from the last store (or
from the time a push counts from), and `due` is the comparison with the clock
as it was when the iteration began, as in the code, where `last_exec_timestamp`
is taken before the poll. A store may raise with any number of its rows
inserted; a push may raise; the programs treat that differently (the proxy
leaves its loop and stores once more, the client goes on).

`definition` is the task definition that all tasks of an instance are made
from, hence what the executions are, and which of the two programs they send
to. `at[e]` walks through `execute()`; a file is its OST and whether all of it is
written. `setstripe` fails on a file that exists; an `open()` for writing
creates a missing file on any OST. What hangs stays where it is; what is killed
leaves its file. `shared` and `trouble` are the executions that met another one
on their file, or that something has happened to: properties about the others
name them. A check whose `mdt_index_rangeset` is empty has nothing to iterate
over and is done at once (`CheckNothing`).

### TaskMessages

A text is the sequence of its pieces between separators, so `split()` is the
identity and joining with the separator is concatenation: exactly the cases
that matter, an empty text and a text with a separator in it, are kept apart.
`AssignTask`, `AssignText` and `PlainMessage` are the constructors of the
messages, `Create` the message factory, `FromMessage` and `FromXmlInfo` the task
factory, `ReadTaskDefinition` the XML reader. An exception is `Raised`.

## 3. The runs

| Run | Instance | Shows |
|---|---|---|
| `stop` | 2 controllers, 1 task; the task is sent again; operators stop and start controllers and signal the master | `TypeOK`, `NeverInconsistent`, `WorkingControllersDismissed` |
| `restart` | 1 controller, 1 task; signals, timeouts, a crash of the controller, restarts of the master | liveness: `MasterStops`, `ControllersStop`, `StuckMasterStops` |
| `graceful` | 2 controllers | **violated**: `GracefulShutdown` (finding 1) |
| `clean` | benchmark of 3 tasks, 2 controllers, nothing goes wrong | `BenchmarkTerminates`, and without an error (`GracefulShutdown`) |
| `faults` | benchmark of 2 tasks, 2 controllers, timeouts on both sides, dying workers, crashing controllers | `ExclusiveAssignment`, `CountIsExact`, `EndsWhenAllDone`; every step is one of `TaskLifecycle` (`LifecycleImplemented`) |
| `pool` | 2 workers, 2 tasks, workers killed anywhere | `TypeOK`, `ReadyHasNoResult`, `NoOrphans`; every step is one of `TaskLifecycle` (`PoolLifecycle`); under fairness `TasksReported`, `ShutsDownUnlessAbandoned` |
| `migration` | 3 OSTs, 2 of them targets, fill levels that change at every update | `TypeOK`, `OneToOne`, `BlockedOnlyByTasks`, `EveryFileScheduled`, `RespectsThresholds` |
| `drain` | 2 OSTs, both targets; lost tasks; OSTs that vanish; 2 files each | `NeverInconsistent`, and `CachesDrained` under fairness |
| `serial` | 3 PIDs, starts that do not overlap | `OnlyOne`, `FileNamesRunner` |
| `refill` | 2 OSTs, all or one of them selected; a feeder thread that may be late; a generator killed anywhere | `ClearNeverBlocks`, `CleanRefill`, `SleepsNoLonger`, `EndNoticed`, `MasterEndsUnlessUnread` |
| `unread` | as `refill` | **violated**: `MasterEnds` (finding 2) |
| `sinks` | the three monitoring tasks, two executions on one OST, a check of two MDTs; killed and hanging executions; a database and a Pushgateway that fail | `MeasuresItsOst`, `EveryExecutionReports`, `AlertWhileHanging`, `StoredOnce`, `NothingForgotten`, `NotKeptTooLong`, `FailuresReported`, `SinkEnds` |

`TaskMessages` has no state. Its three statements `ReadAsWritten`,
`MessageAsWritten` and `PropertiesAreArguments` are evaluated as the assumptions
`TasksGetAcross`, `MessagesGetAcross` and `DefinitionsGetAcross` of
`MCMonitoring`, so `sinks` fails if one of them is false. The inputs are all
tasks of classes with no, one, two, 15 (as many as `_create_task` spells out)
and 16 arguments, with texts of one and two pieces, each empty or not; all
messages with such fields; and all definitions of one and two tasks with up to
two properties. What they show: a controller makes the task that was sent or
raises an exception, never another task. It raises one if an argument has a
separator in it, or if the only argument is empty: the text then ends in the
header, and the body is lost.

What some of these properties leave out is what the code does not give:

* `CleanRefill` is about a feeder thread that was not late. `clear()` looks at
  the pipe only; what the feeder thread writes after that makes `fill()` raise
  and ends the generator (and with it, by `EndNoticed`, the system), or is in
  the queue twice. The lock doesn't help, as the comment in `shared_queue.py`
  says of the whole class.
* `SleepsNoLonger` allows one whole interval after SIGUSR1: if the signal comes
  before `sleep()` sets its flag, the interrupt is lost.
* `MeasuresItsOst` and `EveryExecutionReports` except executions that met
  another one on their file, that were killed, or whose commands failed. A task
  about an OST that is not active is one of these: a check of it is ignored, and
  the I/O tasks mean to send a result of zeros, but name the OST by a variable
  that only the other branch sets (`lustre_io_task.py:124`): an exception, and
  no result.
* `StoredOnce` counts failed stores: the table is not transactional, and rows
  inserted by a statement that raised are inserted again at the end.
* `NothingForgotten` ends with the program: a final store that fails loses what
  it has.
* `FailuresReported`: a FAILED that is followed by an OK before the push is not
  seen by anybody.

Bounds, and why they are enough:

* `Controllers`, `Workers`, `Tids`: two controllers are what it takes for a
  task to go to somebody else, for one to be dismissed while another works, and
  for a dictionary to be changed while a loop over it goes on; two tasks to be
  confused with each other; two workers to steal each other's pill or lock. A
  run has two of the kind its question is about and one of the others. What is
  no liveness property is proved for any number (section 5).
* `MaxReported` = 1: copies of a tid in the result queue. The master's
  `PushResult` waits for room; a second report of a tid waits until the
  generator has collected the first.
* `MaxQueued` = 2: copies of a tid in a controller's queues before it asks for
  another task. They are two only with `"resend"`.
* `MaxErrors`: the master's `max_error_count` is 100, and takes that many
  controllers to reach. With 2 (`restart`) a stuck master reaches it and a
  signalled one does not; with 3 (the other runs) no master does.
* `MaxRetries` = 1 passes through all branches of the retry loop: the last
  attempt and one before it.
* `MaxPrefetched` = 1 (`pool`): tasks in the queue that no worker has popped.
  With the two that the workers hold, none is left out with two tasks.
* `MaxPills` = 2 (`pool`): pills in the task queue; a push beyond that is not
  counted. It is no less than the number of workers, so it leaves a pill for
  every one that waits, and more than `PipeSize` = 1, so that the queue can be
  overfull at the end. `PipeSize` stands for the 64 KB of a pipe, some 840 pills.
* `MaxFiles` (1 or 2): files in one OST's cache. Two are needed for an OST that
  goes back into the schedule; `migration` reloads a cache once it is empty.
* `Levels`: one level on either side of the thresholds, in `drain` also an OST
  that is not listed. In `drain` the thresholds overlap, so that a level is good
  for a source and for a target at once.
* `PipeSize` = 1 and `ResultPipeSize` = 1 (`refill`, `unread`): with two OSTs the
  feeder thread waits for room with one item in hand, and a second finished task
  is one too many. `MaxLate` = 2: a late feeder thread holds as much as one
  refill puts. `MeasureInterval` = 3 and `Waits` = 2: the master's patience ends
  in the sleep, before it or after it, as the signal comes late or early.
* `PollTimeout` = 1, `Interval` = 2 (`sinks`): a poll ends before, at and after
  the interval's end. `KeepTime`, the bound that `NotKeptTooLong` states, is
  tight: the property fails with one unit less.
* `StoreMaxCount` = 2: with two results a store is caused by the count, by the
  time, or by the end.
* `Definitions` (`sinks`) says how many executions there are of each task: two
  of the I/O task and of a check of one MDT, one of the alerting I/O task (which
  has twice the steps) and of a check of two MDTs.
* Inodes in `PidControl`: one more than can be open at a time, so a new file
  always finds a free one; this loses nothing.

Deadlock is not checked where the system really stops: all processes have
ended, wait for a lock that is never released or a pipe that nobody reads (`pool`), or an exception has
ended the migration generator (`drain`, where an OST may vanish), and in
`refill`, `unread` and `sinks`, where all processes come to their end. It is
checked in `migration` and `serial`.

## 4. Fairness

* **Processes keep running** (weak fairness of the master's loop, of each
  controller's, of each worker). A timeout that can only pass is one of these
  steps. Nothing is assumed of operators, of failures or of the generator
  (`FairSpec` of `Dispatch`), and nothing of the order in which the master
  serves controllers.
* `Benchmark` adds what a finite benchmark needs to end: the ZeroMQ socket
  queues fairly, so a request is served at last; the task queue's lock is not
  always held, nor its feeder thread always late, when a request comes (strong
  fairness of an assignment); a controller, which looks at its result queue
  first in every iteration, does not for ever miss the same result (strong
  fairness of a report).
* `WorkerPool`: the processes and feeder threads keep running, tasks end, and
  a start that does not come to its end is given up, as it is after a fixed
  number of attempts. Locks are taken under weak fairness: what
  `TasksReported` and `ShutsDownUnlessAbandoned` need does not depend on who of
  two waiting processes gets a lock.
* `OstMigration`: the loop keeps going round; the fill level timer, which is
  due again and again, is acted on again and again (strong fairness); a result
  that is in the queue is seen at last, though any single look may find the
  queue empty (strong fairness); a task that is not lost comes back.

* `MonitoringGenerator`: generator, feeder thread and master keep running; as
  long as tasks are distributed, controllers ask for one. The lock is free again
  and again, and whoever tries gets it at last (strong fairness of both sides:
  the master gives up after a second, and tries again with the next request).
  Nothing is assumed of the feeder thread's speed, of kills, or of tasks that
  finish.
* `Monitoring`: the program that receives keeps running, and time passes (weak
  fairness of both together: an iteration is possible whenever time is not); the
  mail timer goes off if it is not cancelled, and its mail is delivered; a Pushgateway that is asked again
  and again answers at last (strong fairness of pushes that succeed). Nothing is
  assumed of the tasks.

## 5. The theorems

Every invariant, every action property and every refinement that a passing run
checks is the statement of a theorem, for all values of the constants.

### Dispatch

| Theorem | States | Provided that |
|---|---|---|
| `TypeCorrect` | `TypeOK` | |
| `Consistent` | `NeverInconsistent` | no restart of the master |
| `Exclusive` | `ExclusiveAssignment` | no restart, no redispatch |
| `DispatchImplementsLifecycle` | `LifecycleImplemented` | no restart, no redispatch |
| `EndsGracefully` | `GracefulShutdown` | `Peaceful`: no timeouts, no stopped or crashed controllers, no dying workers, no restart; a controller has workers |
| `NobodyLeftBehind` | `WorkingControllersDismissed` | no restart, no timeouts, no crashed controllers, no more controllers than `MaxErrors` |

What a theorem excludes is excluded because the code does not give the property
with it: a restarted master knows no task; redispatch gives a task to two
controllers; `EndsGracefully` without `Peaceful` is finding 1; a controller that
times out is removed although it may work; one that crashed and is started again
is removed when the request it left is answered by `EXIT_COMMAND`. The bound by `MaxErrors` (100 in the
code) is needed for `NobodyLeftBehind`: the exception of finding 1 is counted
once for every controller that is removed, and a hundred of them would end the
loop while others still work. The runs have fewer controllers than `MaxErrors`;
it took the proof to notice.

How they are proved:

* `TypeInv` adds to `TypeOK` the part `RetryInv` about the retry counter: a
  loop that goes on has not passed `max_num_request_retries`. Without it the
  counter's bound does not survive `SecondTimeout`.
* `StepEffect` is one lemma about all steps: a step leaves the copies of every
  task as they are, or moves one copy from one place to the next, or drops
  copies, or hands out one new copy together with a new entry of `status`. The
  places a copy can be in are `Places`; `Copies` counts them. The lemmas
  `AnswerHands`, `ReportEffect`, `ReceiveEffect`, `TakeEffect`, `FinishEffect`
  and `CloseEffect` establish it action by action. `Consistent`, `Exclusive` and
  `NobodyLeftBehind` rest on it.
* `NoRedispatch` (no task offered is due to be sent again) is what `Exclusive`
  and the refinement need of a step. It holds when `"resend"` is excluded, and
  for the benchmark without that.
* `LockStep`: a controller has a request or an answer on its open connection,
  never both, and neither while it does not wait. The refinement needs it so
  that an answer is not written over another one, which would lose a task by a
  step that `TaskLifecycle` calls something else.
* `Attended`, for `EndsGracefully`: as long as the master is in its loop, every
  controller that waits has its request or its answer under way, and those the
  master knows go on. So no timeout of theirs can pass.
* `WorkKnown`, for `NobodyLeftBehind`: a controller that holds a task is in
  `controller_heartbeat_dict`, or dismissed. `ErrorBudget`: the exceptions
  counted and the controllers still known are together no more than there are
  controllers.

### Benchmark

`BenchmarkIsDispatch` (`BenchmarkSpec => Spec`) makes every theorem above one
about the benchmark. The benchmark gives more: it publishes a task once, so
`BenchmarkExclusive` and `BenchmarkImplementsLifecycle` hold whatever
`task_resend_timeout` is. `CountsEachOnce` and `GeneratorEndsLast` state
`CountIsExact` and `EndsWhenAllDone` for any finite set of tasks. `BInv` is
inductive without a restart; its part `Counted` is `CountIsExact` also after the
generator's end, and says that while the master is there the generator ends only
when it has counted all. The cardinalities are taken through one new pair in
`InQueue`, or one less, per step.

### WorkerPool

`TypesHold` (`TypeOK`), `ReadyWorkersAreDone` (`ReadyHasNoResult`),
`LeavesNoOrphans` (`NoOrphans`) and `PoolImplementsLifecycle` (`PoolLifecycle`)
need no hypothesis: workers may be killed anywhere. `WInv` says who is inside a
critical section holds its lock (`LockInv`), where a worker with a task can be
(`HandInv`), that a round of the shutdown loop has noted who is alive
(`RoundInv`), and that a task is at one place at most and is there once
(`PlaceInv`).

### OstMigration

For any finite set of OSTs, list of targets, fill levels, thresholds, input, lost
tasks and orders of results. In `OstMigrationProofs`:

* `MigratesOneToOne`: `OneToOne`. It is not inductive: it needs that an OST in a
  task is BLOCKED or PENDING_LOCK on its side (`TasksBlock`), so that the
  scheduler, which takes READY ones only, does not take it again.
* `PushesWithinThresholds`: `RespectsThresholds`. READY and BLOCKED imply a level
  on the right side (`LevelsKnown`), also while a task is under way.

In `OstKeyListProofs`: `TypesHold` (`TypeOK`), `NeverDiesOfItsState`
(`NeverInconsistent`), `SchedulesEveryFile` (`EveryFileScheduled`) and
`OnlyTasksBlock` (`BlockedOnlyByTasks`). Of the two indexes, `TypeOK` bounds the
target index, which is reset only when it equals the length of its list; the
source index may be past the end of its list after a deallocation, as in the
code. All need `KeysMatch`: the key list, the
caches and the OSTs with a source state are the same, and no key is in the list
twice. Allocation writes the list as an order of the sources, deallocation as
what `Remaining` keeps of it. `Remaining` is a recursive function, and what it
keeps is proved by induction in the form the provers can use: a set of natural
numbers that has 0 and every successor is all of them (`Induction`, from
`LeastNumber`).

### PidControl

`OnlyOneRuns` (`OnlyOne`) and `RunnerKeepsItsFile` (`FileNamesRunner`), for any
PIDs, when starts do not overlap (section 6 says why that is needed). `PInv`
follows the one start there is, step by step: which inode it has open, what it
has read, and that the process it saw is gone when it is about to remove the
file.

### MonitoringGenerator

`ClearingNeverBlocks` (`ClearNeverBlocks`), `RefillsCleanly` (`CleanRefill`) and
`SleepIsInterrupted` (`SleepsNoLonger`), for any OSTs, pipes and intervals, and a
generator killed anywhere. In `GInv`, who is in the critical section holds the
lock (`LockInv`); what `fill()` has still to put is not in the queue
(`RefillInv`); time slept and time left are one interval at most, and once the
flag is down it is not raised again after a signal in the sleep (`SleepInv`).

### Monitoring

`MeasuresOnlyItsOst` (`MeasuresItsOst`), `ReportsAll` (`EveryExecutionReports`),
`NoResultTwice` (`StoredOnce`), `KeptInBounds` (`NotKeptTooLong`),
`BufferNotForgotten` (`NothingForgotten`) and `MonitoringTypes` (its `TypeOK`), for
any executions, definitions, counts and intervals. `TaskInv` is about the
executions: who met nobody on his file owns it (`OwnFile`), and has sent what the
MDTs before the current one ask for (`SentInOrder`). `SinkInv` is about the
program that receives: a result is in one of `onway`, `inbox`, buffer and table
(`OnePlace`, `TableInv`), and a result's age is bounded by the time since the last
store and the time in this poll (`AgeInv`).

### Assumptions

Those named in the modules, which TLC evaluates on every run. Names that stand
for "nothing" differ from the real ones; bounds, levels and times are natural
numbers; `ost_target_list` names no OST twice; OSTs, PIDs and the tasks of the
benchmark are finitely many; `store_max_count`, the poll timeout, and what a
pipe has room for, are not 0.

### What the proofs changed in the models

* A check task with an empty index range ends without an iteration:
  `CheckNothing`. The proof of `ReportsAll` met a state in which such a task had
  an MDT.
* The refinement mappings of `Dispatch` and `WorkerPool` say where a task is by
  the first place it is found at (`IF` ... `ELSE IF`), not by a `CASE` with guards
  that may hold together.
* `MonitoringGenerator` assumed an interval of more than a second, `ResultSink` one
  that is not 0. Both now follow the code: the other branch of `sleep()`, and a
  store that is due from the start.

### Model-checked only

* Liveness: `MasterStops`, `ControllersStop`, `StuckMasterStops`,
  `BenchmarkTerminates`, `TasksReported`, `ShutsDownUnlessAbandoned`,
  `CachesDrained`, `EndNoticed`, `MasterEndsUnlessUnread`, `AlertWhileHanging`,
  `FailuresReported`, `SinkEnds`. It needs ENABLED, which is out of the prover's
  reach.
* The two properties that are violated: `GracefulShutdown` with timeouts, and
  `MasterEnds`.
* The statements about `TaskMessages`: they are about texts of any length, split
  and joined by folds over sequences. What a fold computes for every sequence
  takes an induction over data, which is out of the prover's reach.

## 6. Findings

1. `cyclone-master.py:335` removes a key from the dictionary the loop at line
   329 runs over. The shutdown that the comments call graceful raises
   `RuntimeError` when a controller times out: an error is counted, and the
   master exits with 1. The loop still ends (`MasterStops`): each poll removes
   one controller.
2. The master pushes every finished tid to `result_queue`
   (`cyclone-master.py:281`), which the monitoring generator never reads. When
   the pipe inside the queue is full, the queue's feeder thread waits for ever,
   and so does the interpreter's exit, which waits for the feeder thread. The
   documentation says that a signal stops the master (`README.md:163`): it leaves
   its loop, its generator ends, and the process stays. `MasterEndsUnlessUnread`
   shows that this is the only reason. (With a Python whose `Queue.close()`
   closes the reading end at once, the feeder thread ends with an error.)
Three more observations are no findings with a run of their own, and the models
still contain them:

* A worker that is killed while it holds a lock leaves it locked, and the one
  lock a worker holds most of its time is the reader lock inside the task queue.
  Then no other worker gets a task or a poison pill. Those that wait for the lock
  go on waiting after SIGUSR1, since they look at their run flag only at the top
  of their loop, and the shutdown loop of the controller does not end.
  `ShutsDownUnlessAbandoned` (`pool`) has to except `"read"` for that: without
  it TLC finds this behaviour, and with it no other.
* Each round of a controller's shutdown loop pushes a pill for every worker that
  is alive (`cyclone-controller.py:435`), one round a second. A worker that works
  takes none: after its task it finds its run flag down and ends. The pills stay
  in the task queue, and once they fill its pipe (64 KB, about 840 pills: five
  minutes of a shutdown with three workers in long tasks), the controller leaves
  its shutdown loop but its process does not end, for the same reason as the
  master's in finding 2. `ShutsDownUnlessAbandoned` excepts it (`Overfull`).
* `PIDControl.lock()` gives the `fcntl` lock back before it returns, and looks
  for the file before it opens it: two processes started at the same time can
  both get the PID file (`PidControl` with `Overlapping = TRUE`). The run
  `serial` has FALSE: starts don't overlap each other, while ends and crashes do
  overlap a start. Then it works as documented, also when PIDs are reused.

## 7. What is not modelled

* Text forms other than those of messages and task definitions: PID files that
  contain something other than a PID, input files of the migration, the text of
  results, metrics and mails. A tid with a separator in it is assumed not to
  occur (tids are OST indexes or numbers).
* The migrate task (it calls an external program and keeps nothing), the tasks
  that do nothing or sleep; configuration and versions, which are read once at
  the start; logging; the wait durations the master sends; creating the
  database table.
* Throughputs and durations: a result is who measured what on which OST.
* In `DatabaseProxy` and `PushgatewayClient`, a store and a push take no time,
  and a clock truncated to seconds adds none: `NotKeptTooLong` is about time
  spent in polls. A `send_string` of a task that fails is an execution that had
  trouble.
* In `LustreTasks`, a file that two executions write at once is full or not; how
  much a reader finds of it is not counted.
* In `Controller`, locks and feeder threads (that is `WorkerPool`), and the workers
  that a crashed controller has left, once another one is started on the host; in
  `WorkerPool`, a crash of the controller, and what a pill's tid does in the result
  queue, which nobody reads by then; in `MonitoringGenerator`, the messages (that is `Master`).

## 8. Plan

Done: `Wire`, `TaskGenerator`, `Master`, `Controller`, `Dispatch` (with
`TaskLifecycle`), `Benchmark`, `OstMigration`, `WorkerPool`, `PidControl`,
`MonitoringGenerator`, `ResultSink`, `DatabaseProxy`, `LustreTasks`,
`PushgatewayClient`, `Monitoring`, `TaskMessages`; the theorems of section 5. The
models are complete but for what section 7 lists.

Next:

1. Safety parts of the liveness properties, as theorems of their own: that each poll of a closing
   master removes a controller (`MasterStops`), that a lock is abandoned only by a
   killed worker (`ShutsDownUnlessAbandoned`).
2. `NoResultTwice` for metrics: what the Pushgateway is given was
   processed since the last push that succeeded.
3. Weaker hypotheses: what remains of `WorkingControllersDismissed` with
   timeouts, and of `OnlyOne` with overlapping starts.
4. The parser of `TaskMessages` for messages of a fixed number of fields.

## 9. Running

    tlasany M.tla
    tlc -config MCDispatch_stop.cfg MCDispatch
    tlapm DispatchProofs.tla

`PROJECT.json` maps every definition to the lines it models, and names for
every property of a passing run a faulty variant of the code (an operator with
the comment "Faulty variant") with which TLC finds it violated.
