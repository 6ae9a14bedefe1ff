----------------------------- MODULE Benchmark -----------------------------
(***************************************************************************)
(* The system with the benchmark generator                                 *)
(* (task/generator/benchmark_task_generator.py): it publishes its tasks    *)
(* once, counts the tids that come back and ends when it has them all,     *)
(* which ends the master and the controllers.                              *)
(***************************************************************************)
EXTENDS Dispatch

ASSUME TidsAssumption == IsFiniteSet(Tids)

VARIABLES
    filled,     \* the task list is in the task queue
    completed   \* completed_tasks

benchmarkVars == <<vars, filled, completed>>

NumTasks == Cardinality(Tids)

BenchmarkInit == Init /\ filled = FALSE /\ completed = 0

FillQueue ==
    /\ ~filled
    /\ filled' = TRUE
    /\ IF Tids = {} THEN genAlive /\ UNCHANGED genVars ELSE Refill(Tids)
    /\ UNCHANGED completed

CountResult ==
    /\ filled /\ completed < NumTasks
    /\ \E t \in Tids : Collect(t)
    /\ completed' = completed + 1
    /\ UNCHANGED filled

(* Faulty variant: the count ends one too early.                           *)
AllButOneCounted ==
    /\ filled /\ completed + 1 >= NumTasks
    /\ GeneratorExits
    /\ UNCHANGED <<filled, completed>>

AllCounted ==
    /\ filled /\ completed >= NumTasks
    /\ GeneratorExits
    /\ UNCHANGED <<filled, completed>>

(* SIGUSR1 of the master that has left its loop.                           *)
Interrupted ==
    /\ phase = "closed"
    /\ GeneratorExits
    /\ UNCHANGED <<filled, completed>>

BenchmarkStep ==
    /\ FillQueue \/ CountResult \/ AllCounted \/ Interrupted
    /\ UNCHANGED <<masterVars, wireVars, controllerVars>>

SystemStep ==
    /\ \/ MasterStep
       \/ OperatorStep
       \/ \E c \in Controllers : ExpireStep(c) \/ LocalStep(c)
    /\ UNCHANGED <<filled, completed>>

BenchmarkNext == BenchmarkStep \/ SystemStep

BenchmarkSpec == BenchmarkInit /\ [][BenchmarkNext]_benchmarkVars

(***************************************************************************)
(* Besides the processes that keep running: the ZeroMQ socket serves every *)
(* controller, the lock of the task queue is not always held and its       *)
(* feeder not always late when a request comes, and the controller, which  *)
(* looks at its result queue first, does not always miss the same result.  *)
(***************************************************************************)
FairBenchmarkSpec ==
    /\ BenchmarkSpec
    /\ WF_benchmarkVars(BenchmarkStep)
    /\ WF_benchmarkVars((MasterStep \/ \E c \in Controllers : ExpireStep(c))
                        /\ UNCHANGED <<filled, completed>>)
    /\ \A c \in Controllers :
          /\ WF_benchmarkVars(LocalStep(c) /\ UNCHANGED <<filled, completed>>)
          /\ WF_benchmarkVars((\E m \in Requests : Serving(c, m)) /\ MasterStep
                              /\ request'[c] = Nothing
                              /\ UNCHANGED <<filled, completed>>)
          /\ SF_benchmarkVars((\E t \in Tids : ReportResult(c, t))
                              /\ LocalStep(c) /\ UNCHANGED <<filled, completed>>)
          /\ \A w \in Workers :
                WF_benchmarkVars(WorkerStep(c, w) /\ UNCHANGED <<masterVars, genVars>>
                                 /\ UNCHANGED <<filled, completed>>)
    /\ SF_benchmarkVars((\E c \in Controllers, t \in Tids : AssignTask(c, t))
                        /\ MasterStep /\ UNCHANGED <<filled, completed>>)

-----------------------------------------------------------------------------
InQueue(S) == { r \in S \X (1 .. MaxReported) : r[2] <= reported[r[1]] }

(* The generator's count is exact: each finished task is counted or waits  *)
(* in the result queue once, so it ends by itself only when all are done.  *)
CountIsExact ==
    genAlive => completed + Cardinality(InQueue(Tids))
                  = Cardinality({t \in Tids : status[t].state = "finished"})

(* A generator that ends before the master does has had all its tasks done.*)
EndsWhenAllDone ==
    phase = "run" /\ ~genAlive => \A t \in Tids : status[t].state = "finished"

(* With nothing going wrong every task is finished, and master, generator  *)
(* and controllers end.                                                    *)
BenchmarkTerminates ==
    <>[](/\ \A t \in Tids : status[t].state = "finished"
         /\ phase = "closed" /\ ~genAlive
         /\ \A c \in Controllers : pc[c] = "down")
=============================================================================
