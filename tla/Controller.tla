----------------------------- MODULE Controller -----------------------------
(***************************************************************************)
(* cyclone-controller.py and its worker processes (worker.py): the request *)
(* loop with its retries, the task queue, the workers and the result       *)
(* queue, for every controller.  The locks between a controller and its    *)
(* workers are the subject of another module; here each access is atomic.  *)
(***************************************************************************)
EXTENDS Naturals, Wire

CONSTANTS
    Workers,        \* worker ids, the same on every controller
    MaxRetries,     \* max_num_request_retries
    MaxQueued       \* bound of the model on the copies of a tid in a
                    \* controller's queues; they are two only with "resend"

ASSUME WorkersAssumption == Tids \intersect {"ready", "dead"} = {}
ASSUME MaxRetriesAssumption == MaxRetries \in Nat
ASSUME MaxQueuedAssumption == MaxQueued \in Nat \ {0}

VARIABLES
    pc,         \* pc[c]: where c's main loop is
    run,        \* run[c]: RUN_CONDITION
    retry,      \* retry[c]: request_retry_count
    queued,     \* queued[c][t]: copies of t in c's task queue
    worker,     \* worker[c][w]: "ready", "dead" or the tid it executes
    results     \* results[c][t]: how often t is in c's result queue

controllerVars == <<pc, run, retry, queued, worker, results>>

ControllerTypeOK ==
    /\ pc \in [Controllers -> {"loop", "first", "second", "stopping", "down"}]
    /\ run \in [Controllers -> BOOLEAN]
    /\ retry \in [Controllers -> 0 .. MaxRetries + 1]
    /\ queued \in [Controllers -> [Tids -> Nat]]
    /\ worker \in [Controllers -> [Workers -> Tids \union {"ready", "dead"}]]
    /\ results \in [Controllers -> [Tids -> Nat]]

NoTasks  == [t \in Tids |-> 0]
AllReady == [w \in Workers |-> "ready"]

ControllerInit ==
    /\ pc      = [c \in Controllers |-> "loop"]
    /\ run     = [c \in Controllers |-> TRUE]
    /\ retry   = [c \in Controllers |-> 0]
    /\ queued  = [c \in Controllers |-> NoTasks]
    /\ worker  = [c \in Controllers |-> AllReady]
    /\ results = [c \in Controllers |-> NoTasks]

ReadyWorker(c) == \E w \in Workers : worker[c][w] = "ready"
AliveWorker(c) == \E w \in Workers : worker[c][w] # "dead"
Waiting(c)     == pc[c] \in {"first", "second"}

Looping(c) == pc[c] = "loop" /\ run[c]

SendAndWait(c, m) ==
    /\ Send(c, m)
    /\ pc' = [pc EXCEPT ![c] = "first"]
    /\ UNCHANGED <<run, retry, queued, worker>>

(* The loop sends one result if it sees any; the workers' feeder threads   *)
(* may make the queue look empty, so no other send depends on it.          *)
ReportResult(c, t) ==
    /\ Looping(c)
    /\ results[c][t] > 0
    /\ results' = [results EXCEPT ![c][t] = @ - 1]
    /\ SendAndWait(c, TaskFinished(t))

RequestTask(c) ==
    /\ Looping(c) /\ ReadyWorker(c)
    /\ \A t \in Tids : queued[c][t] + results[c][t] < MaxQueued
    /\ SendAndWait(c, TaskRequest)
    /\ UNCHANGED results

SendHeartbeat(c) ==
    /\ Looping(c) /\ ~ReadyWorker(c) /\ AliveWorker(c)
    /\ SendAndWait(c, Heartbeat)
    /\ UNCHANGED results

StopRunning(c) == run' = [run EXCEPT ![c] = FALSE]

NoWorkerAlive(c) ==
    /\ Looping(c) /\ ~AliveWorker(c)
    /\ StopRunning(c)
    /\ UNCHANGED <<pc, retry, queued, worker, results, wireVars>>

(* An answer, in the first or in the second poll.                          *)
Received(c) ==
    /\ Waiting(c)
    /\ reply[c] # Nothing
    /\ reply' = [reply EXCEPT ![c] = Nothing]
    /\ pc' = [pc EXCEPT ![c] = "loop"]
    /\ retry' = [retry EXCEPT ![c] = 0]
    /\ UNCHANGED <<request, stale, worker, results>>

ReceiveTask(c, t) ==
    /\ reply[c] = TaskAssign(t)
    /\ Received(c)
    /\ queued' = [queued EXCEPT ![c][t] = @ + 1]
    /\ UNCHANGED run

ReceiveCommand(c) ==
    /\ reply[c] \in {Acknowledge, WaitCommand}
    /\ Received(c)
    /\ UNCHANGED <<run, queued>>

ReceiveExit(c) ==
    /\ reply[c] = ExitCommand
    /\ Received(c)
    /\ StopRunning(c)
    /\ UNCHANGED queued

(* No answer within the poll timeout.                                      *)
FirstTimeout(c) ==
    /\ pc[c] = "first" /\ retry[c] # MaxRetries
    /\ pc' = [pc EXCEPT ![c] = "second"]
    /\ UNCHANGED <<run, retry, queued, worker, results, wireVars>>

(* Faulty variant: the loop goes on after the last attempt.                *)
RetriesExhaustedIgnored(c) ==
    /\ pc[c] = "first" /\ retry[c] = MaxRetries
    /\ CloseConnection(c)
    /\ pc' = [pc EXCEPT ![c] = "second"]
    /\ UNCHANGED <<run, retry, queued, worker, results>>

RetriesExhausted(c) ==
    /\ pc[c] = "first" /\ retry[c] = MaxRetries
    /\ CloseConnection(c)
    /\ StopRunning(c)
    /\ pc' = [pc EXCEPT ![c] = "second"]
    /\ UNCHANGED <<retry, queued, worker, results>>

(* Faulty variant: the retry is not counted.                               *)
SecondTimeoutUncounted(c) ==
    /\ pc[c] = "second"
    /\ CloseConnection(c)
    /\ pc' = [pc EXCEPT ![c] = "loop"]
    /\ UNCHANGED <<run, retry, queued, worker, results>>

(* None in the second poll either: reconnect.  The request is not repeated.*)
SecondTimeout(c) ==
    /\ pc[c] = "second"
    /\ CloseConnection(c)
    /\ pc' = [pc EXCEPT ![c] = "loop"]
    /\ retry' = [retry EXCEPT ![c] = @ + 1]
    /\ UNCHANGED <<run, queued, worker, results>>

TimesOut(c) == FirstTimeout(c) \/ RetriesExhausted(c) \/ SecondTimeout(c)

SignalController(c) ==
    /\ "stop" \in Faults
    /\ pc[c] \in {"loop", "first", "second"} /\ run[c]
    /\ StopRunning(c)
    /\ UNCHANGED <<pc, retry, queued, worker, results, wireVars>>

BeginShutdown(c) ==
    /\ pc[c] = "loop" /\ ~run[c]
    /\ pc' = [pc EXCEPT ![c] = "stopping"]
    /\ UNCHANGED <<run, retry, queued, worker, results, wireVars>>

(* SIGUSR1 or a poison pill.                                               *)
WorkerStops(c, w) ==
    /\ pc[c] = "stopping"
    /\ worker[c][w] = "ready"
    /\ worker' = [worker EXCEPT ![c][w] = "dead"]
    /\ UNCHANGED <<pc, run, retry, queued, results, wireVars>>

(* All workers are down.  What is left in the queues is lost.              *)
ControllerExits(c) ==
    /\ pc[c] = "stopping" /\ ~AliveWorker(c)
    /\ pc' = [pc EXCEPT ![c] = "down"]
    /\ queued' = [queued EXCEPT ![c] = NoTasks]
    /\ results' = [results EXCEPT ![c] = NoTasks]
    /\ CloseConnection(c)
    /\ UNCHANGED <<run, retry, worker>>

(* A controller that is killed shuts nothing down: its workers go on with  *)
(* what is in its queues, and nobody gets their results.                   *)
CrashController(c) ==
    /\ "crash" \in Faults
    /\ pc[c] # "down"
    /\ pc' = [pc EXCEPT ![c] = "down"]
    /\ CloseConnection(c)
    /\ StopRunning(c)
    /\ UNCHANGED <<retry, queued, worker, results>>

(* New queues and workers; those of a crashed controller are out of sight. *)
RestartController(c) ==
    /\ "start" \in Faults
    /\ pc[c] = "down"
    /\ pc' = [pc EXCEPT ![c] = "loop"]
    /\ run' = [run EXCEPT ![c] = TRUE]
    /\ retry' = [retry EXCEPT ![c] = 0]
    /\ worker' = [worker EXCEPT ![c] = AllReady]
    /\ queued' = [queued EXCEPT ![c] = NoTasks]
    /\ results' = [results EXCEPT ![c] = NoTasks]
    /\ UNCHANGED wireVars

(* Faulty variant: a second worker can take the same task.                 *)
TakeTaskTwice(c, w, t) ==
    /\ worker[c][w] = "ready"
    /\ queued[c][t] > 0
    /\ worker' = [worker EXCEPT ![c][w] = t]
    /\ UNCHANGED <<pc, run, retry, queued, results, wireVars>>

(* Faulty variant: the result is pushed before the task is executed.       *)
TakeTaskAndReport(c, w, t) ==
    /\ worker[c][w] = "ready"
    /\ queued[c][t] > 0
    /\ queued' = [queued EXCEPT ![c][t] = @ - 1]
    /\ worker' = [worker EXCEPT ![c][w] = t]
    /\ results' = [results EXCEPT ![c][t] = @ + 1]
    /\ UNCHANGED <<pc, run, retry, wireVars>>

TakeTask(c, w, t) ==
    /\ worker[c][w] = "ready"
    /\ queued[c][t] > 0
    /\ queued' = [queued EXCEPT ![c][t] = @ - 1]
    /\ worker' = [worker EXCEPT ![c][w] = t]
    /\ UNCHANGED <<pc, run, retry, results, wireVars>>

FinishTask(c, w, t) ==
    /\ worker[c][w] = t
    /\ worker' = [worker EXCEPT ![c][w] = "ready"]
    /\ results' = [results EXCEPT ![c][t] = @ + 1]
    /\ UNCHANGED <<pc, run, retry, queued, wireVars>>

WorkerDies(c, w) ==
    /\ "worker" \in Faults
    /\ worker[c][w] # "dead"
    /\ worker' = [worker EXCEPT ![c][w] = "dead"]
    /\ UNCHANGED <<pc, run, retry, queued, results, wireVars>>

(* What a controller does by itself; timeouts depend on the master.        *)
ControllerStep(c) ==
    \/ RequestTask(c) \/ SendHeartbeat(c) \/ NoWorkerAlive(c)
    \/ ReceiveCommand(c) \/ ReceiveExit(c)
    \/ BeginShutdown(c) \/ ControllerExits(c)
    \/ \E t \in Tids : ReportResult(c, t) \/ ReceiveTask(c, t)

WorkerStep(c, w) ==
    \/ WorkerStops(c, w)
    \/ \E t \in Tids : TakeTask(c, w, t) \/ FinishTask(c, w, t)
=============================================================================
