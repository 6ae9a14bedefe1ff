------------------------------- MODULE Master -------------------------------
(***************************************************************************)
(* The main loop of cyclone-master.py: one iteration handles one message   *)
(* or one poll timeout.  Clocks are abstracted to their comparisons:       *)
(* whether task_resend_timeout has passed for a task and whether           *)
(* controller_timeout has passed for a controller is a choice, allowed as  *)
(* far as Faults and the composing module say.                             *)
(***************************************************************************)
EXTENDS FiniteSets, TaskGenerator

CONSTANTS NoController, MaxErrors

ASSUME NoControllerAssumption == NoController \notin Controllers
ASSUME MaxErrorsAssumption    == MaxErrors \in Nat \ {0}

VARIABLES
    phase,          \* "run": in the loop; "closing": run_flag is False;
                    \* "closed": the sockets are gone
    distribution,   \* TASK_DISTRIBUTION
    replying,       \* the REP socket owes an answer: it can't receive
    errors,         \* error_count
    known,          \* the keys of controller_heartbeat_dict
    status          \* task_status_dict

masterVars == <<phase, distribution, replying, errors, known, status>>

TaskStatus == [state : {"unknown", "assigned", "finished"},
               controller : Controllers \union {NoController}]
Unknown     == [state |-> "unknown", controller |-> NoController]
Assigned(c) == [state |-> "assigned", controller |-> c]

MasterTypeOK ==
    /\ phase \in {"run", "closing", "closed"}
    /\ distribution \in BOOLEAN
    /\ replying \in BOOLEAN
    /\ errors \in Nat
    /\ known \subseteq Controllers
    /\ status \in [Tids -> TaskStatus]

MasterInit ==
    /\ phase = "run"
    /\ distribution = TRUE
    /\ replying = FALSE
    /\ errors = 0
    /\ known = {}
    /\ status = [t \in Tids |-> Unknown]
    /\ GenInit

Serving(c, m) == phase = "run" /\ ~replying /\ Arrived(c, m)

(* What every message does first: the sender's heartbeat.                  *)
Distributing(c, m) ==
    /\ Serving(c, m) /\ distribution
    /\ known' = known \union {c}
    /\ UNCHANGED <<phase, errors>>

(* TASK_REQUEST while the generator holds the lock of the task queue, or   *)
(* the queue is seen empty: its feeder thread may not have written yet.    *)
TaskRequestNoTask(c) ==
    /\ Distributing(c, TaskRequest)
    /\ genAlive
    /\ Answer(c, TaskRequest, WaitCommand)
    /\ UNCHANGED <<distribution, replying, status, genVars>>

(* Faulty variant: the end of the generator goes unnoticed.                *)
TaskRequestGeneratorGoneUnnoticed(c) ==
    /\ Distributing(c, TaskRequest)
    /\ ~genAlive /\ offered = {}
    /\ Answer(c, TaskRequest, WaitCommand)
    /\ UNCHANGED <<distribution, replying, status, genVars>>

(* TASK_REQUEST with the queue empty and the generator gone.               *)
TaskRequestGeneratorGone(c) ==
    /\ Distributing(c, TaskRequest)
    /\ ~genAlive /\ offered = {}
    /\ distribution' = FALSE
    /\ Answer(c, TaskRequest, WaitCommand)
    /\ UNCHANGED <<replying, status, genVars>>

PopTask(t) ==
    /\ t \in offered
    /\ offered' = offered \ {t}
    /\ UNCHANGED <<reported, genAlive>>

ResendDue(t) == status[t].state = "assigned" /\ "resend" \in Faults

AssignTask(c, t) ==
    /\ Distributing(c, TaskRequest)
    /\ PopTask(t)
    /\ status[t].state # "assigned" \/ ResendDue(t)
    /\ status' = [status EXCEPT ![t] = Assigned(c)]
    /\ Answer(c, TaskRequest, TaskAssign(t))
    /\ UNCHANGED <<distribution, replying>>

(* The popped task is still assigned: it is dropped.                       *)
IgnoreTask(c, t) ==
    /\ Distributing(c, TaskRequest)
    /\ PopTask(t)
    /\ status[t].state = "assigned"
    /\ Answer(c, TaskRequest, WaitCommand)
    /\ UNCHANGED <<distribution, replying, status>>

(* Faulty variant: a finished task is forgotten.                           *)
FinishedAndForgotten(c, t) ==
    /\ Distributing(c, TaskFinished(t))
    /\ status[t].state # "unknown" /\ status[t].controller = c
    /\ status' = [status EXCEPT ![t] = Unknown]
    /\ PushResult(t)
    /\ Answer(c, TaskFinished(t), Acknowledge)
    /\ UNCHANGED <<distribution, replying>>

(* Faulty variant: the generator is not told.                              *)
FinishedNotReported(c, t) ==
    /\ Distributing(c, TaskFinished(t))
    /\ status[t].state # "unknown" /\ status[t].controller = c
    /\ status' = [status EXCEPT ![t].state = "finished"]
    /\ Answer(c, TaskFinished(t), Acknowledge)
    /\ UNCHANGED <<distribution, replying, genVars>>

FinishedByAssignee(c, t) ==
    /\ Distributing(c, TaskFinished(t))
    /\ status[t].state # "unknown" /\ status[t].controller = c
    /\ status' = [status EXCEPT ![t].state = "finished"]
    /\ PushResult(t)
    /\ Answer(c, TaskFinished(t), Acknowledge)
    /\ UNCHANGED <<distribution, replying>>

FinishedByOther(c, t) ==
    /\ Distributing(c, TaskFinished(t))
    /\ status[t].state # "unknown" /\ status[t].controller # c
    /\ Answer(c, TaskFinished(t), Acknowledge)
    /\ UNCHANGED <<distribution, replying, status, genVars>>

HandleHeartbeat(c) ==
    /\ Distributing(c, Heartbeat)
    /\ Answer(c, Heartbeat, Acknowledge)
    /\ UNCHANGED <<distribution, replying, status, genVars>>

(* Faulty variant: the distribution goes on after an exception.            *)
CaughtAndIgnored ==
    /\ errors' = errors + 1
    /\ phase' = IF errors + 1 = MaxErrors THEN "closing" ELSE phase
    /\ UNCHANGED distribution

(* The except clause of the loop.                                          *)
CaughtException ==
    /\ errors' = errors + 1
    /\ distribution' = FALSE
    /\ phase' = IF errors + 1 = MaxErrors THEN "closing" ELSE phase

(* TASK_FINISHED for a tid that was never assigned: the exception leaves   *)
(* the request unanswered, and a REP socket receives nothing more.         *)
FinishedUnknown(c, t) ==
    /\ Serving(c, TaskFinished(t)) /\ distribution
    /\ status[t].state = "unknown"
    /\ known' = known \union {c}
    /\ Swallow(c, TaskFinished(t))
    /\ replying' = TRUE
    /\ CaughtException
    /\ UNCHANGED <<status, genVars>>

(* Faulty variant: the loop ends with the first controller.                *)
HandleLastWhileStopping(c, m) ==
    /\ Serving(c, m) /\ ~distribution
    /\ Answer(c, m, ExitCommand)
    /\ known' = known \ {c}
    /\ phase' = "closing"
    /\ UNCHANGED <<distribution, replying, errors, status, genVars>>

(* Faulty variant: the controller told to exit is still waited for.        *)
HandleStillKnown(c, m) ==
    /\ Serving(c, m) /\ ~distribution
    /\ Answer(c, m, ExitCommand)
    /\ phase' = IF known = {} THEN "closing" ELSE phase
    /\ UNCHANGED <<distribution, replying, errors, known, status, genVars>>

(* Any message while distribution is off, a TASK_FINISHED too.             *)
HandleWhileStopping(c, m) ==
    /\ Serving(c, m) /\ ~distribution
    /\ Answer(c, m, ExitCommand)
    /\ known' = known \ {c}
    /\ phase' = IF known' = {} THEN "closing" ELSE phase
    /\ UNCHANGED <<distribution, replying, errors, status, genVars>>

(* A poll that returns nothing.                                            *)
PollTimesOut ==
    /\ phase = "run"
    /\ replying \/ NothingArrived \/ "timeout" \in Faults

(* Faulty variant: nobody is left, and the loop goes on.                   *)
PollTimeoutIgnored ==
    /\ PollTimesOut /\ ~distribution
    /\ known = {}
    /\ UNCHANGED <<masterVars, genVars, wireVars>>

PollTimeoutAllDown ==
    /\ PollTimesOut /\ ~distribution
    /\ known = {}
    /\ phase' = "closing"
    /\ UNCHANGED <<distribution, replying, errors, known, status>>
    /\ UNCHANGED <<genVars, wireVars>>

(* controller_timeout has passed for c.  Removing a key of the dictionary  *)
(* the loop runs over raises RuntimeError when the loop goes on.           *)
ExpireController(c) ==
    /\ PollTimesOut /\ ~distribution
    /\ c \in known
    /\ known' = known \ {c}
    /\ CaughtException
    /\ UNCHANGED <<replying, status, genVars, wireVars>>

MasterSignal ==
    /\ "signal" \in Faults
    /\ phase = "run" /\ distribution
    /\ distribution' = FALSE
    /\ UNCHANGED <<phase, replying, errors, known, status, genVars, wireVars>>

(* The with block ends: LINGER 0 drops answers that are still under way.   *)
CloseSocket ==
    /\ phase = "closing"
    /\ phase' = "closed"
    /\ \E lost \in SUBSET Controllers :
          reply' = [c \in Controllers |-> IF c \in lost THEN Nothing ELSE reply[c]]
    /\ UNCHANGED <<distribution, replying, errors, known, status>>
    /\ UNCHANGED <<request, stale, genVars>>

(* The next master: the requests it finds are those ZeroMQ had not         *)
(* delivered to the last one; its memory and its queues are empty.         *)
RestartMaster ==
    /\ "restart" \in Faults
    /\ phase = "closed" /\ ~genAlive
    /\ phase' = "run" /\ distribution' = TRUE /\ replying' = FALSE
    /\ errors' = 0 /\ known' = {}
    /\ status' = [t \in Tids |-> Unknown]
    /\ offered' = {} /\ genAlive' = TRUE
    /\ reported' = [t \in Tids |-> 0]
    /\ stale' = {}
    /\ \E lost \in SUBSET Controllers :
          request' = [c \in Controllers |->
                         IF c \in lost THEN Nothing ELSE request[c]]
    /\ UNCHANGED reply

MasterNext ==
    \/ \E c \in Controllers :
          \/ TaskRequestNoTask(c)
          \/ TaskRequestGeneratorGone(c)
          \/ \E t \in Tids : AssignTask(c, t) \/ IgnoreTask(c, t)
          \/ \E t \in Tids : \/ FinishedByAssignee(c, t)
                             \/ FinishedByOther(c, t)
                             \/ FinishedUnknown(c, t)
          \/ HandleHeartbeat(c)
          \/ \E m \in Requests : HandleWhileStopping(c, m)
    \/ PollTimeoutAllDown
    \/ CloseSocket

GeneratorNext ==
    \/ \E S \in (SUBSET Tids) \ {{}} : Refill(S)
    \/ \E t \in Tids : Push(t) \/ Collect(t)
    \/ GeneratorExits
=============================================================================
