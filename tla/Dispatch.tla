------------------------------ MODULE Dispatch ------------------------------
(***************************************************************************)
(* The whole system around the task queue: a task generator, the master,   *)
(* the connection, the controllers and their workers.                      *)
(***************************************************************************)
EXTENDS Master, Controller

vars == <<masterVars, genVars, wireVars, controllerVars>>

Init == MasterInit /\ WireInit /\ ControllerInit

(* A controller's poll runs out: no answer can come any more, or "timeout" *)
(* allows the master to be slower than the poll timeout.                   *)
AnswerOverdue(c) ==
    \/ "timeout" \in Faults
    \/ reply[c] = Nothing /\ (request[c] = Nothing \/ phase # "run" \/ replying)

(* controller_timeout passes for a controller that can't be heard.         *)
HeartbeatOverdue(c) ==
    pc[c] \in {"stopping", "down"} \/ replying \/ "timeout" \in Faults

(* After the loop the master signals the generator and waits for its end.  *)
GeneratorStep == GeneratorNext /\ UNCHANGED <<masterVars, wireVars, controllerVars>>

MasterStep == MasterNext /\ UNCHANGED controllerVars

ExpireStep(c) ==
    HeartbeatOverdue(c) /\ ExpireController(c) /\ UNCHANGED controllerVars

OperatorStep ==
    \/ (MasterSignal \/ RestartMaster) /\ UNCHANGED controllerVars
    \/ \E c \in Controllers : /\ SignalController(c) \/ RestartController(c)
                              /\ UNCHANGED <<masterVars, genVars>>

LocalStep(c) ==
    /\ UNCHANGED <<masterVars, genVars>>
    /\ \/ ControllerStep(c)
       \/ AnswerOverdue(c) /\ TimesOut(c)
       \/ CrashController(c)
       \/ \E w \in Workers : WorkerStep(c, w) \/ WorkerDies(c, w)

Next ==
    \/ MasterStep
    \/ GeneratorStep
    \/ OperatorStep
    \/ \E c \in Controllers : ExpireStep(c) \/ LocalStep(c)

Spec == Init /\ [][Next]_vars

(***************************************************************************)
(* Fairness: every process keeps running.  The master's loop comes round,  *)
(* and so does each controller's; a worker ends its task; a timeout that   *)
(* can only pass passes.  Nothing is assumed of the operators, of failures *)
(* and of the generator, nor that the master serves its controllers in any *)
(* particular order.                                                       *)
(***************************************************************************)
FairMaster ==
    WF_vars(MasterStep \/ \E c \in Controllers : ExpireStep(c))

FairController(c) ==
    WF_vars(/\ ControllerStep(c) \/ (AnswerOverdue(c) /\ TimesOut(c))
            /\ UNCHANGED <<masterVars, genVars>>)

FairWorker(c, w) ==
    WF_vars(WorkerStep(c, w) /\ UNCHANGED <<masterVars, genVars>>)

FairSpec ==
    /\ Spec
    /\ FairMaster
    /\ \A c \in Controllers : FairController(c)
    /\ \A c \in Controllers, w \in Workers : FairWorker(c, w)

-----------------------------------------------------------------------------
TypeOK == WireTypeOK /\ GenTypeOK /\ MasterTypeOK /\ ControllerTypeOK

(***************************************************************************)
(* Where a dispatched task can be, and how many copies of it are there.    *)
(***************************************************************************)
Places ==
    {"reply", "queue", "results", "request", "stale"} \X Controllers
      \union {"worker"} \X Controllers \X Workers

Copies(p, t) ==
    LET c == p[2]
    IN  CASE p[1] = "reply"   -> IF reply[c] = TaskAssign(t) THEN 1 ELSE 0
          [] p[1] = "queue"   -> queued[c][t]
          [] p[1] = "worker"  -> IF worker[c][p[3]] = t THEN 1 ELSE 0
          [] p[1] = "results" -> results[c][t]
          [] p[1] = "request" -> IF request[c] = TaskFinished(t) THEN 1 ELSE 0
          [] p[1] = "stale"   -> IF <<c, TaskFinished(t)>> \in stale THEN 1 ELSE 0

Holds(p, t) == Copies(p, t) > 0

(* The master knows every task that is on its way through the system, so   *)
(* a TASK_FINISHED never meets the 'Inconsistency detected' exception that *)
(* leaves the REP socket waiting for an answer.                            *)
NeverInconsistent ==
    /\ ~replying
    /\ \A p \in Places, t \in Tids : Holds(p, t) => status[t].state # "unknown"

(* Without redispatch a task is never in two places: it is executed by one *)
(* worker at a time, whatever requests, answers and controllers are lost,  *)
(* and while it is anywhere the master has it as assigned to its holder.   *)
ExclusiveAssignment ==
    \A t \in Tids, p \in Places :
       Holds(p, t) =>
          /\ Copies(p, t) = 1
          /\ status[t] = Assigned(p[2])
          /\ \A q \in Places : Holds(q, t) => q = p

(* How far the current dispatch of t has come.                             *)
Life(t) ==
    IF status[t].state = "unknown" THEN "new"
    ELSE IF status[t].state = "finished" THEN "finished"
    ELSE IF \E c \in Controllers : reply[c] = TaskAssign(t) \/ queued[c][t] > 0
         THEN "dispatched"
    ELSE IF \E c \in Controllers, w \in Workers : worker[c][w] = t THEN "running"
    ELSE IF \E c \in Controllers : \/ results[c][t] > 0 \/ request[c] = TaskFinished(t)
                                   \/ <<c, TaskFinished(t)>> \in stale
         THEN "executed"
    ELSE "lost"

Lifecycle == INSTANCE TaskLifecycle WITH life <- [t \in Tids |-> Life(t)]

(* Without redispatch every step of the system is a step of the life of    *)
(* its tasks: execution before report, one execution, one report.          *)
LifecycleImplemented == Lifecycle!Spec

Dismissed(c) == ~run[c] \/ reply[c] = ExitCommand

(* The master doesn't leave its loop behind the back of a controller that  *)
(* still works on tasks: that one was told to exit, or to stop already.    *)
WorkingControllersDismissed ==
    phase = "closing" =>
       \A p \in Places, t \in Tids :
          p[1] # "stale" /\ Holds(p, t) => Dismissed(p[2])

(* Once distribution is off the master leaves its loop: it hears of every  *)
(* controller or its timeout removes it, one per poll.                     *)
MasterStops == ~distribution ~> phase = "closed"

(* A controller whose master is gone for good ends by itself.              *)
ControllersStop ==
    <>[](phase = "closed") => <>(\A c \in Controllers : pc[c] = "down")

(* A master whose REP socket is stuck doesn't hang: it ends.               *)
StuckMasterStops == replying ~> phase = "closed"

(* "Do graceful shutdown": a master told to stop ends without an error.    *)
GracefulShutdown == errors = 0
=============================================================================
