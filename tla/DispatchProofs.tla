--------------------------- MODULE DispatchProofs ---------------------------
(***************************************************************************)
(* Theorems about Dispatch for every number of controllers, workers and    *)
(* tasks.                                                                  *)
(***************************************************************************)
EXTENDS Dispatch, FiniteSetTheorems, TLAPS

USE FaultsAssumption, NoTidAssumption, MaxReportedAssumption,
    NoControllerAssumption, MaxErrorsAssumption, WorkersAssumption,
    MaxRetriesAssumption, MaxQueuedAssumption

USE DEF wireVars, genVars, masterVars, controllerVars

-----------------------------------------------------------------------------
(***************************************************************************)
(* Messages.                                                               *)
(***************************************************************************)
LEMMA MessageFacts ==
    /\ Nothing \notin Requests /\ Nothing \notin Replies
    /\ TaskRequest \in Requests /\ Heartbeat \in Requests
    /\ Acknowledge \in Replies /\ WaitCommand \in Replies /\ ExitCommand \in Replies
    /\ \A t \in Tids : TaskFinished(t) \in Requests /\ TaskAssign(t) \in Replies
    /\ \A s, t \in Tids : /\ TaskFinished(s) = TaskFinished(t) => s = t
                          /\ TaskAssign(s) = TaskAssign(t) => s = t
    /\ \A t \in Tids :
          /\ TaskFinished(t) # TaskRequest /\ TaskFinished(t) # Heartbeat
          /\ TaskFinished(t) # Nothing
          /\ TaskAssign(t) # Acknowledge /\ TaskAssign(t) # WaitCommand
          /\ TaskAssign(t) # ExitCommand /\ TaskAssign(t) # Nothing
  BY DEF Nothing, Plain, Requests, Replies, TaskRequest, Heartbeat, Acknowledge,
         WaitCommand, ExitCommand, TaskFinished, TaskAssign

LEMMA ExceptType ==
    ASSUME NEW S, NEW T, NEW V, NEW f \in [S -> [T -> V]],
           NEW a \in S, NEW b \in T, NEW v \in V
    PROVE  [f EXCEPT ![a][b] = v] \in [S -> [T -> V]]
  OBVIOUS

-----------------------------------------------------------------------------
(***************************************************************************)
(* Type correctness.  That retry stays within MaxRetries + 1 needs to know *)
(* that a controller which has used up its retries is told to stop.        *)
(***************************************************************************)
RetryInv ==
    \A c \in Controllers :
       /\ pc[c] = "first" => retry[c] <= MaxRetries
       /\ pc[c] = "second" => \/ retry[c] < MaxRetries
                              \/ retry[c] = MaxRetries /\ ~run[c]
       /\ run[c] => retry[c] <= MaxRetries

TypeInv == TypeOK /\ RetryInv

LEMMA AnswerType ==
    ASSUME WireTypeOK, NEW c \in Controllers, NEW m \in Requests,
           NEW r \in Replies, Answer(c, m, r)
    PROVE  WireTypeOK'
  BY DEF WireTypeOK, Answer

LEMMA SwallowType ==
    ASSUME WireTypeOK, NEW c \in Controllers, NEW m \in Requests, Swallow(c, m)
    PROVE  WireTypeOK'
  BY DEF WireTypeOK, Swallow

LEMMA CloseConnectionType ==
    ASSUME WireTypeOK, NEW c \in Controllers, CloseConnection(c)
    PROVE  WireTypeOK'
  <1>1. request' \in [Controllers -> Requests \union {Nothing}]
    BY DEF WireTypeOK, CloseConnection
  <1>2. reply' \in [Controllers -> Replies \union {Nothing}]
    BY DEF WireTypeOK, CloseConnection
  <1>3. request[c] # Nothing => request[c] \in Requests
    BY DEF WireTypeOK
  <1>4. stale' \subseteq Controllers \X Requests
    <2>1. CASE request[c] = Nothing
      BY <2>1 DEF WireTypeOK, CloseConnection
    <2>2. CASE request[c] # Nothing
      <3>1. stale' = stale \/ stale' = stale \union {<<c, request[c]>>}
        BY <2>2 DEF CloseConnection
      <3>2. QED BY <3>1, <1>3, <2>2 DEF WireTypeOK
    <2>3. QED BY <2>1, <2>2
  <1>5. QED BY <1>1, <1>2, <1>4 DEF WireTypeOK

LEMMA InitType == Init => TypeInv
  <1> SUFFICES ASSUME Init PROVE TypeInv
    OBVIOUS
  <1>1. WireTypeOK
    BY DEF Init, WireInit, WireTypeOK
  <1>2. GenTypeOK
    BY DEF Init, MasterInit, GenInit, GenTypeOK
  <1>3. MasterTypeOK
    BY DEF Init, MasterInit, MasterTypeOK, Unknown, TaskStatus
  <1>4. ControllerTypeOK
    BY DEF Init, ControllerInit, ControllerTypeOK, NoTasks, AllReady
  <1>5. RetryInv
    BY DEF Init, ControllerInit, RetryInv
  <1>6. QED BY <1>1, <1>2, <1>3, <1>4, <1>5 DEF TypeInv, TypeOK

(* The master's actions.                                                   *)
LEMMA MasterStepType ==
    ASSUME TypeInv, MasterNext
    PROVE  WireTypeOK' /\ GenTypeOK' /\ MasterTypeOK'
  <1> USE MessageFacts
  <1> USE DEF TypeInv, TypeOK
  <1>1. ASSUME NEW c \in Controllers, TaskRequestNoTask(c)
        PROVE  WireTypeOK' /\ GenTypeOK' /\ MasterTypeOK'
    BY <1>1, AnswerType DEF TaskRequestNoTask, Distributing, GenTypeOK, MasterTypeOK
  <1>2. ASSUME NEW c \in Controllers, TaskRequestGeneratorGone(c)
        PROVE  WireTypeOK' /\ GenTypeOK' /\ MasterTypeOK'
    BY <1>2, AnswerType DEF TaskRequestGeneratorGone, Distributing, GenTypeOK, MasterTypeOK
  <1>3. ASSUME NEW c \in Controllers, NEW t \in Tids, AssignTask(c, t)
        PROVE  WireTypeOK' /\ GenTypeOK' /\ MasterTypeOK'
    BY <1>3, AnswerType
       DEF AssignTask, Distributing, PopTask, GenTypeOK, MasterTypeOK, Assigned, TaskStatus
  <1>4. ASSUME NEW c \in Controllers, NEW t \in Tids, IgnoreTask(c, t)
        PROVE  WireTypeOK' /\ GenTypeOK' /\ MasterTypeOK'
    BY <1>4, AnswerType DEF IgnoreTask, Distributing, PopTask, GenTypeOK, MasterTypeOK
  <1>5. ASSUME NEW c \in Controllers, NEW t \in Tids, FinishedByAssignee(c, t)
        PROVE  WireTypeOK' /\ GenTypeOK' /\ MasterTypeOK'
    BY <1>5, AnswerType
       DEF FinishedByAssignee, Distributing, PushResult, GenTypeOK, MasterTypeOK, TaskStatus
  <1>6. ASSUME NEW c \in Controllers, NEW t \in Tids, FinishedByOther(c, t)
        PROVE  WireTypeOK' /\ GenTypeOK' /\ MasterTypeOK'
    BY <1>6, AnswerType DEF FinishedByOther, Distributing, GenTypeOK, MasterTypeOK
  <1>7. ASSUME NEW c \in Controllers, NEW t \in Tids, FinishedUnknown(c, t)
        PROVE  WireTypeOK' /\ GenTypeOK' /\ MasterTypeOK'
    <2>1. WireTypeOK'
      BY <1>7, SwallowType DEF FinishedUnknown
    <2>2. GenTypeOK'
      BY <1>7 DEF FinishedUnknown, GenTypeOK
    <2>3. /\ errors' \in Nat /\ known' \subseteq Controllers
          /\ phase' \in {"run", "closing", "closed"}
      BY <1>7 DEF FinishedUnknown, CaughtException, MasterTypeOK
    <2>4. /\ distribution' = FALSE /\ replying' = TRUE
          /\ status' \in [Tids -> TaskStatus]
      BY <1>7 DEF FinishedUnknown, CaughtException, MasterTypeOK
    <2>5. MasterTypeOK'
      BY <2>3, <2>4 DEF MasterTypeOK
    <2>6. QED BY <2>1, <2>2, <2>5
  <1>8. ASSUME NEW c \in Controllers, HandleHeartbeat(c)
        PROVE  WireTypeOK' /\ GenTypeOK' /\ MasterTypeOK'
    BY <1>8, AnswerType DEF HandleHeartbeat, Distributing, GenTypeOK, MasterTypeOK
  <1>9. ASSUME NEW c \in Controllers, NEW m \in Requests, HandleWhileStopping(c, m)
        PROVE  WireTypeOK' /\ GenTypeOK' /\ MasterTypeOK'
    BY <1>9, AnswerType DEF HandleWhileStopping, GenTypeOK, MasterTypeOK
  <1>10. ASSUME PollTimeoutAllDown
         PROVE  WireTypeOK' /\ GenTypeOK' /\ MasterTypeOK'
    BY <1>10 DEF PollTimeoutAllDown, WireTypeOK, GenTypeOK, MasterTypeOK
  <1>11. ASSUME CloseSocket
         PROVE  WireTypeOK' /\ GenTypeOK' /\ MasterTypeOK'
    BY <1>11 DEF CloseSocket, WireTypeOK, GenTypeOK, MasterTypeOK
  <1>12. QED
    BY <1>1, <1>2, <1>3, <1>4, <1>5, <1>6, <1>7, <1>8, <1>9, <1>10, <1>11
       DEF MasterNext

LEMMA OtherMasterType ==
    ASSUME TypeInv,
           \/ MasterSignal \/ RestartMaster
           \/ \E c \in Controllers : ExpireController(c)
    PROVE  WireTypeOK' /\ GenTypeOK' /\ MasterTypeOK'
  <1> USE DEF TypeInv, TypeOK
  <1>1. CASE MasterSignal
    BY <1>1 DEF MasterSignal, WireTypeOK, GenTypeOK, MasterTypeOK
  <1>2. CASE RestartMaster
    <2>1. WireTypeOK'
      BY <1>2 DEF RestartMaster, WireTypeOK
    <2>2. GenTypeOK'
      BY <1>2 DEF RestartMaster, GenTypeOK
    <2>3. MasterTypeOK'
      BY <1>2 DEF RestartMaster, MasterTypeOK, Unknown, TaskStatus
    <2>4. QED BY <2>1, <2>2, <2>3
  <1>3. ASSUME NEW c \in Controllers, ExpireController(c)
        PROVE  WireTypeOK' /\ GenTypeOK' /\ MasterTypeOK'
    <2>1. /\ errors' \in Nat /\ known' \subseteq Controllers
          /\ phase' \in {"run", "closing", "closed"}
      BY <1>3 DEF ExpireController, CaughtException, MasterTypeOK
    <2>2. /\ distribution' = FALSE /\ replying' \in BOOLEAN
          /\ status' \in [Tids -> TaskStatus]
      BY <1>3 DEF ExpireController, CaughtException, MasterTypeOK
    <2>3. MasterTypeOK'
      BY <2>1, <2>2 DEF MasterTypeOK
    <2>4. WireTypeOK' /\ GenTypeOK'
      BY <1>3 DEF ExpireController, WireTypeOK, GenTypeOK
    <2>5. QED BY <2>3, <2>4
  <1>4. QED BY <1>1, <1>2, <1>3

LEMMA GeneratorType ==
    ASSUME TypeInv, GeneratorNext
    PROVE  GenTypeOK'
  <1>1. ASSUME NEW S \in SUBSET Tids, Refill(S) PROVE GenTypeOK'
    BY <1>1 DEF TypeInv, TypeOK, GenTypeOK, Refill
  <1>2. ASSUME NEW t \in Tids, Push(t) PROVE GenTypeOK'
    BY <1>2 DEF TypeInv, TypeOK, GenTypeOK, Push
  <1>3. ASSUME NEW t \in Tids, Collect(t) PROVE GenTypeOK'
    BY <1>3 DEF TypeInv, TypeOK, GenTypeOK, Collect
  <1>4. ASSUME GeneratorExits PROVE GenTypeOK'
    BY <1>4 DEF TypeInv, TypeOK, GenTypeOK, GeneratorExits
  <1>5. QED BY <1>1, <1>2, <1>3, <1>4 DEF GeneratorNext

(***************************************************************************)
(* The controller's actions.                                               *)
(***************************************************************************)
LEMMA LocalStepType ==
    ASSUME TypeInv, NEW c \in Controllers,
           \/ ControllerStep(c) \/ TimesOut(c) \/ CrashController(c)
           \/ SignalController(c) \/ RestartController(c)
           \/ \E w \in Workers : WorkerStep(c, w) \/ WorkerDies(c, w)
    PROVE  WireTypeOK' /\ ControllerTypeOK' /\ RetryInv'
  <1> USE MessageFacts
  <1> USE DEF TypeInv, TypeOK
  <1>1. ASSUME NEW m \in Requests, Looping(c), SendAndWait(c, m),
               results' \in [Controllers -> [Tids -> Nat]]
        PROVE  WireTypeOK' /\ ControllerTypeOK' /\ RetryInv'
    BY <1>1 DEF Looping, SendAndWait, Send, WireTypeOK, ControllerTypeOK, RetryInv
  <1>2. ASSUME NEW t \in Tids, ReportResult(c, t)
        PROVE  WireTypeOK' /\ ControllerTypeOK' /\ RetryInv'
    <2>1. results' \in [Controllers -> [Tids -> Nat]]
      BY <1>2 DEF ReportResult, ControllerTypeOK
    <2>2. QED BY <2>1, <1>1, <1>2 DEF ReportResult
  <1>3. ASSUME RequestTask(c) \/ SendHeartbeat(c)
        PROVE  WireTypeOK' /\ ControllerTypeOK' /\ RetryInv'
    BY <1>3, <1>1 DEF RequestTask, SendHeartbeat, ControllerTypeOK
  <1>4. ASSUME Received(c), queued' \in [Controllers -> [Tids -> Nat]],
               run' = run \/ run' = [run EXCEPT ![c] = FALSE]
        PROVE  WireTypeOK' /\ ControllerTypeOK' /\ RetryInv'
    <2>1. WireTypeOK'
      BY <1>4 DEF Received, WireTypeOK
    <2>2. ControllerTypeOK'
      <3>1. retry' \in [Controllers -> 0 .. MaxRetries + 1]
        BY <1>4 DEF Received, ControllerTypeOK
      <3>2. run' \in [Controllers -> BOOLEAN]
        BY <1>4 DEF Received, ControllerTypeOK
      <3>3. QED BY <3>1, <3>2, <1>4 DEF Received, ControllerTypeOK
    <2>3. RetryInv'
      BY <1>4 DEF Received, ControllerTypeOK, RetryInv
    <2>4. QED BY <2>1, <2>2, <2>3
  <1>5. ASSUME NEW t \in Tids, ReceiveTask(c, t)
        PROVE  WireTypeOK' /\ ControllerTypeOK' /\ RetryInv'
    <2>1. queued' \in [Controllers -> [Tids -> Nat]]
      BY <1>5 DEF ReceiveTask, ControllerTypeOK
    <2>2. QED BY <2>1, <1>4, <1>5 DEF ReceiveTask
  <1>6. ASSUME ReceiveCommand(c) \/ ReceiveExit(c)
        PROVE  WireTypeOK' /\ ControllerTypeOK' /\ RetryInv'
    BY <1>4, <1>6 DEF ReceiveCommand, ReceiveExit, StopRunning, ControllerTypeOK
  <1>7. ASSUME NoWorkerAlive(c) \/ SignalController(c) \/ BeginShutdown(c)
        PROVE  WireTypeOK' /\ ControllerTypeOK' /\ RetryInv'
    BY <1>7 DEF NoWorkerAlive, SignalController, BeginShutdown, StopRunning,
                WireTypeOK, ControllerTypeOK, RetryInv
  <1>8. ASSUME FirstTimeout(c)
        PROVE  WireTypeOK' /\ ControllerTypeOK' /\ RetryInv'
    BY <1>8 DEF FirstTimeout, WireTypeOK, ControllerTypeOK, RetryInv
  <1>9. ASSUME RetriesExhausted(c) \/ CrashController(c)
        PROVE  WireTypeOK' /\ ControllerTypeOK' /\ RetryInv'
    <2>1. WireTypeOK'
      BY <1>9, CloseConnectionType DEF RetriesExhausted, CrashController
    <2>2. ControllerTypeOK' /\ RetryInv'
      BY <1>9 DEF RetriesExhausted, CrashController, StopRunning, ControllerTypeOK, RetryInv
    <2>3. QED BY <2>1, <2>2
  <1>10. ASSUME SecondTimeout(c)
         PROVE  WireTypeOK' /\ ControllerTypeOK' /\ RetryInv'
    <2>1. WireTypeOK'
      BY <1>10, CloseConnectionType DEF SecondTimeout
    <2>2. ControllerTypeOK' /\ RetryInv'
      BY <1>10 DEF SecondTimeout, ControllerTypeOK, RetryInv
    <2>3. QED BY <2>1, <2>2
  <1>11. ASSUME ControllerExits(c)
         PROVE  WireTypeOK' /\ ControllerTypeOK' /\ RetryInv'
    <2>1. WireTypeOK'
      BY <1>11, CloseConnectionType DEF ControllerExits
    <2>2. ControllerTypeOK' /\ RetryInv'
      BY <1>11 DEF ControllerExits, NoTasks, ControllerTypeOK, RetryInv
    <2>3. QED BY <2>1, <2>2
  <1>12. ASSUME RestartController(c)
         PROVE  WireTypeOK' /\ ControllerTypeOK' /\ RetryInv'
    BY <1>12 DEF RestartController, AllReady, NoTasks, WireTypeOK, ControllerTypeOK, RetryInv
  <1>13. ASSUME NEW w \in Workers,
                \/ WorkerStops(c, w) \/ WorkerDies(c, w)
                \/ \E t \in Tids : TakeTask(c, w, t) \/ FinishTask(c, w, t)
         PROVE  WireTypeOK' /\ ControllerTypeOK' /\ RetryInv'
    <2>1. WireTypeOK' /\ RetryInv'
      BY <1>13 DEF WorkerStops, WorkerDies, TakeTask, FinishTask, WireTypeOK, RetryInv
    <2>2. UNCHANGED <<pc, run, retry>>
      BY <1>13 DEF WorkerStops, WorkerDies, TakeTask, FinishTask
    <2>3. worker' \in [Controllers -> [Workers -> Tids \union {"ready", "dead"}]]
      <3>1. \E v \in Tids \union {"ready", "dead"} : worker' = [worker EXCEPT ![c][w] = v]
        BY <1>13 DEF WorkerStops, WorkerDies, TakeTask, FinishTask
      <3>2. QED BY <3>1, ExceptType DEF ControllerTypeOK
    <2>4. queued' \in [Controllers -> [Tids -> Nat]]
      <3>1. \/ queued' = queued
            \/ \E t \in Tids : /\ queued[c][t] > 0
                             /\ queued' = [queued EXCEPT ![c][t] = queued[c][t] - 1]
        BY <1>13 DEF WorkerStops, WorkerDies, TakeTask, FinishTask
      <3>2. \A t \in Tids : queued[c][t] \in Nat
        BY DEF ControllerTypeOK
      <3>3. \A t \in Tids : queued[c][t] > 0 => queued[c][t] - 1 \in Nat
        BY <3>2
      <3>4. ASSUME NEW t \in Tids, queued[c][t] > 0
            PROVE  [queued EXCEPT ![c][t] = queued[c][t] - 1] \in [Controllers -> [Tids -> Nat]]
        <4>1. queued[c][t] - 1 \in Nat
          BY <3>3, <3>4
        <4>2. queued \in [Controllers -> [Tids -> Nat]]
          BY DEF ControllerTypeOK
        <4>3. QED BY <4>1, <4>2, ExceptType
      <3>5. ASSUME NEW t \in Tids, queued[c][t] > 0,
                   queued' = [queued EXCEPT ![c][t] = queued[c][t] - 1]
            PROVE  queued' \in [Controllers -> [Tids -> Nat]]
        BY <3>5, <3>4, Zenon
      <3>6. CASE queued' = queued
        BY <3>6 DEF ControllerTypeOK
      <3>7. QED BY <3>1, <3>5, <3>6, Zenon
    <2>5. results' \in [Controllers -> [Tids -> Nat]]
      <3>1. \/ results' = results
            \/ \E t \in Tids : results' = [results EXCEPT ![c][t] = results[c][t] + 1]
        BY <1>13 DEF WorkerStops, WorkerDies, TakeTask, FinishTask
      <3>2. ASSUME NEW t \in Tids
            PROVE  [results EXCEPT ![c][t] = results[c][t] + 1] \in [Controllers -> [Tids -> Nat]]
        <4>1. results[c][t] + 1 \in Nat
          BY DEF ControllerTypeOK
        <4>2. results \in [Controllers -> [Tids -> Nat]]
          BY DEF ControllerTypeOK
        <4>3. QED BY <4>1, <4>2, ExceptType
      <3>3. ASSUME NEW t \in Tids, results' = [results EXCEPT ![c][t] = results[c][t] + 1]
            PROVE  results' \in [Controllers -> [Tids -> Nat]]
        BY <3>3, <3>2, Zenon
      <3>4. CASE results' = results
        BY <3>4 DEF ControllerTypeOK
      <3>5. QED BY <3>1, <3>3, <3>4, Zenon
    <2>6. QED BY <2>1, <2>2, <2>3, <2>4, <2>5 DEF ControllerTypeOK
  <1>14. QED
    BY <1>2, <1>3, <1>5, <1>6, <1>7, <1>8, <1>9, <1>10, <1>11, <1>12, <1>13
       DEF ControllerStep, TimesOut, WorkerStep

LEMMA NextType == TypeInv /\ [Next]_vars => TypeInv'
  <1> SUFFICES ASSUME TypeInv, [Next]_vars PROVE TypeInv'
    OBVIOUS
  <1> USE DEF TypeInv, TypeOK
  <1>1. ASSUME UNCHANGED controllerVars PROVE ControllerTypeOK' /\ RetryInv'
    BY <1>1 DEF ControllerTypeOK, RetryInv
  <1>2. ASSUME UNCHANGED <<masterVars, genVars>> PROVE MasterTypeOK' /\ GenTypeOK'
    BY <1>2 DEF MasterTypeOK, GenTypeOK
  <1>3. CASE MasterStep
    BY <1>3, <1>1, MasterStepType DEF MasterStep
  <1>4. CASE GeneratorStep
    BY <1>4, <1>1, GeneratorType DEF GeneratorStep, MasterTypeOK, WireTypeOK
  <1>5. CASE OperatorStep
    BY <1>5, <1>1, <1>2, OtherMasterType, LocalStepType DEF OperatorStep
  <1>6. ASSUME NEW c \in Controllers, ExpireStep(c) PROVE TypeInv'
    BY <1>6, <1>1, OtherMasterType DEF ExpireStep
  <1>7. ASSUME NEW c \in Controllers, LocalStep(c) PROVE TypeInv'
    BY <1>7, <1>2, LocalStepType DEF LocalStep
  <1>8. CASE UNCHANGED vars
    BY <1>8, <1>1, <1>2 DEF vars, WireTypeOK
  <1>9. QED
    BY <1>3, <1>4, <1>5, <1>6, <1>7, <1>8 DEF Next

(* The variables of master, generator, wire and controllers keep their     *)
(* types in every run; in particular request_retry_count never passes      *)
(* max_num_request_retries + 1, where the test for equality with the       *)
(* maximum would no longer end the controller.                             *)
THEOREM TypeCorrect == Spec => []TypeOK
  <1>1. Spec => []TypeInv
    BY InitType, NextType, PTL DEF Spec
  <1>2. TypeInv => TypeOK
    BY DEF TypeInv
  <1>3. QED BY <1>1, <1>2, PTL

-----------------------------------------------------------------------------
(***************************************************************************)
(* Places and copies.                                                      *)
(***************************************************************************)
LEMMA PlaceCases ==
    \A p \in Places :
       \/ \E c \in Controllers : p \in {<<"reply", c>>, <<"queue", c>>, <<"results", c>>,
                                       <<"request", c>>, <<"stale", c>>}
       \/ \E c \in Controllers, w \in Workers : p = <<"worker", c, w>>
  BY DEF Places

LEMMA PlaceIn ==
    ASSUME NEW c \in Controllers
    PROVE  /\ <<"reply", c>> \in Places /\ <<"queue", c>> \in Places
           /\ <<"results", c>> \in Places /\ <<"request", c>> \in Places
           /\ <<"stale", c>> \in Places
           /\ \A w \in Workers : <<"worker", c, w>> \in Places
  BY DEF Places

LEMMA CopiesAt ==
    ASSUME NEW c, NEW t
    PROVE  /\ Copies(<<"reply", c>>, t) = IF reply[c] = TaskAssign(t) THEN 1 ELSE 0
           /\ Copies(<<"queue", c>>, t) = queued[c][t]
           /\ Copies(<<"results", c>>, t) = results[c][t]
           /\ Copies(<<"request", c>>, t) = IF request[c] = TaskFinished(t) THEN 1 ELSE 0
           /\ Copies(<<"stale", c>>, t)
                 = IF <<c, TaskFinished(t)>> \in stale THEN 1 ELSE 0
           /\ \A w : Copies(<<"worker", c, w>>, t) = IF worker[c][w] = t THEN 1 ELSE 0
  BY DEF Copies

LEMMA CopiesAtNext ==
    ASSUME NEW c, NEW t
    PROVE  /\ Copies(<<"reply", c>>, t)' = IF reply'[c] = TaskAssign(t) THEN 1 ELSE 0
           /\ Copies(<<"queue", c>>, t)' = queued'[c][t]
           /\ Copies(<<"results", c>>, t)' = results'[c][t]
           /\ Copies(<<"request", c>>, t)' = IF request'[c] = TaskFinished(t) THEN 1 ELSE 0
           /\ Copies(<<"stale", c>>, t)'
                 = IF <<c, TaskFinished(t)>> \in stale' THEN 1 ELSE 0
           /\ \A w : Copies(<<"worker", c, w>>, t)' = IF worker'[c][w] = t THEN 1 ELSE 0
  BY DEF Copies

LEMMA CopiesNat ==
    ASSUME ControllerTypeOK, NEW p \in Places, NEW t \in Tids
    PROVE  Copies(p, t) \in Nat
  <1>1. ASSUME NEW c \in Controllers PROVE queued[c][t] \in Nat /\ results[c][t] \in Nat
    BY DEF ControllerTypeOK
  <1>2. ASSUME NEW c \in Controllers,
               p \in {<<"reply", c>>, <<"queue", c>>, <<"results", c>>,
                      <<"request", c>>, <<"stale", c>>}
        PROVE  Copies(p, t) \in Nat
    BY <1>1, <1>2 DEF Copies
  <1>3. ASSUME NEW c \in Controllers, NEW w \in Workers, p = <<"worker", c, w>>
        PROVE  Copies(p, t) \in Nat
    BY <1>3 DEF Copies
  <1>4. QED BY <1>2, <1>3, PlaceCases

(* No place outside X gets a copy of t.                                    *)
NotMoreOutside(X, t) == \A r \in Places \ X : Copies(r, t)' <= Copies(r, t)

LEMMA NotMore ==
    ASSUME ControllerTypeOK, ControllerTypeOK', NEW X, NEW t \in Tids,
           \A c \in Controllers :
              /\ <<"reply", c>> \notin X =>
                    (reply'[c] = TaskAssign(t) => reply[c] = TaskAssign(t))
              /\ <<"queue", c>> \notin X => queued'[c][t] <= queued[c][t]
              /\ <<"results", c>> \notin X => results'[c][t] <= results[c][t]
              /\ <<"request", c>> \notin X =>
                    (request'[c] = TaskFinished(t) => request[c] = TaskFinished(t))
              /\ <<"stale", c>> \notin X =>
                    (<<c, TaskFinished(t)>> \in stale' => <<c, TaskFinished(t)>> \in stale)
              /\ \A w \in Workers : <<"worker", c, w>> \notin X =>
                    (worker'[c][w] = t => worker[c][w] = t)
    PROVE  NotMoreOutside(X, t)
  <1> SUFFICES ASSUME NEW r \in Places, r \notin X
               PROVE  Copies(r, t)' <= Copies(r, t)
    BY DEF NotMoreOutside
  <1>1. ASSUME NEW c \in Controllers, r = <<"reply", c>>
        PROVE  Copies(r, t)' <= Copies(r, t)
    <2>1. (reply'[c] = TaskAssign(t)) => (reply[c] = TaskAssign(t))
      BY <1>1, Zenon
    <2>2. Copies(r, t) = IF (reply[c] = TaskAssign(t)) THEN 1 ELSE 0
      BY <1>1 DEF Copies
    <2>3. Copies(r, t)' = IF (reply'[c] = TaskAssign(t)) THEN 1 ELSE 0
      BY <1>1 DEF Copies
    <2>4. QED BY <2>1, <2>2, <2>3
  <1>2. ASSUME NEW c \in Controllers, r = <<"queue", c>> PROVE Copies(r, t)' <= Copies(r, t)
    BY <1>2 DEF Copies
  <1>3. ASSUME NEW c \in Controllers, r = <<"results", c>> PROVE Copies(r, t)' <= Copies(r, t)
    BY <1>3 DEF Copies
  <1>4. ASSUME NEW c \in Controllers, r = <<"request", c>>
        PROVE  Copies(r, t)' <= Copies(r, t)
    <2>1. (request'[c] = TaskFinished(t)) => (request[c] = TaskFinished(t))
      BY <1>4, Zenon
    <2>2. Copies(r, t) = IF (request[c] = TaskFinished(t)) THEN 1 ELSE 0
      BY <1>4 DEF Copies
    <2>3. Copies(r, t)' = IF (request'[c] = TaskFinished(t)) THEN 1 ELSE 0
      BY <1>4 DEF Copies
    <2>4. QED BY <2>1, <2>2, <2>3
  <1>5. ASSUME NEW c \in Controllers, r = <<"stale", c>>
        PROVE  Copies(r, t)' <= Copies(r, t)
    <2>1. (<<c, TaskFinished(t)>> \in stale') => (<<c, TaskFinished(t)>> \in stale)
      BY <1>5, Zenon
    <2>2. Copies(r, t) = IF (<<c, TaskFinished(t)>> \in stale) THEN 1 ELSE 0
      BY <1>5 DEF Copies
    <2>3. Copies(r, t)' = IF (<<c, TaskFinished(t)>> \in stale') THEN 1 ELSE 0
      BY <1>5 DEF Copies
    <2>4. QED BY <2>1, <2>2, <2>3
  <1>6. ASSUME NEW c \in Controllers, NEW w \in Workers, r = <<"worker", c, w>>
        PROVE  Copies(r, t)' <= Copies(r, t)
    <2>1. (worker'[c][w] = t) => (worker[c][w] = t)
      BY <1>6, Zenon
    <2>2. Copies(r, t) = IF (worker[c][w] = t) THEN 1 ELSE 0
      BY <1>6 DEF Copies
    <2>3. Copies(r, t)' = IF (worker'[c][w] = t) THEN 1 ELSE 0
      BY <1>6 DEF Copies
    <2>4. QED BY <2>1, <2>2, <2>3
  <1>7. QED BY <1>1, <1>2, <1>3, <1>4, <1>5, <1>6, PlaceCases

(***************************************************************************)
(* What one step can do to one task.                                       *)
(***************************************************************************)
NoneAdded(t) == status'[t] = status[t] /\ NotMoreOutside({}, t)

(* The ways of a task; the first ones make no difference to how far it is. *)
Shifts == {<<"reply", "queue">>, <<"results", "request">>, <<"request", "stale">>}
Ways   == Shifts \union {<<"queue", "worker">>, <<"worker", "results">>}

Moved(t, ways) ==
    /\ status'[t] = status[t]
    /\ \E p, q \in Places :
          /\ <<p[1], q[1]>> \in ways /\ p # q /\ p[2] = q[2]
          /\ Copies(p, t) > 0 /\ Copies(p, t)' = Copies(p, t) - 1
          /\ Copies(q, t)' <= Copies(q, t) + 1
          /\ NotMoreOutside({p, q}, t)

Handed(t) ==
    \E c \in Controllers :
       /\ status[t].state # "assigned" \/ (t \in offered /\ ResendDue(t))
       /\ status'[t] = Assigned(c)
       /\ phase = "run" /\ phase' = "run" /\ c \in known'
       /\ \E q \in Places : /\ q[1] = "reply" /\ q[2] = c
                          /\ Copies(q, t)' <= Copies(q, t) + 1
                          /\ NotMoreOutside({q}, t)

Reported(t) ==
    /\ status[t].state # "unknown"
    /\ status'[t].state = "finished"
    /\ \E p \in Places : /\ p[2] = status[t].controller
                       /\ Copies(p, t) > 0 /\ Copies(p, t)' = Copies(p, t) - 1
                       /\ NotMoreOutside({p}, t)

Effect ==
    \A t \in Tids : NoneAdded(t) \/ Moved(t, Ways) \/ Handed(t) \/ Reported(t)

(* Every request is answered with what is not the assignment of t.         *)
LEMMA AnswerNone ==
    ASSUME TypeInv, TypeInv', NEW t \in Tids, NEW c \in Controllers, NEW m, NEW r,
           r # TaskAssign(t), Answer(c, m, r), UNCHANGED controllerVars
    PROVE  NotMoreOutside({}, t)
  <1>1. ControllerTypeOK /\ ControllerTypeOK' /\ WireTypeOK
    BY DEF TypeInv, TypeOK
  <1>2. ASSUME NEW d \in Controllers
        PROVE  /\ reply'[d] = TaskAssign(t) => reply[d] = TaskAssign(t)
               /\ request'[d] = TaskFinished(t) => request[d] = TaskFinished(t)
               /\ <<d, TaskFinished(t)>> \in stale' => <<d, TaskFinished(t)>> \in stale
    BY <1>1, MessageFacts DEF Answer, WireTypeOK
  <1>3. ASSUME NEW d \in Controllers
        PROVE  queued'[d][t] <= queued[d][t] /\ results'[d][t] <= results[d][t]
    BY <1>1 DEF ControllerTypeOK
  <1>4. QED BY <1>1, <1>2, <1>3, NotMore

LEMMA AnswerHands ==
    ASSUME TypeInv, TypeInv', NEW t \in Tids, NEW c \in Controllers, NEW m,
           Answer(c, m, TaskAssign(t)), UNCHANGED controllerVars
    PROVE  /\ Copies(<<"reply", c>>, t)' <= Copies(<<"reply", c>>, t) + 1
           /\ NotMoreOutside({<<"reply", c>>}, t)
  <1>1. ControllerTypeOK /\ ControllerTypeOK' /\ WireTypeOK
    BY DEF TypeInv, TypeOK
  <1>2. Copies(<<"reply", c>>, t)' <= Copies(<<"reply", c>>, t) + 1
    BY DEF Copies
  <1>3. ASSUME NEW d \in Controllers, d # c
        PROVE  reply'[d] = TaskAssign(t) => reply[d] = TaskAssign(t)
    BY <1>1, <1>3, MessageFacts DEF Answer, WireTypeOK
  <1>4. ASSUME NEW d \in Controllers
        PROVE  /\ <<"reply", d>> \notin {<<"reply", c>>} =>
                     (reply'[d] = TaskAssign(t) => reply[d] = TaskAssign(t))
               /\ request'[d] = TaskFinished(t) => request[d] = TaskFinished(t)
               /\ <<d, TaskFinished(t)>> \in stale' => <<d, TaskFinished(t)>> \in stale
    <2>1. /\ request'[d] = TaskFinished(t) => request[d] = TaskFinished(t)
          /\ <<d, TaskFinished(t)>> \in stale' => <<d, TaskFinished(t)>> \in stale
      BY <1>1, MessageFacts DEF Answer, WireTypeOK
    <2>2. <<"reply", d>> \notin {<<"reply", c>>} =>
             (reply'[d] = TaskAssign(t) => reply[d] = TaskAssign(t))
      BY <1>3
    <2>3. QED BY <2>1, <2>2
  <1>5. ASSUME NEW d \in Controllers
        PROVE  queued'[d][t] <= queued[d][t] /\ results'[d][t] <= results[d][t]
    BY <1>1 DEF ControllerTypeOK
  <1>6. NotMoreOutside({<<"reply", c>>}, t)
    BY <1>1, <1>4, <1>5, NotMore
  <1>7. QED BY <1>2, <1>6

(* A message is taken from one of the two places it can be in.             *)
LEMMA TakenOnce ==
    ASSUME TypeInv, TypeInv', NEW t \in Tids, NEW c \in Controllers,
           Answer(c, TaskFinished(t), Acknowledge), UNCHANGED controllerVars
    PROVE  \E p \in Places : /\ p[2] = c
                           /\ Copies(p, t) > 0 /\ Copies(p, t)' = Copies(p, t) - 1
                           /\ NotMoreOutside({p}, t)
  <1>1. NotMoreOutside({}, t)
    BY AnswerNone, MessageFacts
  <1>2. \A p : NotMoreOutside({p}, t)
    BY <1>1 DEF NotMoreOutside
  <1>3. WireTypeOK
    BY DEF TypeInv, TypeOK
  <1>4. CASE request[c] = TaskFinished(t) /\ request' = [request EXCEPT ![c] = Nothing]
    <2>1. request'[c] # TaskFinished(t)
      BY <1>3, <1>4, MessageFacts DEF WireTypeOK
    <2>2. /\ Copies(<<"request", c>>, t) = 1
          /\ Copies(<<"request", c>>, t)' = 0
      BY <2>1, <1>4 DEF Copies
    <2>3. /\ <<"request", c>>[2] = c
          /\ Copies(<<"request", c>>, t) > 0
          /\ Copies(<<"request", c>>, t)' = Copies(<<"request", c>>, t) - 1
      BY <2>2
    <2>4. QED BY <2>3, <1>2, PlaceIn, Zenon
  <1>5. CASE /\ <<c, TaskFinished(t)>> \in stale
             /\ stale' = stale \ {<<c, TaskFinished(t)>>}
    <2>1. /\ Copies(<<"stale", c>>, t) = 1
          /\ Copies(<<"stale", c>>, t)' = 0
      BY <1>5 DEF Copies
    <2>2. /\ <<"stale", c>>[2] = c
          /\ Copies(<<"stale", c>>, t) > 0
          /\ Copies(<<"stale", c>>, t)' = Copies(<<"stale", c>>, t) - 1
      BY <2>1
    <2>3. QED BY <2>2, <1>2, PlaceIn, Zenon
  <1>6. QED BY <1>4, <1>5 DEF Answer

(* The master's actions, seen from one task: only two of them do more than *)
(* drop a message.                                                         *)
LEMMA MasterRest ==
    ASSUME TypeInv, TypeInv', MasterNext, UNCHANGED controllerVars, NEW t \in Tids
    PROVE  \/ NoneAdded(t)
           \/ \E c \in Controllers, s \in Tids : AssignTask(c, s) \/ FinishedByAssignee(c, s)
  <1> USE MessageFacts
  <1>1. MasterTypeOK /\ WireTypeOK /\ ControllerTypeOK /\ ControllerTypeOK'
    BY DEF TypeInv, TypeOK
  <1>2. ASSUME NEW c \in Controllers, NEW m, NEW r, r # TaskAssign(t), Answer(c, m, r),
               status'[t] = status[t]
        PROVE  NoneAdded(t)
    BY <1>2, AnswerNone DEF NoneAdded
  <1>3. ASSUME NEW c \in Controllers,
               \/ TaskRequestNoTask(c) \/ TaskRequestGeneratorGone(c)
               \/ HandleHeartbeat(c)
               \/ \E s \in Tids : IgnoreTask(c, s) \/ FinishedByOther(c, s)
               \/ \E m \in Requests : HandleWhileStopping(c, m)
        PROVE  NoneAdded(t)
    BY <1>3, <1>2 DEF TaskRequestNoTask, TaskRequestGeneratorGone, HandleHeartbeat,
                      IgnoreTask, FinishedByOther, HandleWhileStopping
  <1>4. ASSUME UNCHANGED <<request, stale>> \/ (UNCHANGED stale /\ \E c \in Controllers :
                    request' = [request EXCEPT ![c] = Nothing])
                 \/ (UNCHANGED request /\ stale' \subseteq stale),
               \A c \in Controllers : reply'[c] \in {reply[c], Nothing},
               UNCHANGED status
        PROVE  NoneAdded(t)
    <2>1. ASSUME NEW c \in Controllers
          PROVE  /\ reply'[c] = TaskAssign(t) => reply[c] = TaskAssign(t)
                 /\ request'[c] = TaskFinished(t) => request[c] = TaskFinished(t)
                 /\ <<c, TaskFinished(t)>> \in stale' => <<c, TaskFinished(t)>> \in stale
                 /\ queued'[c][t] <= queued[c][t] /\ results'[c][t] <= results[c][t]
      BY <1>1, <1>4 DEF WireTypeOK, ControllerTypeOK
    <2>2. NotMoreOutside({}, t)
      BY <1>1, <2>1, NotMore
    <2>3. QED BY <2>2, <1>4 DEF NoneAdded
  <1>5. ASSUME NEW c \in Controllers, NEW s \in Tids, FinishedUnknown(c, s)
        PROVE  NoneAdded(t)
    BY <1>5, <1>4 DEF FinishedUnknown, Swallow
  <1>6. CASE PollTimeoutAllDown
    BY <1>6, <1>4 DEF PollTimeoutAllDown
  <1>7. CASE CloseSocket
    BY <1>7, <1>4 DEF CloseSocket
  <1>8. QED
    BY <1>3, <1>5, <1>6, <1>7 DEF MasterNext

LEMMA MasterEffect ==
    ASSUME TypeInv, TypeInv', UNCHANGED controllerVars, NEW t \in Tids,
           \E c \in Controllers, s \in Tids : AssignTask(c, s) \/ FinishedByAssignee(c, s)
    PROVE  NoneAdded(t) \/ Handed(t) \/ Reported(t)
  <1> USE MessageFacts
  <1>1. MasterTypeOK /\ WireTypeOK /\ ControllerTypeOK /\ ControllerTypeOK'
    BY DEF TypeInv, TypeOK
  <1>2. ASSUME NEW c \in Controllers, NEW m, NEW r, r # TaskAssign(t), Answer(c, m, r),
               status'[t] = status[t]
        PROVE  NoneAdded(t)
    BY <1>2, AnswerNone DEF NoneAdded
  <1>3. ASSUME NEW c \in Controllers, NEW s \in Tids, AssignTask(c, s), s # t
        PROVE  NoneAdded(t)
    BY <1>3, <1>2, <1>1 DEF AssignTask, MasterTypeOK
  <1>4. ASSUME NEW c \in Controllers, AssignTask(c, t) PROVE Handed(t)
    <2>1. status[t].state # "assigned" \/ (t \in offered /\ ResendDue(t))
      BY <1>4 DEF AssignTask, PopTask
    <2>2. status'[t] = Assigned(c)
      BY <1>4, <1>1 DEF AssignTask, MasterTypeOK
    <2>3. /\ <<"reply", c>>[1] = "reply" /\ <<"reply", c>>[2] = c
          /\ Copies(<<"reply", c>>, t)' <= Copies(<<"reply", c>>, t) + 1
      BY <1>4, AnswerHands DEF AssignTask
    <2>4. NotMoreOutside({<<"reply", c>>}, t)
      BY <1>4, AnswerHands DEF AssignTask
    <2>5. phase = "run" /\ phase' = "run" /\ c \in known'
      BY <1>4 DEF AssignTask, Distributing, Serving
    <2>6. QED BY <2>1, <2>2, <2>3, <2>4, <2>5, PlaceIn, Zenon DEF Handed
  <1>5. ASSUME NEW c \in Controllers, NEW s \in Tids, FinishedByAssignee(c, s), s # t
        PROVE  NoneAdded(t)
    BY <1>5, <1>2, <1>1 DEF FinishedByAssignee, MasterTypeOK
  <1>6. ASSUME NEW c \in Controllers, FinishedByAssignee(c, t) PROVE Reported(t)
    <2>1. status[t].state # "unknown" /\ status[t].controller = c
      BY <1>6 DEF FinishedByAssignee
    <2>2. status'[t].state = "finished"
      BY <1>6, <1>1 DEF FinishedByAssignee, MasterTypeOK, TaskStatus
    <2>3. \E p \in Places : /\ p[2] = c
                          /\ Copies(p, t) > 0 /\ Copies(p, t)' = Copies(p, t) - 1
                          /\ NotMoreOutside({p}, t)
      BY <1>6, TakenOnce DEF FinishedByAssignee
    <2>4. QED BY <2>1, <2>2, <2>3, Zenon DEF Reported
  <1>7. QED
    BY <1>3, <1>4, <1>5, <1>6

(***************************************************************************)
(* The controller's actions.                                               *)
(***************************************************************************)
LEMMA ExceptAt ==
    ASSUME NEW S, NEW T, NEW V, NEW f \in [S -> [T -> V]],
           NEW a \in S, NEW b \in T, NEW v
    PROVE  /\ [f EXCEPT ![a][b] = v][a][b] = v
           /\ \A d \in S, u \in T :
                 d # a \/ u # b => [f EXCEPT ![a][b] = v][d][u] = f[d][u]
  OBVIOUS

LEMMA ReportEffect ==
    ASSUME TypeInv, TypeInv', NEW t \in Tids, status'[t] = status[t],
           NEW c \in Controllers, NEW s \in Tids, ReportResult(c, s)
    PROVE  NoneAdded(t) \/ Moved(t, Shifts)
  <1> USE MessageFacts
  <1>1. ControllerTypeOK /\ ControllerTypeOK' /\ WireTypeOK
    BY DEF TypeInv, TypeOK
  <1>2. /\ UNCHANGED <<queued, worker, stale, reply>>
        /\ request' = [request EXCEPT ![c] = TaskFinished(s)]
        /\ results' = [results EXCEPT ![c][s] = results[c][s] - 1]
        /\ results[c][s] > 0 /\ results[c][s] \in Nat
    BY <1>1 DEF ReportResult, SendAndWait, Send, ControllerTypeOK
  <1>3. /\ results'[c][s] = results[c][s] - 1
        /\ \A d \in Controllers, u \in Tids :
              d # c \/ u # s => results'[d][u] = results[d][u]
    <2>1. results \in [Controllers -> [Tids -> Nat]]
      BY <1>1 DEF ControllerTypeOK
    <2> DEFINE less == [results EXCEPT ![c][s] = results[c][s] - 1]
    <2>2. /\ less[c][s] = results[c][s] - 1
          /\ \A d \in Controllers, u \in Tids :
                d # c \/ u # s => less[d][u] = results[d][u]
      BY <2>1, ExceptAt
    <2>3. results' = less
      BY <1>2
    <2>4. QED BY <2>2, <2>3, Zenon
  <1>4. \A d \in Controllers : queued'[d][t] <= queued[d][t]
    BY <1>1, <1>2 DEF ControllerTypeOK
  <1>5. \A d \in Controllers : results'[d][t] <= results[d][t]
    <2>1. \A d \in Controllers : results[d][t] \in Nat
      BY <1>1 DEF ControllerTypeOK
    <2>2. QED BY <2>1, <1>2, <1>3
  <1>6. CASE s # t
    <2>1. \A d \in Controllers :
             request'[d] = TaskFinished(t) => request[d] = TaskFinished(t)
      BY <1>6, <1>2, <1>1 DEF WireTypeOK
    <2>2. NotMoreOutside({}, t)
      BY <1>1, <1>2, <1>4, <1>5, <2>1, NotMore
    <2>3. QED BY <2>2 DEF NoneAdded
  <1>7. CASE s = t
    <2>1. \A d \in Controllers : d # c =>
             (request'[d] = TaskFinished(t) => request[d] = TaskFinished(t))
      BY <1>2, <1>1 DEF WireTypeOK
    <2>2. /\ Copies(<<"results", c>>, t) > 0
          /\ Copies(<<"results", c>>, t)' = Copies(<<"results", c>>, t) - 1
      BY <1>2, <1>3, <1>7 DEF Copies
    <2>3. Copies(<<"request", c>>, t)' <= Copies(<<"request", c>>, t) + 1
      BY DEF Copies
    <2>4. /\ <<<<"results", c>>[1], <<"request", c>>[1]>> \in Shifts
          /\ <<"results", c>> # <<"request", c>>
          /\ <<"results", c>>[2] = <<"request", c>>[2]
          /\ \A d \in Controllers : <<"request", d>> = <<"request", c>> \/ d # c
      BY DEF Shifts, Ways
    <2>5. \A d \in Controllers : <<"request", d>> \notin {<<"results", c>>, <<"request", c>>} =>
             (request'[d] = TaskFinished(t) => request[d] = TaskFinished(t))
      BY <2>1, <2>4, Zenon
    <2>6. NotMoreOutside({<<"results", c>>, <<"request", c>>}, t)
      BY <1>1, <1>2, <1>4, <1>5, <2>5, NotMore
    <2>7. QED
      BY <2>2, <2>3, <2>4, <2>6, PlaceIn, Zenon DEF Moved
  <1>8. QED BY <1>6, <1>7

LEMMA ReceiveEffect ==
    ASSUME TypeInv, TypeInv', NEW t \in Tids, status'[t] = status[t],
           NEW c \in Controllers, NEW s \in Tids, ReceiveTask(c, s)
    PROVE  NoneAdded(t) \/ Moved(t, Shifts)
  <1> USE MessageFacts
  <1>1. ControllerTypeOK /\ ControllerTypeOK' /\ WireTypeOK
    BY DEF TypeInv, TypeOK
  <1>2. /\ UNCHANGED <<results, worker, stale, request>>
        /\ reply[c] = TaskAssign(s)
        /\ reply' = [reply EXCEPT ![c] = Nothing]
        /\ queued' = [queued EXCEPT ![c][s] = queued[c][s] + 1]
    BY <1>1 DEF ReceiveTask, Received
  <1>3. /\ queued'[c][s] = queued[c][s] + 1
        /\ \A d \in Controllers, u \in Tids :
              d # c \/ u # s => queued'[d][u] = queued[d][u]
    <2>1. queued \in [Controllers -> [Tids -> Nat]]
      BY <1>1 DEF ControllerTypeOK
    <2> DEFINE more == [queued EXCEPT ![c][s] = queued[c][s] + 1]
    <2>2. /\ more[c][s] = queued[c][s] + 1
          /\ \A d \in Controllers, u \in Tids :
                d # c \/ u # s => more[d][u] = queued[d][u]
      BY <2>1, ExceptAt
    <2>3. queued' = more
      BY <1>2
    <2>4. QED BY <2>2, <2>3, Zenon
  <1>4. \A d \in Controllers : results'[d][t] <= results[d][t]
    BY <1>1, <1>2 DEF ControllerTypeOK
  <1>5. \A d \in Controllers, u \in Tids :
           /\ reply'[d] = TaskAssign(u) => reply[d] = TaskAssign(u)
           /\ reply'[c] # TaskAssign(u)
    BY <1>1, <1>2 DEF WireTypeOK
  <1>6. \A d \in Controllers : d # c \/ s # t => queued'[d][t] <= queued[d][t]
    <2>1. \A d \in Controllers : queued[d][t] \in Nat
      BY <1>1 DEF ControllerTypeOK
    <2>2. QED BY <2>1, <1>3
  <1>7. CASE s # t
    <2>1. NotMoreOutside({}, t)
      BY <1>1, <1>2, <1>4, <1>5, <1>6, <1>7, NotMore
    <2>2. QED BY <2>1 DEF NoneAdded
  <1>8. CASE s = t
    <2>1. Copies(<<"reply", c>>, t) > 0 /\ Copies(<<"reply", c>>, t)' = Copies(<<"reply", c>>, t) - 1
      BY <1>2, <1>5, <1>8 DEF Copies
    <2>2. Copies(<<"queue", c>>, t)' <= Copies(<<"queue", c>>, t) + 1
      <3>1. queued[c][t] \in Nat
        BY <1>1 DEF ControllerTypeOK
      <3>2. QED BY <3>1, <1>3, <1>8 DEF Copies
    <2>3. /\ <<<<"reply", c>>[1], <<"queue", c>>[1]>> \in Shifts
          /\ <<"reply", c>> # <<"queue", c>>
          /\ <<"reply", c>>[2] = <<"queue", c>>[2]
          /\ \A d \in Controllers : <<"queue", d>> = <<"queue", c>> \/ d # c
      BY DEF Shifts, Ways
    <2>4. \A d \in Controllers : <<"queue", d>> \notin {<<"reply", c>>, <<"queue", c>>} =>
             queued'[d][t] <= queued[d][t]
      BY <1>6, <2>3, Zenon
    <2>5. \A d \in Controllers :
             /\ reply'[d] = TaskAssign(t) => reply[d] = TaskAssign(t)
             /\ results'[d][t] <= results[d][t]
             /\ request'[d] = TaskFinished(t) => request[d] = TaskFinished(t)
             /\ <<d, TaskFinished(t)>> \in stale' => <<d, TaskFinished(t)>> \in stale
             /\ \A w \in Workers : worker'[d][w] = t => worker[d][w] = t
      BY <1>2, <1>4, <1>5
    <2>6. NotMoreOutside({<<"reply", c>>, <<"queue", c>>}, t)
      BY <1>1, <2>4, <2>5, NotMore
    <2>7. QED
      BY <2>1, <2>2, <2>3, <2>6, PlaceIn, Zenon DEF Moved
  <1>9. QED BY <1>7, <1>8

(* A connection that is closed may leave its request at the master.        *)
LEMMA CloseEffect ==
    ASSUME TypeInv, TypeInv', NEW t \in Tids, status'[t] = status[t],
           NEW c \in Controllers, CloseConnection(c), UNCHANGED worker,
           \A d \in Controllers : /\ queued'[d][t] <= queued[d][t]
                                  /\ results'[d][t] <= results[d][t]
    PROVE  NoneAdded(t) \/ Moved(t, Shifts)
  <1> USE MessageFacts
  <1>1. ControllerTypeOK /\ ControllerTypeOK' /\ WireTypeOK
    BY DEF TypeInv, TypeOK
  <1>2. /\ request' = [request EXCEPT ![c] = Nothing]
        /\ reply' = [reply EXCEPT ![c] = Nothing]
        /\ \/ stale' = stale
           \/ request[c] # Nothing /\ stale' = stale \union {<<c, request[c]>>}
    BY DEF CloseConnection
  <1>3. \A d \in Controllers :
           /\ reply'[d] = TaskAssign(t) => reply[d] = TaskAssign(t)
           /\ request'[d] = TaskFinished(t) => request[d] = TaskFinished(t)
           /\ request'[c] # TaskFinished(t)
    BY <1>1, <1>2 DEF WireTypeOK
  <1>4. CASE \A d \in Controllers :
                <<d, TaskFinished(t)>> \in stale' => <<d, TaskFinished(t)>> \in stale
    <2>1. NotMoreOutside({}, t)
      BY <1>1, <1>3, <1>4, NotMore
    <2>2. QED BY <2>1 DEF NoneAdded
  <1>5. CASE ~ \A d \in Controllers :
                <<d, TaskFinished(t)>> \in stale' => <<d, TaskFinished(t)>> \in stale
    <2>1. request[c] = TaskFinished(t) /\ stale' = stale \union {<<c, TaskFinished(t)>>}
      BY <1>2, <1>5
    <2>2. \A d \in Controllers : <<"stale", d>> \notin {<<"request", c>>, <<"stale", c>>} =>
             (<<d, TaskFinished(t)>> \in stale' => <<d, TaskFinished(t)>> \in stale)
      BY <2>1
    <2>3. /\ Copies(<<"request", c>>, t) > 0
          /\ Copies(<<"request", c>>, t)' = Copies(<<"request", c>>, t) - 1
      BY <2>1, <1>3 DEF Copies
    <2>4. Copies(<<"stale", c>>, t)' <= Copies(<<"stale", c>>, t) + 1
      BY DEF Copies
    <2>5. /\ <<<<"request", c>>[1], <<"stale", c>>[1]>> \in Shifts
          /\ <<"request", c>> # <<"stale", c>>
          /\ <<"request", c>>[2] = <<"stale", c>>[2]
      BY DEF Shifts, Ways
    <2>6. \A d \in Controllers :
             /\ reply'[d] = TaskAssign(t) => reply[d] = TaskAssign(t)
             /\ queued'[d][t] <= queued[d][t] /\ results'[d][t] <= results[d][t]
             /\ request'[d] = TaskFinished(t) => request[d] = TaskFinished(t)
             /\ \A w \in Workers : worker'[d][w] = t => worker[d][w] = t
      BY <1>3
    <2>7. NotMoreOutside({<<"request", c>>, <<"stale", c>>}, t)
      BY <1>1, <2>2, <2>6, NotMore
    <2>8. QED
      BY <2>3, <2>4, <2>5, <2>7, PlaceIn, Zenon DEF Moved
  <1>6. QED BY <1>4, <1>5

LEMMA TakeEffect ==
    ASSUME TypeInv, TypeInv', NEW t \in Tids, status'[t] = status[t],
           NEW c \in Controllers, NEW w \in Workers, NEW s \in Tids, TakeTask(c, w, s)
    PROVE  NoneAdded(t) \/ Moved(t, Ways)
  <1>1. ControllerTypeOK /\ ControllerTypeOK' /\ WireTypeOK
    BY DEF TypeInv, TypeOK
  <1>2. /\ UNCHANGED <<results, stale, request, reply>>
        /\ worker' = [worker EXCEPT ![c][w] = s]
        /\ queued[c][s] > 0 /\ queued[c][s] \in Nat
        /\ queued' = [queued EXCEPT ![c][s] = queued[c][s] - 1]
    BY <1>1 DEF TakeTask, ControllerTypeOK
  <1>3. /\ queued'[c][s] = queued[c][s] - 1
        /\ \A d \in Controllers, u \in Tids :
              d # c \/ u # s => queued'[d][u] = queued[d][u]
    <2>1. queued \in [Controllers -> [Tids -> Nat]]
      BY <1>1 DEF ControllerTypeOK
    <2> DEFINE less == [queued EXCEPT ![c][s] = queued[c][s] - 1]
    <2>2. /\ less[c][s] = queued[c][s] - 1
          /\ \A d \in Controllers, u \in Tids :
                d # c \/ u # s => less[d][u] = queued[d][u]
      BY <2>1, ExceptAt
    <2>3. queued' = less
      BY <1>2
    <2>4. QED BY <2>2, <2>3, Zenon
  <1>4. /\ worker'[c][w] = s
        /\ \A d \in Controllers, v \in Workers :
              d # c \/ v # w => worker'[d][v] = worker[d][v]
    BY <1>1, <1>2 DEF ControllerTypeOK
  <1>5. \A d \in Controllers : /\ queued'[d][t] <= queued[d][t]
                              /\ results'[d][t] <= results[d][t]
    <2>1. \A d \in Controllers : queued[d][t] \in Nat /\ results[d][t] \in Nat
      BY <1>1 DEF ControllerTypeOK
    <2>2. QED BY <2>1, <1>2, <1>3
  <1>6. CASE s # t
    <2>1. NotMoreOutside({}, t)
      BY <1>1, <1>2, <1>4, <1>5, <1>6, NotMore
    <2>2. QED BY <2>1 DEF NoneAdded
  <1>7. CASE s = t
    <2>1. Copies(<<"queue", c>>, t) > 0 /\ Copies(<<"queue", c>>, t)' = Copies(<<"queue", c>>, t) - 1
      BY <1>2, <1>3, <1>7 DEF Copies
    <2>2. Copies(<<"worker", c, w>>, t)' <= Copies(<<"worker", c, w>>, t) + 1
      BY DEF Copies
    <2>3. /\ <<<<"queue", c>>[1], <<"worker", c, w>>[1]>> \in Ways
          /\ <<"queue", c>> # <<"worker", c, w>>
          /\ <<"queue", c>>[2] = <<"worker", c, w>>[2]
          /\ \A d \in Controllers, v \in Workers :
                <<"worker", d, v>> = <<"worker", c, w>> \/ d # c \/ v # w
      BY DEF Ways
    <2>4. \A d \in Controllers, v \in Workers :
             <<"worker", d, v>> \notin {<<"queue", c>>, <<"worker", c, w>>} =>
                (worker'[d][v] = t => worker[d][v] = t)
      BY <1>4, <2>3, Zenon
    <2>5. \A d \in Controllers :
             /\ reply'[d] = TaskAssign(t) => reply[d] = TaskAssign(t)
             /\ queued'[d][t] <= queued[d][t] /\ results'[d][t] <= results[d][t]
             /\ request'[d] = TaskFinished(t) => request[d] = TaskFinished(t)
             /\ <<d, TaskFinished(t)>> \in stale' => <<d, TaskFinished(t)>> \in stale
      BY <1>2, <1>5
    <2>6. NotMoreOutside({<<"queue", c>>, <<"worker", c, w>>}, t)
      BY <1>1, <2>4, <2>5, NotMore
    <2>7. QED
      BY <2>1, <2>2, <2>3, <2>6, PlaceIn, Zenon DEF Moved
  <1>8. QED BY <1>6, <1>7

LEMMA FinishEffect ==
    ASSUME TypeInv, TypeInv', NEW t \in Tids, status'[t] = status[t],
           NEW c \in Controllers, NEW w \in Workers, NEW s \in Tids, FinishTask(c, w, s)
    PROVE  NoneAdded(t) \/ Moved(t, Ways)
  <1>1. ControllerTypeOK /\ ControllerTypeOK' /\ WireTypeOK
    BY DEF TypeInv, TypeOK
  <1>2. /\ UNCHANGED <<queued, stale, request, reply>>
        /\ worker[c][w] = s
        /\ worker' = [worker EXCEPT ![c][w] = "ready"]
        /\ results' = [results EXCEPT ![c][s] = results[c][s] + 1]
    BY <1>1 DEF FinishTask
  <1>3. /\ results'[c][s] = results[c][s] + 1
        /\ \A d \in Controllers, u \in Tids :
              d # c \/ u # s => results'[d][u] = results[d][u]
    <2>1. results \in [Controllers -> [Tids -> Nat]]
      BY <1>1 DEF ControllerTypeOK
    <2> DEFINE more == [results EXCEPT ![c][s] = results[c][s] + 1]
    <2>2. /\ more[c][s] = results[c][s] + 1
          /\ \A d \in Controllers, u \in Tids :
                d # c \/ u # s => more[d][u] = results[d][u]
      BY <2>1, ExceptAt
    <2>3. results' = more
      BY <1>2
    <2>4. QED BY <2>2, <2>3, Zenon
  <1>4. /\ worker'[c][w] = "ready" /\ t # "ready"
        /\ \A d \in Controllers, v \in Workers :
              d # c \/ v # w => worker'[d][v] = worker[d][v]
    BY <1>1, <1>2 DEF ControllerTypeOK
  <1>5. \A d \in Controllers, v \in Workers : worker'[d][v] = t => worker[d][v] = t
    BY <1>4
  <1>6. /\ \A d \in Controllers : queued'[d][t] <= queued[d][t]
        /\ \A d \in Controllers : (d # c \/ s # t) => results'[d][t] <= results[d][t]
    <2>1. \A d \in Controllers : queued[d][t] \in Nat /\ results[d][t] \in Nat
      BY <1>1 DEF ControllerTypeOK
    <2>2. QED BY <2>1, <1>2, <1>3
  <1>7. CASE s # t
    <2>1. NotMoreOutside({}, t)
      BY <1>1, <1>2, <1>5, <1>6, <1>7, NotMore
    <2>2. QED BY <2>1 DEF NoneAdded
  <1>8. CASE s = t
    <2>1. /\ Copies(<<"worker", c, w>>, t) > 0
          /\ Copies(<<"worker", c, w>>, t)' = Copies(<<"worker", c, w>>, t) - 1
      BY <1>2, <1>4, <1>8 DEF Copies
    <2>2. Copies(<<"results", c>>, t)' <= Copies(<<"results", c>>, t) + 1
      <3>1. results[c][t] \in Nat
        BY <1>1 DEF ControllerTypeOK
      <3>2. QED BY <3>1, <1>3, <1>8 DEF Copies
    <2>3. /\ <<<<"worker", c, w>>[1], <<"results", c>>[1]>> \in Ways
          /\ <<"worker", c, w>> # <<"results", c>>
          /\ <<"worker", c, w>>[2] = <<"results", c>>[2]
          /\ \A d \in Controllers : <<"results", d>> = <<"results", c>> \/ d # c
      BY DEF Shifts, Ways
    <2>4. \A d \in Controllers : <<"results", d>> \notin {<<"worker", c, w>>, <<"results", c>>} =>
             results'[d][t] <= results[d][t]
      BY <1>6, <2>3, Zenon
    <2>5. \A d \in Controllers :
             /\ reply'[d] = TaskAssign(t) => reply[d] = TaskAssign(t)
             /\ queued'[d][t] <= queued[d][t]
             /\ request'[d] = TaskFinished(t) => request[d] = TaskFinished(t)
             /\ <<d, TaskFinished(t)>> \in stale' => <<d, TaskFinished(t)>> \in stale
             /\ \A v \in Workers : worker'[d][v] = t => worker[d][v] = t
      BY <1>2, <1>5, <1>6
    <2>6. NotMoreOutside({<<"worker", c, w>>, <<"results", c>>}, t)
      BY <1>1, <2>4, <2>5, NotMore
    <2>7. QED
      BY <2>1, <2>2, <2>3, <2>6, PlaceIn, Zenon DEF Moved
  <1>9. QED BY <1>7, <1>8

LEMMA LocalEffect ==
    ASSUME TypeInv, TypeInv', NEW t \in Tids, UNCHANGED status, NEW c \in Controllers,
           \/ ControllerStep(c) \/ TimesOut(c) \/ CrashController(c)
           \/ SignalController(c) \/ RestartController(c)
           \/ \E w \in Workers : WorkerStops(c, w) \/ WorkerDies(c, w)
    PROVE  NoneAdded(t) \/ Moved(t, Shifts)
  <1> USE MessageFacts
  <1>1. ControllerTypeOK /\ ControllerTypeOK' /\ WireTypeOK
    BY DEF TypeInv, TypeOK
  <1>2. ASSUME \A d \in Controllers :
                  /\ queued'[d] = queued[d] \/ queued'[d] = NoTasks
                  /\ results'[d] = results[d] \/ results'[d] = NoTasks
        PROVE  \A d \in Controllers : /\ queued'[d][t] <= queued[d][t]
                                      /\ results'[d][t] <= results[d][t]
    <2>1. \A d \in Controllers : queued[d][t] \in Nat /\ results[d][t] \in Nat
      BY <1>1 DEF ControllerTypeOK
    <2>2. NoTasks[t] = 0
      BY DEF NoTasks
    <2>3. QED BY <2>1, <2>2, <1>2
  (* No request is sent, no answer is taken.                               *)
  <1>3. ASSUME UNCHANGED <<queued, results>>,
               \A d \in Controllers :
                  /\ reply'[d] = TaskAssign(t) => reply[d] = TaskAssign(t)
                  /\ request'[d] = TaskFinished(t) => request[d] = TaskFinished(t)
                  /\ \A w \in Workers : worker'[d][w] = t => worker[d][w] = t,
               UNCHANGED stale
        PROVE  NoneAdded(t)
    <2>1. \A d \in Controllers : /\ queued'[d][t] <= queued[d][t]
                                /\ results'[d][t] <= results[d][t]
      BY <1>2, <1>3
    <2>2. NotMoreOutside({}, t)
      BY <1>1, <1>3, <2>1, NotMore
    <2>3. QED BY <2>2 DEF NoneAdded
  <1>4. ASSUME RequestTask(c) \/ SendHeartbeat(c) PROVE NoneAdded(t)
    BY <1>1, <1>3, <1>4 DEF RequestTask, SendHeartbeat, SendAndWait, Send, WireTypeOK
  <1>5. ASSUME \/ NoWorkerAlive(c) \/ BeginShutdown(c) \/ FirstTimeout(c)
               \/ SignalController(c)
        PROVE  NoneAdded(t)
    BY <1>3, <1>5 DEF NoWorkerAlive, BeginShutdown, FirstTimeout, SignalController
  <1>6. ASSUME ReceiveCommand(c) \/ ReceiveExit(c) PROVE NoneAdded(t)
    BY <1>1, <1>3, <1>6 DEF ReceiveCommand, ReceiveExit, Received, WireTypeOK
  <1>7. ASSUME RetriesExhausted(c) \/ SecondTimeout(c) \/ CrashController(c)
        PROVE  NoneAdded(t) \/ Moved(t, Shifts)
    BY <1>2, <1>7, CloseEffect DEF RetriesExhausted, SecondTimeout, CrashController
  <1>8. ASSUME ControllerExits(c) PROVE NoneAdded(t) \/ Moved(t, Shifts)
    <2>1. \A d \in Controllers :
             /\ queued'[d] = queued[d] \/ queued'[d] = NoTasks
             /\ results'[d] = results[d] \/ results'[d] = NoTasks
      BY <1>1, <1>8 DEF ControllerExits, ControllerTypeOK
    <2>2. CloseConnection(c) /\ UNCHANGED worker
      BY <1>8 DEF ControllerExits
    <2>3. QED BY <1>2, <2>1, <2>2, CloseEffect
  <1>9. ASSUME RestartController(c) PROVE NoneAdded(t)
    <2>1. \A d \in Controllers, w \in Workers : worker'[d][w] = t => worker[d][w] = t
      BY <1>1, <1>9 DEF RestartController, AllReady, ControllerTypeOK
    <2>2. \A d \in Controllers :
             /\ queued'[d] = queued[d] \/ queued'[d] = NoTasks
             /\ results'[d] = results[d] \/ results'[d] = NoTasks
      BY <1>1, <1>9 DEF RestartController, ControllerTypeOK
    <2>3. UNCHANGED <<request, stale, reply>>
      BY <1>9 DEF RestartController
    <2>4. NotMoreOutside({}, t)
      BY <1>1, <1>2, <2>1, <2>2, <2>3, NotMore
    <2>5. QED BY <2>4 DEF NoneAdded
  <1>10. ASSUME NEW w \in Workers, WorkerStops(c, w) \/ WorkerDies(c, w)
         PROVE  NoneAdded(t)
    <2>1. \A d \in Controllers, v \in Workers : worker'[d][v] = t => worker[d][v] = t
      <3>1. worker' = [worker EXCEPT ![c][w] = "dead"]
        BY <1>10 DEF WorkerStops, WorkerDies
      <3>2. worker \in [Controllers -> [Workers -> Tids \union {"ready", "dead"}]]
        BY <1>1 DEF ControllerTypeOK
      <3>3. t # "dead"
        BY WorkersAssumption
      <3>4. QED BY <3>1, <3>2, <3>3
    <2>2. UNCHANGED <<queued, results, request, stale, reply>>
      BY <1>10 DEF WorkerStops, WorkerDies
    <2>3. QED BY <2>1, <2>2, <1>3
  <1>11. QED
    BY <1>4, <1>5, <1>6, <1>7, <1>8, <1>9, <1>10,
       ReportEffect, ReceiveEffect
       DEF ControllerStep, TimesOut

(* Four kinds of steps take a task further.                                *)
Dispatching ==
    /\ \E c \in Controllers, s \in Tids : AssignTask(c, s) \/ FinishedByAssignee(c, s)
    /\ UNCHANGED controllerVars
Executing ==
    /\ \E c \in Controllers, w \in Workers, s \in Tids :
          TakeTask(c, w, s) \/ FinishTask(c, w, s)
    /\ UNCHANGED <<masterVars, genVars>>

LEMMA StepRest ==
    ASSUME "restart" \notin Faults, TypeInv, TypeInv', [Next]_vars, NEW t \in Tids
    PROVE  NoneAdded(t) \/ Moved(t, Shifts) \/ Dispatching \/ Executing
  <1>1. ASSUME UNCHANGED <<status, request, stale, reply>>, UNCHANGED controllerVars
        PROVE  NoneAdded(t)
    <2>1. ControllerTypeOK /\ ControllerTypeOK'
      BY DEF TypeInv, TypeOK
    <2>2. \A d \in Controllers : /\ queued'[d][t] <= queued[d][t]
                                /\ results'[d][t] <= results[d][t]
      BY <2>1, <1>1 DEF ControllerTypeOK
    <2>3. NotMoreOutside({}, t)
      BY <1>1, <2>1, <2>2, NotMore
    <2>4. QED BY <1>1, <2>3 DEF NoneAdded
  <1>2. CASE MasterStep
    BY <1>2, MasterRest DEF MasterStep, Dispatching
  <1>3. CASE GeneratorStep
    BY <1>1, <1>3 DEF GeneratorStep
  <1>4. CASE (MasterSignal \/ RestartMaster) /\ UNCHANGED controllerVars
    BY <1>1, <1>4 DEF MasterSignal, RestartMaster
  <1>5. ASSUME NEW c \in Controllers, UNCHANGED <<masterVars, genVars>>,
               SignalController(c) \/ RestartController(c)
        PROVE  NoneAdded(t) \/ Moved(t, Shifts)
    BY <1>5, LocalEffect
  <1>6. ASSUME NEW c \in Controllers, ExpireStep(c) PROVE NoneAdded(t)
    BY <1>1, <1>6 DEF ExpireStep, ExpireController
  <1>7. ASSUME NEW c \in Controllers, LocalStep(c)
        PROVE  NoneAdded(t) \/ Moved(t, Shifts) \/ Executing
    BY <1>7, LocalEffect DEF LocalStep, WorkerStep, Executing
  <1>8. CASE UNCHANGED vars
    BY <1>1, <1>8 DEF vars
  <1>9. QED
    BY <1>2, <1>3, <1>4, <1>5, <1>6, <1>7, <1>8 DEF Next, OperatorStep

(* As long as the master isn't started again, these are all the things a   *)
(* step can do to a task.                                                  *)
LEMMA StepEffect ==
    ASSUME "restart" \notin Faults, TypeInv, TypeInv', [Next]_vars
    PROVE  Effect
  <1> SUFFICES ASSUME NEW t \in Tids
               PROVE  NoneAdded(t) \/ Moved(t, Ways) \/ Handed(t) \/ Reported(t)
    BY DEF Effect
  <1>1. Moved(t, Shifts) => Moved(t, Ways)
    BY Zenon DEF Moved, Ways
  <1>2. CASE Dispatching
    BY <1>2, MasterEffect DEF Dispatching
  <1>3. CASE Executing
    BY <1>3, TakeEffect, FinishEffect DEF Executing
  <1>4. QED BY <1>1, <1>2, <1>3, StepRest

-----------------------------------------------------------------------------
(***************************************************************************)
(* Safety.                                                                 *)
(***************************************************************************)
LEMMA CopiesNatNext ==
    ASSUME TypeInv, TypeInv', NEW p \in Places, NEW t \in Tids
    PROVE  Copies(p, t) \in Nat /\ Copies(p, t)' \in Nat
  <1>1. ControllerTypeOK /\ ControllerTypeOK'
    BY DEF TypeInv, TypeOK
  <1>2. Copies(p, t) \in Nat
    BY <1>1, CopiesNat
  <1>3. Copies(p, t)' \in Nat
    <2>1. ASSUME NEW c \in Controllers PROVE queued'[c][t] \in Nat /\ results'[c][t] \in Nat
      BY <1>1 DEF ControllerTypeOK
    <2>2. ASSUME NEW c \in Controllers,
                 p \in {<<"reply", c>>, <<"queue", c>>, <<"results", c>>,
                        <<"request", c>>, <<"stale", c>>}
          PROVE  Copies(p, t)' \in Nat
      BY <2>1, <2>2 DEF Copies
    <2>3. ASSUME NEW c \in Controllers, NEW w \in Workers, p = <<"worker", c, w>>
          PROVE  Copies(p, t)' \in Nat
      BY <2>3 DEF Copies
    <2>4. QED BY <2>2, <2>3, PlaceCases
  <1>4. QED BY <1>2, <1>3

LEMMA HoldsOutside ==
    ASSUME TypeInv, TypeInv', NEW X, NEW t \in Tids, NotMoreOutside(X, t),
           NEW r \in Places, r \notin X
    PROVE  /\ Copies(r, t)' <= Copies(r, t)
           /\ Copies(r, t)' > 0 => Copies(r, t) > 0
  <1>1. Copies(r, t)' <= Copies(r, t)
    BY Zenon DEF NotMoreOutside
  <1>2. Copies(r, t) \in Nat /\ Copies(r, t)' \in Nat
    BY CopiesNatNext, Zenon
  <1>3. QED BY <1>1, <1>2

(* A step does not make a task the master doesn't know appear anywhere.    *)
LEMMA KnownTasks ==
    ASSUME TypeInv, TypeInv', Effect, NeverInconsistent,
           NEW p \in Places, NEW t \in Tids, Copies(p, t)' > 0
    PROVE  status'[t].state # "unknown"
  <1>1. \A r \in Places : Copies(r, t) > 0 => status[t].state # "unknown"
    BY DEF NeverInconsistent, Holds
  <1>2. CASE NoneAdded(t)
    <2>1. Copies(p, t) > 0
      BY <1>2, HoldsOutside DEF NoneAdded
    <2>2. QED BY <2>1, <1>1, <1>2 DEF NoneAdded
  <1>3. CASE Moved(t, Ways)
    BY <1>1, <1>3 DEF Moved
  <1>4. CASE Handed(t)
    BY <1>4 DEF Handed, Assigned
  <1>5. CASE Reported(t)
    BY <1>5 DEF Reported
  <1>6. QED BY <1>2, <1>3, <1>4, <1>5 DEF Effect

(* The exception at the unknown task id needs an unknown task on its way.  *)
LEMMA NeverUnknown ==
    ASSUME NeverInconsistent, NEW c \in Controllers, NEW t \in Tids
    PROVE  ~FinishedUnknown(c, t)
  <1> SUFFICES ASSUME FinishedUnknown(c, t) PROVE FALSE
    OBVIOUS
  <1>1. request[c] = TaskFinished(t) \/ <<c, TaskFinished(t)>> \in stale
    BY DEF FinishedUnknown, Serving, Arrived
  <1>2. Copies(<<"request", c>>, t) > 0 \/ Copies(<<"stale", c>>, t) > 0
    BY <1>1 DEF Copies
  <1>3. status[t].state # "unknown"
    BY <1>2, PlaceIn DEF NeverInconsistent, Holds
  <1>4. QED BY <1>3 DEF FinishedUnknown

LEMMA NotReplying ==
    ASSUME TypeInv, NeverInconsistent, [Next]_vars
    PROVE  ~replying'
  <1>1. ~replying
    BY DEF NeverInconsistent
  <1>2. ASSUME NEW c \in Controllers, NEW t \in Tids, FinishedUnknown(c, t) PROVE FALSE
    BY <1>2, NeverUnknown
  <1>3. CASE MasterStep
    BY <1>1, <1>2, <1>3
       DEF MasterStep, MasterNext, TaskRequestNoTask, TaskRequestGeneratorGone,
           AssignTask, IgnoreTask, FinishedByAssignee, FinishedByOther,
           HandleHeartbeat, HandleWhileStopping, PollTimeoutAllDown, CloseSocket
  <1>4. CASE GeneratorStep
    BY <1>1, <1>4 DEF GeneratorStep
  <1>5. CASE OperatorStep
    BY <1>1, <1>5 DEF OperatorStep, MasterSignal, RestartMaster
  <1>6. ASSUME NEW c \in Controllers, ExpireStep(c) \/ LocalStep(c) PROVE ~replying'
    BY <1>1, <1>6 DEF ExpireStep, ExpireController, LocalStep
  <1>7. CASE UNCHANGED vars
    BY <1>1, <1>7 DEF vars
  <1>8. QED BY <1>3, <1>4, <1>5, <1>6, <1>7 DEF Next

LEMMA InitHolds == ASSUME Init, NEW p \in Places, NEW t \in Tids PROVE Copies(p, t) = 0
  <1>1. /\ \A c \in Controllers : /\ reply[c] = Nothing /\ request[c] = Nothing
                                  /\ queued[c][t] = 0 /\ results[c][t] = 0
        /\ \A c \in Controllers, w \in Workers : worker[c][w] # t
        /\ stale = {}
    BY DEF Init, WireInit, ControllerInit, NoTasks, AllReady
  <1>2. ASSUME NEW c \in Controllers,
               p \in {<<"reply", c>>, <<"queue", c>>, <<"results", c>>,
                      <<"request", c>>, <<"stale", c>>}
        PROVE  Copies(p, t) = 0
    BY <1>1, <1>2, MessageFacts DEF Copies
  <1>3. ASSUME NEW c \in Controllers, NEW w \in Workers, p = <<"worker", c, w>>
        PROVE  Copies(p, t) = 0
    BY <1>1, <1>3 DEF Copies
  <1>4. QED BY <1>2, <1>3, PlaceCases

LEMMA ConsistentStep ==
    ASSUME "restart" \notin Faults
    PROVE  /\ Init => NeverInconsistent
           /\ TypeInv /\ NeverInconsistent /\ [Next]_vars => NeverInconsistent'
  <1>1. Init => NeverInconsistent
    <2>1. Init => ~replying
      BY DEF Init, MasterInit
    <2>2. ASSUME Init, NEW p \in Places, NEW t \in Tids PROVE ~Holds(p, t)
      BY <2>2, InitHolds DEF Holds
    <2>3. QED BY <2>1, <2>2 DEF NeverInconsistent
  <1>2. TypeInv /\ NeverInconsistent /\ [Next]_vars => NeverInconsistent'
    <2> SUFFICES ASSUME TypeInv, NeverInconsistent, [Next]_vars
                 PROVE  NeverInconsistent'
      OBVIOUS
    <2>1. TypeInv'
      BY NextType
    <2>2. Effect
      BY <2>1, StepEffect
    <2>3. ~replying'
      BY NotReplying
    <2>4. ASSUME NEW p \in Places, NEW t \in Tids, Copies(p, t)' > 0
          PROVE  status'[t].state # "unknown"
      BY <2>1, <2>2, <2>4, KnownTasks
    <2>5. QED BY <2>3, <2>4 DEF NeverInconsistent, Holds, Places
  <1>3. QED BY <1>1, <1>2

(* Unless the master is started again, no TASK_FINISHED ever carries a     *)
(* task id the master has not assigned: the loop's inconsistency exception,*)
(* which leaves the REP socket unable to receive, can't be raised.  This   *)
(* holds with redispatch, timeouts, lost messages and dying workers.       *)
THEOREM Consistent ==
    ASSUME "restart" \notin Faults
    PROVE  Spec => []NeverInconsistent
  BY ConsistentStep, InitType, NextType, PTL DEF Spec

(* No task is dispatched while it is assigned.                             *)
NoRedispatch == \A t \in offered : ~ResendDue(t)

LEMMA NeverResent == "resend" \notin Faults => NoRedispatch
  BY DEF NoRedispatch, ResendDue

LEMMA ExclusiveStep ==
    ASSUME TypeInv, TypeInv', Effect, ExclusiveAssignment, NoRedispatch,
           NEW t \in Tids, NEW p \in Places, Copies(p, t)' > 0,
           NEW q \in Places, Copies(q, t)' > 0
    PROVE  /\ Copies(p, t)' = 1
           /\ status'[t] = Assigned(p[2])
           /\ q = p
  <1>1. \A r \in Places :
           Copies(r, t) > 0 => /\ Copies(r, t) = 1
                               /\ status[t] = Assigned(r[2])
                               /\ \A u \in Places : Copies(u, t) > 0 => u = r
    BY DEF ExclusiveAssignment, Holds
  <1>2. /\ Copies(p, t) \in Nat /\ Copies(p, t)' \in Nat
        /\ Copies(q, t) \in Nat /\ Copies(q, t)' \in Nat
    BY CopiesNatNext, Zenon
  <1>3. CASE NoneAdded(t)
    <2>1. /\ Copies(p, t)' <= Copies(p, t) /\ Copies(p, t) > 0
          /\ Copies(q, t) > 0
      BY <1>3, HoldsOutside DEF NoneAdded
    <2>2. Copies(p, t) = 1 /\ status[t] = Assigned(p[2]) /\ q = p
      BY <1>1, <2>1, Zenon
    <2>3. Copies(p, t)' = 1
      BY <1>2, <2>1, <2>2
    <2>4. QED BY <1>3, <2>2, <2>3, Zenon DEF NoneAdded
  <1>4. CASE Moved(t, Ways)
    <2>1. PICK r \in Places, u \in Places :
             /\ r # u /\ r[2] = u[2]
             /\ Copies(r, t) > 0 /\ Copies(r, t)' = Copies(r, t) - 1
             /\ Copies(u, t)' <= Copies(u, t) + 1
             /\ NotMoreOutside({r, u}, t)
      BY <1>4, Zenon DEF Moved
    <2>2. Copies(r, t) = 1 /\ status[t] = Assigned(r[2]) /\ ~(Copies(u, t) > 0)
      BY <1>1, <2>1, Zenon
    <2>3. ~(Copies(r, t)' > 0)
      BY <2>1, <2>2
    <2>4. ASSUME NEW v \in Places, Copies(v, t)' > 0 PROVE v = u
      <3>1. v # r
        BY <2>3, <2>4, Zenon
      <3>2. ASSUME v # u PROVE FALSE
        <4>1. Copies(v, t) > 0
          BY <2>1, <2>4, <3>1, <3>2, HoldsOutside
        <4>2. QED BY <4>1, <3>1, <2>1, <1>1, Zenon
      <3>3. QED BY <3>2
    <2>5. p = u /\ q = u
      BY <2>4, Zenon
    <2>6. Copies(p, t)' = 1
      <3>1. Copies(p, t)' <= Copies(p, t) + 1 /\ ~(Copies(p, t) > 0)
        BY <2>1, <2>2, <2>5, Zenon
      <3>2. QED BY <3>1, <1>2
    <2>7. QED BY <1>4, <2>1, <2>2, <2>5, <2>6 DEF Moved
  <1>5. CASE Handed(t)
    <2>1. PICK c \in Controllers, u \in Places :
             /\ status[t].state # "assigned"
             /\ status'[t] = Assigned(c) /\ u[2] = c
             /\ Copies(u, t)' <= Copies(u, t) + 1
             /\ NotMoreOutside({u}, t)
      BY <1>5, Zenon DEF Handed, NoRedispatch
    <2>2. \A v \in Places : ~(Copies(v, t) > 0)
      <3>1. \A d : Assigned(d).state = "assigned"
        BY DEF Assigned
      <3>2. QED BY <1>1, <2>1, <3>1, Zenon
    <2>3. ASSUME NEW v \in Places, Copies(v, t)' > 0, v # u PROVE FALSE
      <3>1. Copies(v, t) > 0
        BY <2>1, <2>3, HoldsOutside
      <3>2. QED BY <3>1, <2>2, Zenon
    <2>4. p = u /\ q = u
      BY <2>3, Zenon
    <2>5. Copies(p, t)' = 1
      <3>1. Copies(p, t)' <= Copies(p, t) + 1 /\ ~(Copies(p, t) > 0)
        BY <2>1, <2>2, <2>4, Zenon
      <3>2. QED BY <3>1, <1>2
    <2>6. QED BY <2>1, <2>4, <2>5
  <1>6. CASE Reported(t)
    <2>1. PICK r \in Places : /\ Copies(r, t) > 0 /\ Copies(r, t)' = Copies(r, t) - 1
                            /\ NotMoreOutside({r}, t)
      BY <1>6, Zenon DEF Reported
    <2>2. Copies(r, t) = 1
      BY <1>1, <2>1, Zenon
    <2>3. ~(Copies(r, t)' > 0)
      BY <2>1, <2>2
    <2>4. p # r
      BY <2>3, Zenon
    <2>5. Copies(p, t) > 0
      BY <2>1, <2>4, HoldsOutside
    <2>6. QED BY <1>1, <2>1, <2>4, <2>5, Zenon
  <1>7. QED BY <1>3, <1>4, <1>5, <1>6 DEF Effect

LEMMA ExclusiveKept ==
    ASSUME "restart" \notin Faults
    PROVE  /\ Init => ExclusiveAssignment
           /\ TypeInv /\ NoRedispatch /\ ExclusiveAssignment /\ [Next]_vars
                 => ExclusiveAssignment'
  <1>1. Init => ExclusiveAssignment
    <2>1. ASSUME Init, NEW p \in Places, NEW t \in Tids PROVE ~Holds(p, t)
      BY <2>1, InitHolds DEF Holds
    <2>2. QED BY <2>1 DEF ExclusiveAssignment
  <1>2. TypeInv /\ NoRedispatch /\ ExclusiveAssignment /\ [Next]_vars
           => ExclusiveAssignment'
    <2> SUFFICES ASSUME TypeInv, NoRedispatch, ExclusiveAssignment, [Next]_vars
                 PROVE  ExclusiveAssignment'
      OBVIOUS
    <2>1. TypeInv'
      BY NextType
    <2>2. Effect
      BY <2>1, StepEffect
    <2>3. ASSUME NEW t \in Tids, NEW p \in Places, Copies(p, t)' > 0,
                 NEW q \in Places, Copies(q, t)' > 0
          PROVE  Copies(p, t)' = 1 /\ status'[t] = Assigned(p[2]) /\ q = p
      BY <2>1, <2>2, <2>3, ExclusiveStep
    <2>4. QED BY <2>3 DEF ExclusiveAssignment, Holds, Places, Assigned
  <1>3. QED BY <1>1, <1>2

(* Without redispatch, and unless the master is started again, at most one *)
(* worker of one controller has a task, whatever connections, answers,     *)
(* workers and controllers are lost; and while any trace of a dispatch is  *)
(* left the master has the task as assigned to the controller it is at.    *)
THEOREM Exclusive ==
    ASSUME "restart" \notin Faults, "resend" \notin Faults
    PROVE  Spec => []ExclusiveAssignment
  <1>1. TypeInv /\ ExclusiveAssignment /\ [Next]_vars => ExclusiveAssignment'
    BY ExclusiveKept, NeverResent
  <1>2. Init => ExclusiveAssignment
    BY ExclusiveKept
  <1>3. QED BY <1>1, <1>2, InitType, NextType, PTL DEF Spec

-----------------------------------------------------------------------------
(***************************************************************************)
(* Requests and answers take turns.                                        *)
(***************************************************************************)
LockStep ==
    \A c \in Controllers :
       /\ reply[c] # Nothing => request[c] = Nothing
       /\ ~Waiting(c) => request[c] = Nothing /\ reply[c] = Nothing

LEMMA AnswerLockStep ==
    ASSUME TypeInv, LockStep, NEW c \in Controllers, NEW m, NEW r, Arrived(c, m),
           Answer(c, m, r), UNCHANGED pc
    PROVE  LockStep'
  BY DEF LockStep, TypeInv, TypeOK, WireTypeOK, Arrived, Answer, Waiting

LEMMA MasterLockStep ==
    ASSUME TypeInv, LockStep, MasterNext, UNCHANGED controllerVars
    PROVE  LockStep'
  <1>1. ASSUME NEW c \in Controllers,
               \/ TaskRequestNoTask(c) \/ TaskRequestGeneratorGone(c)
               \/ HandleHeartbeat(c)
               \/ \E t \in Tids : AssignTask(c, t) \/ IgnoreTask(c, t)
        PROVE  LockStep'
    BY <1>1, AnswerLockStep
       DEF TaskRequestNoTask, TaskRequestGeneratorGone, HandleHeartbeat, AssignTask,
           IgnoreTask, Distributing, Serving
  <1>2. ASSUME NEW c \in Controllers,
               \/ \E t \in Tids : FinishedByAssignee(c, t) \/ FinishedByOther(c, t)
               \/ \E m \in Requests : HandleWhileStopping(c, m)
        PROVE  LockStep'
    BY <1>2, AnswerLockStep
       DEF FinishedByAssignee, FinishedByOther, HandleWhileStopping, Distributing, Serving
  <1>3. ASSUME NEW c \in Controllers, NEW t \in Tids, FinishedUnknown(c, t)
        PROVE  LockStep'
    BY <1>3 DEF FinishedUnknown, Swallow, LockStep, TypeInv, TypeOK, WireTypeOK, Waiting
  <1>4. CASE PollTimeoutAllDown
    BY <1>4 DEF PollTimeoutAllDown, LockStep, Waiting
  <1>5. CASE CloseSocket
    BY <1>5 DEF CloseSocket, LockStep, Waiting
  <1>6. QED BY <1>1, <1>2, <1>3, <1>4, <1>5 DEF MasterNext

LEMMA LocalLockStep ==
    ASSUME TypeInv, LockStep, NEW c \in Controllers,
           \/ ControllerStep(c) \/ TimesOut(c) \/ CrashController(c)
           \/ SignalController(c) \/ RestartController(c)
           \/ \E w \in Workers : WorkerStep(c, w) \/ WorkerDies(c, w)
    PROVE  LockStep'
  <1> USE DEF LockStep, TypeInv, TypeOK, WireTypeOK, ControllerTypeOK, Waiting
  <1>1. ASSUME UNCHANGED <<pc, request, reply>> PROVE LockStep'
    BY <1>1
  <1>2. ASSUME NEW m, Looping(c), SendAndWait(c, m) PROVE LockStep'
    BY <1>2 DEF Looping, SendAndWait, Send
  <1>3. ASSUME \/ \E t \in Tids : ReportResult(c, t)
               \/ RequestTask(c) \/ SendHeartbeat(c)
        PROVE  LockStep'
    BY <1>2, <1>3 DEF ReportResult, RequestTask, SendHeartbeat
  <1>4. ASSUME Received(c) PROVE LockStep'
    BY <1>4 DEF Received
  <1>5. ASSUME ReceiveCommand(c) \/ ReceiveExit(c) \/ \E t \in Tids : ReceiveTask(c, t)
        PROVE  LockStep'
    BY <1>4, <1>5 DEF ReceiveCommand, ReceiveExit, ReceiveTask
  <1>6. ASSUME CloseConnection(c), NEW to, pc' = [pc EXCEPT ![c] = to] PROVE LockStep'
    BY <1>6 DEF CloseConnection
  <1>7. ASSUME \/ RetriesExhausted(c) \/ SecondTimeout(c) \/ ControllerExits(c)
               \/ CrashController(c)
        PROVE  LockStep'
    BY <1>6, <1>7 DEF RetriesExhausted, SecondTimeout, ControllerExits, CrashController
  <1>8. ASSUME FirstTimeout(c) \/ BeginShutdown(c) \/ RestartController(c)
        PROVE  LockStep'
    BY <1>8 DEF FirstTimeout, BeginShutdown, RestartController
  <1>9. ASSUME NoWorkerAlive(c) \/ SignalController(c) PROVE LockStep'
    BY <1>1, <1>9 DEF NoWorkerAlive, SignalController
  <1>10. ASSUME NEW w \in Workers, WorkerStep(c, w) \/ WorkerDies(c, w) PROVE LockStep'
    BY <1>1, <1>10 DEF WorkerStep, WorkerDies, WorkerStops, TakeTask, FinishTask
  <1>11. QED
    BY <1>3, <1>5, <1>7, <1>8, <1>9, <1>10 DEF ControllerStep, TimesOut

LEMMA LockStepHolds ==
    /\ Init => LockStep
    /\ TypeInv /\ LockStep /\ [Next]_vars => LockStep'
  <1>1. Init => LockStep
    BY DEF Init, WireInit, LockStep
  <1> SUFFICES ASSUME TypeInv, LockStep, [Next]_vars PROVE LockStep'
    BY <1>1
  <1>2. ASSUME UNCHANGED <<pc, request, reply>> PROVE LockStep'
    BY <1>2 DEF LockStep, Waiting
  <1>3. CASE MasterStep
    BY <1>3, MasterLockStep DEF MasterStep
  <1>4. CASE GeneratorStep
    BY <1>2, <1>4 DEF GeneratorStep
  <1>5. CASE RestartMaster /\ UNCHANGED controllerVars
    BY <1>5 DEF RestartMaster, LockStep, Waiting
  <1>6. CASE MasterSignal /\ UNCHANGED controllerVars
    BY <1>2, <1>6 DEF MasterSignal
  <1>7. ASSUME NEW c \in Controllers, SignalController(c) \/ RestartController(c)
        PROVE  LockStep'
    BY <1>7, LocalLockStep
  <1>8. ASSUME NEW c \in Controllers, ExpireStep(c) PROVE LockStep'
    BY <1>2, <1>8 DEF ExpireStep, ExpireController
  <1>9. ASSUME NEW c \in Controllers, LocalStep(c) PROVE LockStep'
    BY <1>9, LocalLockStep DEF LocalStep
  <1>10. CASE UNCHANGED vars
    BY <1>2, <1>10 DEF vars
  <1>11. QED
    BY <1>3, <1>4, <1>5, <1>6, <1>7, <1>8, <1>9, <1>10 DEF Next, OperatorStep

-----------------------------------------------------------------------------
(***************************************************************************)
(* The life cycle.  How far a task is follows from the place it is at.     *)
(***************************************************************************)
Assigning == {"reply", "queue"}
Reporting == {"results", "request", "stale"}

IsAt(t, K) == \E p \in Places : p[1] \in K /\ Copies(p, t) > 0

LEMMA HoldsAt ==
    ASSUME NEW c, NEW t
    PROVE  /\ Copies(<<"reply", c>>, t) > 0 <=> reply[c] = TaskAssign(t)
           /\ Copies(<<"queue", c>>, t) > 0 <=> queued[c][t] > 0
           /\ Copies(<<"results", c>>, t) > 0 <=> results[c][t] > 0
           /\ Copies(<<"request", c>>, t) > 0 <=> request[c] = TaskFinished(t)
           /\ Copies(<<"stale", c>>, t) > 0 <=> <<c, TaskFinished(t)>> \in stale
           /\ \A w \in Workers : Copies(<<"worker", c, w>>, t) > 0 <=> worker[c][w] = t
  BY CopiesAt

LEMMA HoldsAtNext ==
    ASSUME NEW c, NEW t
    PROVE  /\ Copies(<<"reply", c>>, t)' > 0 <=> reply'[c] = TaskAssign(t)
           /\ Copies(<<"queue", c>>, t)' > 0 <=> queued'[c][t] > 0
           /\ Copies(<<"results", c>>, t)' > 0 <=> results'[c][t] > 0
           /\ Copies(<<"request", c>>, t)' > 0 <=> request'[c] = TaskFinished(t)
           /\ Copies(<<"stale", c>>, t)' > 0 <=> <<c, TaskFinished(t)>> \in stale'
           /\ \A w \in Workers : Copies(<<"worker", c, w>>, t)' > 0 <=> worker'[c][w] = t
  BY CopiesAtNext

LEMMA IsAtOne ==
    ASSUME NEW t, NEW K
    PROVE  IsAt(t, K)
             <=> \/ \E c \in Controllers :
                       \/ "reply" \in K /\ Copies(<<"reply", c>>, t) > 0
                       \/ "queue" \in K /\ Copies(<<"queue", c>>, t) > 0
                       \/ "results" \in K /\ Copies(<<"results", c>>, t) > 0
                       \/ "request" \in K /\ Copies(<<"request", c>>, t) > 0
                       \/ "stale" \in K /\ Copies(<<"stale", c>>, t) > 0
                 \/ \E c \in Controllers, w \in Workers :
                       "worker" \in K /\ Copies(<<"worker", c, w>>, t) > 0
  <1>1. /\ \A c : /\ <<"reply", c>>[1] = "reply" /\ <<"queue", c>>[1] = "queue"
                  /\ <<"results", c>>[1] = "results" /\ <<"request", c>>[1] = "request"
                  /\ <<"stale", c>>[1] = "stale"
        /\ \A c, w : <<"worker", c, w>>[1] = "worker"
    OBVIOUS
  <1>2. ASSUME IsAt(t, K)
        PROVE  \/ \E c \in Controllers :
                     \/ "reply" \in K /\ Copies(<<"reply", c>>, t) > 0
                     \/ "queue" \in K /\ Copies(<<"queue", c>>, t) > 0
                     \/ "results" \in K /\ Copies(<<"results", c>>, t) > 0
                     \/ "request" \in K /\ Copies(<<"request", c>>, t) > 0
                     \/ "stale" \in K /\ Copies(<<"stale", c>>, t) > 0
               \/ \E c \in Controllers, w \in Workers :
                     "worker" \in K /\ Copies(<<"worker", c, w>>, t) > 0
    <2>1. PICK p \in Places : p[1] \in K /\ Copies(p, t) > 0
      BY <1>2 DEF IsAt
    <2>2. ASSUME NEW c \in Controllers, NEW w \in Workers, p = <<"worker", c, w>>
          PROVE  "worker" \in K /\ Copies(<<"worker", c, w>>, t) > 0
      BY <2>1, <2>2
    <2>3. ASSUME NEW c \in Controllers,
                 p \in {<<"reply", c>>, <<"queue", c>>, <<"results", c>>,
                        <<"request", c>>, <<"stale", c>>}
          PROVE  \/ "reply" \in K /\ Copies(<<"reply", c>>, t) > 0
                 \/ "queue" \in K /\ Copies(<<"queue", c>>, t) > 0
                 \/ "results" \in K /\ Copies(<<"results", c>>, t) > 0
                 \/ "request" \in K /\ Copies(<<"request", c>>, t) > 0
                 \/ "stale" \in K /\ Copies(<<"stale", c>>, t) > 0
      BY <1>1, <2>1, <2>3
    <2>4. CASE \E c \in Controllers, w \in Workers : p = <<"worker", c, w>>
      BY <2>2, <2>4, Zenon
    <2>5. CASE \E c \in Controllers :
                  p \in {<<"reply", c>>, <<"queue", c>>, <<"results", c>>,
                        <<"request", c>>, <<"stale", c>>}
      <3>1. PICK c \in Controllers :
               p \in {<<"reply", c>>, <<"queue", c>>, <<"results", c>>,
                     <<"request", c>>, <<"stale", c>>}
        BY <2>5, Zenon
      <3>2. QED BY <2>3, <3>1, Zenon
    <2>6. QED BY <2>4, <2>5, PlaceCases, Zenon
  <1>3. QED BY <1>1, <1>2, PlaceIn, Zenon DEF IsAt

LEMMA IsAtFacts ==
    ASSUME NEW t
    PROVE  /\ IsAt(t, Assigning)
                <=> \E c \in Controllers : reply[c] = TaskAssign(t) \/ queued[c][t] > 0
           /\ IsAt(t, {"worker"})
                <=> \E c \in Controllers, w \in Workers : worker[c][w] = t
           /\ IsAt(t, Reporting)
                <=> \E c \in Controllers : \/ results[c][t] > 0
                                           \/ request[c] = TaskFinished(t)
                                           \/ <<c, TaskFinished(t)>> \in stale
  <1>1. ASSUME NEW c \in Controllers
        PROVE  /\ Copies(<<"reply", c>>, t) > 0 <=> reply[c] = TaskAssign(t)
               /\ Copies(<<"queue", c>>, t) > 0 <=> queued[c][t] > 0
               /\ Copies(<<"results", c>>, t) > 0 <=> results[c][t] > 0
               /\ Copies(<<"request", c>>, t) > 0 <=> request[c] = TaskFinished(t)
               /\ Copies(<<"stale", c>>, t) > 0 <=> <<c, TaskFinished(t)>> \in stale
               /\ \A w \in Workers :
                     Copies(<<"worker", c, w>>, t) > 0 <=> worker[c][w] = t
    BY HoldsAt
  <1>2. /\ "reply" \in Assigning /\ "queue" \in Assigning
        /\ "results" \notin Assigning /\ "request" \notin Assigning
        /\ "stale" \notin Assigning /\ "worker" \notin Assigning
        /\ "reply" \notin Reporting /\ "queue" \notin Reporting
        /\ "results" \in Reporting /\ "request" \in Reporting
        /\ "stale" \in Reporting /\ "worker" \notin Reporting
    BY DEF Assigning, Reporting
  <1>3. IsAt(t, Assigning)
          <=> \E c \in Controllers : \/ Copies(<<"reply", c>>, t) > 0
                                     \/ Copies(<<"queue", c>>, t) > 0
    BY <1>2, IsAtOne, Zenon
  <1>4. IsAt(t, {"worker"})
          <=> \E c \in Controllers, w \in Workers : Copies(<<"worker", c, w>>, t) > 0
    BY IsAtOne
  <1>5. IsAt(t, Reporting)
          <=> \E c \in Controllers : \/ Copies(<<"results", c>>, t) > 0
                                     \/ Copies(<<"request", c>>, t) > 0
                                     \/ Copies(<<"stale", c>>, t) > 0
    BY <1>2, IsAtOne, Zenon
  <1>6. QED BY <1>1, <1>3, <1>4, <1>5, Zenon

LifeIs(t) ==
    LET st == status[t].state
    IN  /\ st = "unknown" => Life(t) = "new"
        /\ st = "finished" => Life(t) = "finished"
        /\ st = "assigned" =>
              /\ IsAt(t, Assigning) => Life(t) = "dispatched"
              /\ ~IsAt(t, Assigning) /\ IsAt(t, {"worker"}) => Life(t) = "running"
              /\ ~IsAt(t, Assigning) /\ ~IsAt(t, {"worker"}) =>
                    /\ IsAt(t, Reporting) => Life(t) = "executed"
                    /\ ~IsAt(t, Reporting) => Life(t) = "lost"

LEMMA LifeFrom == \A t \in Tids : LifeIs(t)
  <1> SUFFICES ASSUME NEW t \in Tids PROVE LifeIs(t)
    OBVIOUS
  <1> DEFINE st == status[t].state
  <1>1. Life(t) = IF st = "unknown" THEN "new" ELSE IF st = "finished" THEN "finished"
                  ELSE IF IsAt(t, Assigning) THEN "dispatched"
                  ELSE IF IsAt(t, {"worker"}) THEN "running"
                  ELSE IF IsAt(t, Reporting) THEN "executed" ELSE "lost"
    BY IsAtFacts DEF Life
  <1> HIDE DEF st
  <1>2. QED BY <1>1 DEF LifeIs, st

LEMMA LifeThen == (\A t \in Tids : LifeIs(t))'
  BY LifeFrom, PTL

(* A task which the master has assigned is at one place or at none.        *)
LEMMA OnePlace ==
    ASSUME ExclusiveAssignment, NEW t \in Tids, NEW p \in Places, Copies(p, t) > 0
    PROVE  /\ status[t].state = "assigned"
           /\ \A K : IsAt(t, K) <=> p[1] \in K
  <1>1. /\ status[t] = Assigned(p[2])
        /\ \A q \in Places : Copies(q, t) > 0 => q = p
    BY DEF ExclusiveAssignment, Holds
  <1>2. QED BY <1>1 DEF IsAt, Assigned

LEMMA OnePlaceThen ==
    ASSUME ExclusiveAssignment', NEW t \in Tids, NEW p \in Places, Copies(p, t)' > 0
    PROVE  /\ status'[t].state = "assigned"
           /\ \A K : IsAt(t, K)' <=> p[1] \in K
  <1>1. /\ status'[t] = Assigned(p[2])
        /\ \A q \in Places : Copies(q, t)' > 0 => q = p
    BY DEF ExclusiveAssignment, Holds, Places, Assigned
  <1>2. QED BY <1>1 DEF IsAt, Assigned, Places

LEMMA LifeAtPlace ==
    ASSUME ExclusiveAssignment, NEW t \in Tids, NEW p \in Places, Copies(p, t) > 0
    PROVE  /\ p[1] \in Assigning => Life(t) = "dispatched"
           /\ p[1] = "worker" => Life(t) = "running"
           /\ p[1] \in Reporting => Life(t) = "executed"
  <1>1. LifeIs(t)
    BY LifeFrom
  <1>2. QED BY <1>1, OnePlace DEF LifeIs, Assigning, Reporting

LEMMA LifeAtPlaceThen ==
    ASSUME ExclusiveAssignment', NEW t \in Tids, NEW p \in Places, Copies(p, t)' > 0
    PROVE  /\ p[1] \in Assigning => Life(t)' = "dispatched"
           /\ p[1] = "worker" => Life(t)' = "running"
           /\ p[1] \in Reporting => Life(t)' = "executed"
  <1>1. LifeIs(t)'
    BY LifeThen
  <1>2. QED BY <1>1, OnePlaceThen DEF LifeIs, Assigning, Reporting

LEMMA LifeNowhereThen ==
    ASSUME TypeInv', NEW t \in Tids, \A p \in Places : ~(Copies(p, t)' > 0)
    PROVE  /\ status'[t].state = "unknown" => Life(t)' = "new"
           /\ status'[t].state = "finished" => Life(t)' = "finished"
           /\ status'[t].state = "assigned" => Life(t)' = "lost"
  <1>1. LifeIs(t)'
    BY LifeThen
  <1>2. \A K : ~IsAt(t, K)'
    BY DEF IsAt, Places
  <1>3. QED BY <1>1, <1>2 DEF LifeIs

(* What is lost, and what doesn't move.                                    *)
Lost(t) == Life(t) \in {"dispatched", "running", "executed"} /\ Life(t)' = "lost"

LEMMA SameLife ==
    ASSUME TypeInv, NEW t \in Tids, status'[t] = status[t],
           \A p \in Places : Copies(p, t)' > 0 <=> Copies(p, t) > 0
    PROVE  Life(t)' = Life(t)
  <1>1. LifeIs(t) /\ LifeIs(t)'
    BY LifeFrom, LifeThen
  <1>2. \A K : IsAt(t, K)' <=> IsAt(t, K)
    BY DEF IsAt, Places
  <1>3. status[t].state \in {"unknown", "finished", "assigned"}
    BY DEF TypeInv, TypeOK, MasterTypeOK, TaskStatus
  <1>4. QED BY <1>1, <1>2, <1>3 DEF LifeIs

LEMMA LifeNowhere ==
    ASSUME TypeInv, NEW t \in Tids, \A p \in Places : ~(Copies(p, t) > 0)
    PROVE  /\ status[t].state = "unknown" => Life(t) = "new"
           /\ status[t].state = "finished" => Life(t) = "finished"
           /\ status[t].state = "assigned" => Life(t) = "lost"
           /\ status[t].state \in {"unknown", "finished", "assigned"}
  <1>1. LifeIs(t)
    BY LifeFrom
  <1>2. \A K : ~IsAt(t, K)
    BY DEF IsAt
  <1>3. status[t].state \in {"unknown", "finished", "assigned"}
    BY DEF TypeInv, TypeOK, MasterTypeOK, TaskStatus
  <1>4. QED BY <1>1, <1>2, <1>3 DEF LifeIs

LEMMA PlaceKinds ==
    \A p \in Places : p[1] \in Assigning \/ p[1] = "worker" \/ p[1] \in Reporting
  BY DEF Places, Assigning, Reporting

LEMMA LoseLife ==
    ASSUME TypeInv, TypeInv', ExclusiveAssignment, ExclusiveAssignment',
           NEW t \in Tids, NoneAdded(t) \/ Moved(t, Shifts)
    PROVE  Life(t)' = Life(t) \/ Lost(t)
  <1>0. status'[t] = status[t]
    BY Zenon DEF NoneAdded, Moved
  <1>1. CASE \A p \in Places : ~(Copies(p, t)' > 0)
    <2>1. CASE \A p \in Places : ~(Copies(p, t) > 0)
      BY <1>0, <1>1, <2>1, LifeNowhere, LifeNowhereThen
    <2>2. CASE \E p \in Places : Copies(p, t) > 0
      <3>1. PICK p \in Places : Copies(p, t) > 0
        BY <2>2
      <3>2. status'[t].state = "assigned"
        BY <1>0, <3>1, OnePlace
      <3>3. Life(t)' = "lost"
        BY <1>1, <3>2, LifeNowhereThen
      <3>4. Life(t) \in {"dispatched", "running", "executed"}
        BY <3>1, LifeAtPlace, PlaceKinds
      <3>5. QED BY <3>3, <3>4 DEF Lost
    <2>3. QED BY <2>1, <2>2
  <1>2. CASE \E p \in Places : Copies(p, t)' > 0
    <2>1. PICK p \in Places : Copies(p, t)' > 0
      BY <1>2
    <2>2. \E q \in Places :
             /\ Copies(q, t) > 0
             /\ \/ q[1] = p[1]
                \/ q[1] \in Assigning /\ p[1] \in Assigning
                \/ q[1] \in Reporting /\ p[1] \in Reporting
      <3>1. CASE NoneAdded(t)
        BY <2>1, <3>1, HoldsOutside DEF NoneAdded
      <3>2. CASE Moved(t, Shifts)
        <4>1. PICK q \in Places, u \in Places :
                 /\ <<q[1], u[1]>> \in Shifts
                 /\ Copies(q, t) > 0
                 /\ NotMoreOutside({q, u}, t)
          BY <3>2, Zenon DEF Moved
        <4>2. CASE p = u
          <5>1. \/ q[1] \in Assigning /\ p[1] \in Assigning
                \/ q[1] \in Reporting /\ p[1] \in Reporting
            BY <4>1, <4>2 DEF Shifts, Assigning, Reporting
          <5>2. QED BY <4>1, <5>1
        <4>3. CASE p = q
          BY <4>1, <4>3
        <4>4. CASE p # q /\ p # u
          <5>1. Copies(p, t) > 0
            BY <2>1, <4>1, <4>4, HoldsOutside
          <5>2. QED BY <5>1
        <4>5. QED BY <4>2, <4>3, <4>4
      <3>3. QED BY <3>1, <3>2
    <2>3. PICK q \in Places :
             /\ Copies(q, t) > 0
             /\ \/ q[1] = p[1]
                \/ q[1] \in Assigning /\ p[1] \in Assigning
                \/ q[1] \in Reporting /\ p[1] \in Reporting
      BY <2>2
    <2>4. QED BY <2>1, <2>3, LifeAtPlace, LifeAtPlaceThen, PlaceKinds
  <1>3. QED BY <1>1, <1>2

(* A step that leaves a task alone.                                        *)
LEMMA SameCopies ==
    ASSUME NEW t \in Tids,
           \A c \in Controllers :
              /\ reply'[c] = TaskAssign(t) <=> reply[c] = TaskAssign(t)
              /\ queued'[c][t] = queued[c][t] /\ results'[c][t] = results[c][t]
              /\ request'[c] = TaskFinished(t) <=> request[c] = TaskFinished(t)
              /\ <<c, TaskFinished(t)>> \in stale' <=> <<c, TaskFinished(t)>> \in stale
              /\ \A w \in Workers : worker'[c][w] = t <=> worker[c][w] = t
    PROVE  \A p \in Places : Copies(p, t)' > 0 <=> Copies(p, t) > 0
  <1>1. ASSUME NEW c \in Controllers
        PROVE  /\ Copies(<<"reply", c>>, t)' > 0 <=> Copies(<<"reply", c>>, t) > 0
               /\ Copies(<<"queue", c>>, t)' > 0 <=> Copies(<<"queue", c>>, t) > 0
               /\ Copies(<<"results", c>>, t)' > 0 <=> Copies(<<"results", c>>, t) > 0
               /\ Copies(<<"request", c>>, t)' > 0 <=> Copies(<<"request", c>>, t) > 0
               /\ Copies(<<"stale", c>>, t)' > 0 <=> Copies(<<"stale", c>>, t) > 0
               /\ \A w \in Workers :
                     Copies(<<"worker", c, w>>, t)' > 0 <=> Copies(<<"worker", c, w>>, t) > 0
    <2>1. queued'[c][t] = queued[c][t] /\ results'[c][t] = results[c][t]
      BY Zenon
    <2>2. /\ Copies(<<"queue", c>>, t)' = Copies(<<"queue", c>>, t)
          /\ Copies(<<"results", c>>, t)' = Copies(<<"results", c>>, t)
      BY <2>1 DEF Copies
    <2>3. Copies(<<"reply", c>>, t)' > 0 <=> Copies(<<"reply", c>>, t) > 0
      <3>1. reply'[c] = TaskAssign(t) <=> reply[c] = TaskAssign(t)
        OBVIOUS
      <3>2. QED BY <3>1 DEF Copies
    <2>4. Copies(<<"request", c>>, t)' > 0 <=> Copies(<<"request", c>>, t) > 0
      <3>1. request'[c] = TaskFinished(t) <=> request[c] = TaskFinished(t)
        OBVIOUS
      <3>2. QED BY <3>1 DEF Copies
    <2>5. Copies(<<"stale", c>>, t)' > 0 <=> Copies(<<"stale", c>>, t) > 0
      <3>1. <<c, TaskFinished(t)>> \in stale' <=> <<c, TaskFinished(t)>> \in stale
        OBVIOUS
      <3>2. QED BY <3>1 DEF Copies
    <2>6. ASSUME NEW w \in Workers
          PROVE  Copies(<<"worker", c, w>>, t)' > 0 <=> Copies(<<"worker", c, w>>, t) > 0
      <3>1. worker'[c][w] = t <=> worker[c][w] = t
        OBVIOUS
      <3>2. QED BY <3>1 DEF Copies
    <2>7. QED BY <2>2, <2>3, <2>4, <2>5, <2>6, Zenon
  <1> SUFFICES ASSUME NEW p \in Places PROVE Copies(p, t)' > 0 <=> Copies(p, t) > 0
    OBVIOUS
  <1>2. CASE \E c \in Controllers, w \in Workers : p = <<"worker", c, w>>
    BY <1>1, <1>2
  <1>3. CASE \E c \in Controllers :
                p \in {<<"reply", c>>, <<"queue", c>>, <<"results", c>>,
                      <<"request", c>>, <<"stale", c>>}
    BY <1>1, <1>3
  <1>4. QED BY <1>2, <1>3, PlaceCases, Zenon

Advances(t, from, to) ==
    /\ Life(t) = from /\ Life(t)' = to
    /\ \A u \in Tids \ {t} : Life(u)' = Life(u)

LEMMA AssignLife ==
    ASSUME NoRedispatch, TypeInv, TypeInv', LockStep,
           ExclusiveAssignment, ExclusiveAssignment', NEW c \in Controllers,
           NEW t \in Tids, AssignTask(c, t), UNCHANGED controllerVars
    PROVE  \E from \in {"new", "finished"}, to \in {"dispatched", "lost"} :
              Advances(t, from, to)
  <1> USE MessageFacts
  <1>1. /\ WireTypeOK /\ WireTypeOK' /\ ControllerTypeOK /\ MasterTypeOK
    BY DEF TypeInv, TypeOK
  <1>2. /\ status[t].state # "assigned"
        /\ status' = [status EXCEPT ![t] = Assigned(c)]
        /\ Answer(c, TaskRequest, TaskAssign(t))
    BY DEF AssignTask, PopTask, NoRedispatch
  <1>3. Life(t) \in {"new", "finished"}
    <2>1. \A p \in Places : ~(Copies(p, t) > 0)
      BY <1>2, OnePlace
    <2>2. QED BY <1>2, <2>1, LifeNowhere
  <1>4. Life(t)' \in {"dispatched", "lost"}
    <2>1. CASE \A p \in Places : ~(Copies(p, t)' > 0)
      <3>1. status'[t].state = "assigned"
        BY <1>1, <1>2 DEF MasterTypeOK, Assigned
      <3>2. QED BY <2>1, <3>1, LifeNowhereThen
    <2>2. CASE \E p \in Places : Copies(p, t)' > 0
      <3>1. PICK p \in Places : Copies(p, t)' > 0
        BY <2>2
      <3>2. ~(Copies(p, t) > 0)
        BY <1>2, OnePlace
      <3>3. p = <<"reply", c>>
        <4>1. NotMoreOutside({<<"reply", c>>}, t)
          BY <1>2, AnswerHands
        <4>2. ASSUME p \notin {<<"reply", c>>} PROVE FALSE
          BY <3>1, <3>2, <4>1, <4>2, HoldsOutside
        <4>3. QED BY <4>2
      <3>4. p[1] \in Assigning
        BY <3>3 DEF Assigning
      <3>5. QED BY <3>1, <3>4, LifeAtPlaceThen
    <2>3. QED BY <2>1, <2>2
  <1>5. ASSUME NEW u \in Tids \ {t} PROVE Life(u)' = Life(u)
    <2>1. \A d \in Controllers :
             /\ reply'[d] = TaskAssign(u) <=> reply[d] = TaskAssign(u)
             /\ request'[d] = TaskFinished(u) <=> request[d] = TaskFinished(u)
             /\ <<d, TaskFinished(u)>> \in stale' <=> <<d, TaskFinished(u)>> \in stale
      BY <1>1, <1>2 DEF Answer, LockStep, WireTypeOK
    <2>2. \A p \in Places : Copies(p, u)' > 0 <=> Copies(p, u) > 0
      BY <2>1, SameCopies
    <2>3. status'[u] = status[u]
      BY <1>1, <1>2 DEF MasterTypeOK
    <2>4. QED BY <2>2, <2>3, SameLife
  <1>6. QED BY <1>3, <1>4, <1>5 DEF Advances

LEMMA FinishedLife ==
    ASSUME TypeInv, TypeInv', LockStep, ExclusiveAssignment, NEW c \in Controllers,
           NEW t \in Tids, FinishedByAssignee(c, t), UNCHANGED controllerVars
    PROVE  Advances(t, "executed", "finished")
  <1> USE MessageFacts
  <1>1. /\ WireTypeOK /\ WireTypeOK' /\ ControllerTypeOK /\ MasterTypeOK
    BY DEF TypeInv, TypeOK
  <1>2. /\ status' = [status EXCEPT ![t].state = "finished"]
        /\ Answer(c, TaskFinished(t), Acknowledge)
        /\ request[c] = TaskFinished(t) \/ <<c, TaskFinished(t)>> \in stale
    BY DEF FinishedByAssignee, Distributing, Serving, Arrived
  <1>3. Life(t) = "executed"
    <2>1. Copies(<<"request", c>>, t) > 0 \/ Copies(<<"stale", c>>, t) > 0
      BY <1>2, HoldsAt
    <2>2. <<"request", c>>[1] \in Reporting /\ <<"stale", c>>[1] \in Reporting
      BY DEF Reporting
    <2>3. QED BY <2>1, <2>2, PlaceIn, LifeAtPlace
  <1>4. Life(t)' = "finished"
    <2>1. status'[t].state = "finished"
      BY <1>1, <1>2 DEF MasterTypeOK, TaskStatus
    <2>2. LifeIs(t)'
      BY LifeThen
    <2>3. QED BY <2>1, <2>2 DEF LifeIs
  <1>5. ASSUME NEW u \in Tids \ {t} PROVE Life(u)' = Life(u)
    <2>1. \A d \in Controllers :
             /\ reply'[d] = TaskAssign(u) <=> reply[d] = TaskAssign(u)
             /\ request'[d] = TaskFinished(u) <=> request[d] = TaskFinished(u)
             /\ <<d, TaskFinished(u)>> \in stale' <=> <<d, TaskFinished(u)>> \in stale
      BY <1>1, <1>2 DEF Answer, LockStep, WireTypeOK
    <2>2. \A p \in Places : Copies(p, u)' > 0 <=> Copies(p, u) > 0
      BY <2>1, SameCopies
    <2>3. status'[u] = status[u]
      BY <1>1, <1>2 DEF MasterTypeOK
    <2>4. QED BY <2>2, <2>3, SameLife
  <1>6. QED BY <1>3, <1>4, <1>5 DEF Advances

LEMMA TakeLife ==
    ASSUME TypeInv, TypeInv', ExclusiveAssignment, ExclusiveAssignment',
           NEW c \in Controllers, NEW w \in Workers, NEW t \in Tids,
           TakeTask(c, w, t), UNCHANGED status
    PROVE  Advances(t, "dispatched", "running")
  <1>1. ControllerTypeOK
    BY DEF TypeInv, TypeOK
  <1>2. /\ UNCHANGED <<results, stale, request, reply>>
        /\ worker[c][w] = "ready" /\ worker' = [worker EXCEPT ![c][w] = t]
        /\ queued[c][t] > 0 /\ queued' = [queued EXCEPT ![c][t] = queued[c][t] - 1]
    BY <1>1 DEF TakeTask
  <1>3. /\ worker'[c][w] = t
        /\ \A d \in Controllers, v \in Workers :
              d # c \/ v # w => worker'[d][v] = worker[d][v]
        /\ \A d \in Controllers, u \in Tids :
              d # c \/ u # t => queued'[d][u] = queued[d][u]
    BY <1>1, <1>2 DEF ControllerTypeOK
  <1>4. Life(t) = "dispatched"
    <2>1. Copies(<<"queue", c>>, t) > 0 /\ <<"queue", c>>[1] \in Assigning
      BY <1>2, HoldsAt DEF Assigning
    <2>2. QED BY <2>1, PlaceIn, LifeAtPlace
  <1>5. Life(t)' = "running"
    <2>1. Copies(<<"worker", c, w>>, t)' > 0 /\ <<"worker", c, w>>[1] = "worker"
      BY <1>3, HoldsAtNext
    <2>2. QED BY <2>1, PlaceIn, LifeAtPlaceThen
  <1>6. ASSUME NEW u \in Tids \ {t} PROVE Life(u)' = Life(u)
    <2>1. \A d \in Controllers, v \in Workers : worker'[d][v] = u <=> worker[d][v] = u
      BY <1>2, <1>3
    <2>2. \A p \in Places : Copies(p, u)' > 0 <=> Copies(p, u) > 0
      BY <1>2, <1>3, <2>1, SameCopies
    <2>3. QED BY <2>2, SameLife
  <1>7. QED BY <1>4, <1>5, <1>6 DEF Advances

LEMMA FinishLife ==
    ASSUME TypeInv, TypeInv', ExclusiveAssignment, ExclusiveAssignment',
           NEW c \in Controllers, NEW w \in Workers, NEW t \in Tids,
           FinishTask(c, w, t), UNCHANGED status
    PROVE  Advances(t, "running", "executed")
  <1>1. ControllerTypeOK
    BY DEF TypeInv, TypeOK
  <1>2. /\ UNCHANGED <<queued, stale, request, reply>>
        /\ worker[c][w] = t /\ worker' = [worker EXCEPT ![c][w] = "ready"]
        /\ results' = [results EXCEPT ![c][t] = results[c][t] + 1]
    BY <1>1 DEF FinishTask
  <1>3. /\ worker'[c][w] = "ready"
        /\ \A d \in Controllers, v \in Workers :
              d # c \/ v # w => worker'[d][v] = worker[d][v]
        /\ \A d \in Controllers, u \in Tids :
              d # c \/ u # t => results'[d][u] = results[d][u]
        /\ results'[c][t] = results[c][t] + 1
    BY <1>1, <1>2 DEF ControllerTypeOK
  <1>4. Life(t) = "running"
    <2>1. Copies(<<"worker", c, w>>, t) > 0 /\ <<"worker", c, w>>[1] = "worker"
      BY <1>2, HoldsAt
    <2>2. QED BY <2>1, PlaceIn, LifeAtPlace
  <1>5. Life(t)' = "executed"
    <2>1. results'[c][t] > 0
      BY <1>1, <1>3 DEF ControllerTypeOK
    <2>2. Copies(<<"results", c>>, t)' > 0 /\ <<"results", c>>[1] \in Reporting
      BY <2>1, HoldsAtNext DEF Reporting
    <2>3. QED BY <2>2, PlaceIn, LifeAtPlaceThen
  <1>6. ASSUME NEW u \in Tids \ {t} PROVE Life(u)' = Life(u)
    <2>1. \A d \in Controllers, v \in Workers : worker'[d][v] = u <=> worker[d][v] = u
      BY <1>2, <1>3
    <2>2. \A p \in Places : Copies(p, u)' > 0 <=> Copies(p, u) > 0
      BY <1>2, <1>3, <2>1, SameCopies
    <2>3. QED BY <2>2, SameLife
  <1>7. QED BY <1>4, <1>5, <1>6 DEF Advances

life == [t \in Tids |-> Life(t)]

LEMMA LifeSteps ==
    ASSUME "restart" \notin Faults, NoRedispatch,
           TypeInv, TypeInv', LockStep, ExclusiveAssignment, ExclusiveAssignment',
           [Next]_vars
    PROVE  [Lifecycle!Next]_life
  <1> USE DEF Lifecycle!Next, Lifecycle!Moves, Lifecycle!Move, Lifecycle!Losses,
              Lifecycle!Forward, Lifecycle!Dispatch
  <1>0. \A t \in Tids : life[t] = Life(t) /\ life'[t] = Life(t)'
    BY DEF life
  <1>1. ASSUME \A t \in Tids : NoneAdded(t) \/ Moved(t, Shifts)
        PROVE  Lifecycle!Next
    <2>1. \A t \in Tids : Life(t)' = Life(t) \/ Lost(t)
      BY <1>1, LoseLife
    <2>2. QED BY <2>1 DEF Lost
  <1>2. ASSUME NEW t \in Tids, NEW from, NEW to, <<from, to>> \in Lifecycle!Forward,
               Advances(t, from, to)
        PROVE  Lifecycle!Next
    BY <1>2 DEF Advances
  <1>3. CASE Dispatching
    <2>1. ASSUME NEW c \in Controllers, NEW t \in Tids, AssignTask(c, t)
          PROVE  Lifecycle!Next
      <3>1. PICK from \in {"new", "finished"}, to \in {"dispatched", "lost"} :
               Advances(t, from, to)
        BY <1>3, <2>1, AssignLife DEF Dispatching
      <3>2. QED BY <3>1, <1>2
    <2>2. ASSUME NEW c \in Controllers, NEW t \in Tids, FinishedByAssignee(c, t)
          PROVE  Lifecycle!Next
      BY <1>2, <1>3, <2>2, FinishedLife DEF Dispatching
    <2>3. QED BY <1>3, <2>1, <2>2 DEF Dispatching
  <1>4. CASE Executing
    BY <1>2, <1>4, TakeLife, FinishLife DEF Executing
  <1>5. QED BY <1>1, <1>3, <1>4, StepRest

LEMMA InitLife == Init => Lifecycle!Init
  <1>1. Init => \A t \in Tids : status[t].state = "unknown"
    BY DEF Init, MasterInit, Unknown
  <1>2. QED BY <1>1, LifeFrom DEF LifeIs, Lifecycle!Init

(* The refinement.  Without redispatch and restarts of the master every    *)
(* step of the system is a step of the life of its tasks, whatever answers *)
(* and connections are lost, and whichever workers and controllers end:    *)
(* execution before report, one execution, one report.                     *)
THEOREM DispatchImplementsLifecycle ==
    ASSUME "restart" \notin Faults, "resend" \notin Faults
    PROVE  Spec => LifecycleImplemented
  <1> DEFINE Inv == TypeInv /\ LockStep /\ ExclusiveAssignment
  <1>1. Init => Lifecycle!Init
    BY InitLife
  <1>2. Inv /\ Inv' /\ [Next]_vars => [Lifecycle!Next]_life
    BY LifeSteps, NeverResent
  <1>3. Spec => []TypeInv
    BY InitType, NextType, PTL DEF Spec
  <1>4. Spec => []LockStep
    BY <1>3, LockStepHolds, PTL DEF Spec
  <1>5. Spec => []ExclusiveAssignment
    BY Exclusive
  <1>6. QED
    BY <1>1, <1>2, <1>3, <1>4, <1>5, PTL
       DEF Spec, LifecycleImplemented, Lifecycle!Spec, life

-----------------------------------------------------------------------------
(***************************************************************************)
(* Shutdown.                                                               *)
(***************************************************************************)
Ending(c) == pc[c] \in {"stopping", "down"}

(* While the master is in its loop and nothing goes wrong, every waiting   *)
(* controller has its request or its answer under way, and the controllers *)
(* the master knows are those that go on.                                  *)
AttendedAt(c) ==
    /\ Waiting(c) => run[c] /\ (request[c] # Nothing \/ reply[c] # Nothing)
    /\ c \in known => run[c] /\ reply[c] # ExitCommand
    /\ Ending(c) => ~run[c]
    /\ Ending(c) \/ AliveWorker(c)

Attended ==
    phase = "run" => stale = {} /\ \A c \in Controllers : AttendedAt(c)

Peaceful == {"timeout", "stop", "worker", "crash", "restart"} \intersect Faults = {}

LEMMA AnswerAttended ==
    ASSUME TypeInv, LockStep, Attended, NEW c \in Controllers, NEW m, NEW r \in Replies,
           Serving(c, m), Answer(c, m, r), UNCHANGED controllerVars,
           \/ r # ExitCommand /\ known' = known \union {c}
           \/ known' = known \ {c}
    PROVE  Attended'
  <1> USE MessageFacts
  <1>1. phase = "run" /\ stale = {} /\ \A d \in Controllers : AttendedAt(d)
    BY DEF Serving, Attended
  <1>2. /\ request[c] = m /\ m # Nothing
        /\ request' = [request EXCEPT ![c] = Nothing]
        /\ reply' = [reply EXCEPT ![c] = r]
        /\ stale' = {}
    BY <1>1 DEF Serving, Arrived, Answer
  <1>3. Waiting(c) /\ run[c]
    BY <1>1, <1>2 DEF LockStep, AttendedAt
  <1>4. ASSUME NEW d \in Controllers, d # c PROVE AttendedAt(d)'
    <2>1. request'[d] = request[d] /\ reply'[d] = reply[d]
      BY <1>2, <1>4 DEF TypeInv, TypeOK, WireTypeOK
    <2>2. d \in known' => d \in known
      BY <1>4
    <2>3. AttendedAt(d)
      BY <1>1
    <2>4. UNCHANGED <<pc, run, worker>>
      OBVIOUS
    <2>5. QED BY <2>1, <2>2, <2>3, <2>4 DEF AttendedAt, Waiting, AliveWorker, Ending
  <1>5. AttendedAt(c)'
    <2>1. reply'[c] = r /\ r # Nothing
      BY <1>2 DEF TypeInv, TypeOK, WireTypeOK
    <2>2. UNCHANGED <<pc, run, worker>> /\ AttendedAt(c)
      BY <1>1
    <2>3. c \in known' => r # ExitCommand
      OBVIOUS
    <2>4. QED BY <1>3, <2>1, <2>2, <2>3 DEF AttendedAt, Waiting, AliveWorker, Ending
  <1>6. QED BY <1>2, <1>4, <1>5 DEF Attended

LEMMA MasterAttended ==
    ASSUME TypeInv, LockStep, NeverInconsistent, Attended, MasterNext,
           UNCHANGED controllerVars
    PROVE  Attended' /\ errors' = errors
  <1> USE MessageFacts
  <1>1. /\ WaitCommand # ExitCommand /\ Acknowledge # ExitCommand
    BY DEF WaitCommand, Acknowledge, ExitCommand, Plain
  <1>2. ASSUME NEW c \in Controllers,
               \/ TaskRequestNoTask(c) \/ TaskRequestGeneratorGone(c)
               \/ HandleHeartbeat(c)
               \/ \E t \in Tids : AssignTask(c, t) \/ IgnoreTask(c, t)
        PROVE  Attended' /\ errors' = errors
    BY <1>1, <1>2, AnswerAttended
       DEF TaskRequestNoTask, TaskRequestGeneratorGone, HandleHeartbeat, AssignTask,
           IgnoreTask, Distributing
  <1>3. ASSUME NEW c \in Controllers,
               \/ \E t \in Tids : FinishedByAssignee(c, t) \/ FinishedByOther(c, t)
               \/ \E m \in Requests : HandleWhileStopping(c, m)
        PROVE  Attended' /\ errors' = errors
    BY <1>1, <1>3, AnswerAttended
       DEF FinishedByAssignee, FinishedByOther, HandleWhileStopping, Distributing
  <1>4. CASE PollTimeoutAllDown
    BY <1>4 DEF PollTimeoutAllDown, Attended
  <1>5. CASE CloseSocket
    BY <1>5 DEF CloseSocket, Attended
  <1>6. QED BY <1>2, <1>3, <1>4, <1>5, NeverUnknown DEF MasterNext

LEMMA LocalAttended ==
    ASSUME Peaceful, Workers # {}, TypeInv, LockStep, NeverInconsistent, Attended,
           UNCHANGED masterVars, NEW c \in Controllers,
           \/ ControllerStep(c) \/ (AnswerOverdue(c) /\ TimesOut(c)) \/ CrashController(c)
           \/ SignalController(c) \/ RestartController(c)
           \/ \E w \in Workers : WorkerStep(c, w) \/ WorkerDies(c, w)
    PROVE  Attended'
  <1> USE MessageFacts
  <1> SUFFICES ASSUME phase = "run"
               PROVE  stale' = {} /\ \A d \in Controllers : AttendedAt(d)'
    BY DEF Attended
  <1>1. stale = {} /\ (\A d \in Controllers : AttendedAt(d)) /\ ~replying
    BY DEF Attended, NeverInconsistent
  <1>2. WireTypeOK /\ ControllerTypeOK
    BY DEF TypeInv, TypeOK
  <1>3. ~AnswerOverdue(c) \/ ~Waiting(c)
    BY <1>1 DEF Peaceful, AnswerOverdue, AttendedAt
  <1>4. ASSUME AttendedAt(c)', stale' = {},
               \A d \in Controllers \ {c} :
                  /\ request'[d] = request[d] /\ reply'[d] = reply[d] /\ pc'[d] = pc[d]
                  /\ run'[d] = run[d] /\ worker'[d] = worker[d]
        PROVE  stale' = {} /\ \A d \in Controllers : AttendedAt(d)'
    <2>1. ASSUME NEW d \in Controllers, d # c PROVE AttendedAt(d)'
      BY <1>1, <1>4, <2>1 DEF AttendedAt, Waiting, AliveWorker, Ending
    <2>2. QED BY <1>4, <2>1
  <1>5. ASSUME NEW m \in Requests, Looping(c), SendAndWait(c, m) PROVE Attended'
    <2>1. AttendedAt(c)
      BY <1>1
    <2>2. AttendedAt(c)'
      BY <1>2, <1>5, <2>1
         DEF Looping, SendAndWait, Send, AttendedAt, Waiting, AliveWorker, Ending,
             WireTypeOK, ControllerTypeOK
    <2>3. QED
      BY <1>1, <1>2, <1>4, <1>5, <2>2
         DEF SendAndWait, Send, WireTypeOK, ControllerTypeOK, Attended
  <1>6. ASSUME UNCHANGED <<request, stale, reply>>, AttendedAt(c)',
               \A d \in Controllers \ {c} :
                  pc'[d] = pc[d] /\ run'[d] = run[d] /\ worker'[d] = worker[d]
        PROVE  stale' = {} /\ \A d \in Controllers : AttendedAt(d)'
    BY <1>1, <1>4, <1>6
  <1>7. ASSUME \/ \E t \in Tids : ReportResult(c, t)
               \/ RequestTask(c) \/ SendHeartbeat(c)
        PROVE  stale' = {} /\ \A d \in Controllers : AttendedAt(d)'
    BY <1>5, <1>7 DEF ReportResult, RequestTask, SendHeartbeat, Attended
  <1>8. ASSUME NoWorkerAlive(c) PROVE FALSE
    BY <1>1, <1>8 DEF NoWorkerAlive, Looping, AttendedAt, Ending
  <1>9. ASSUME Received(c), UNCHANGED run \/ (reply[c] = ExitCommand /\ StopRunning(c))
        PROVE  stale' = {} /\ \A d \in Controllers : AttendedAt(d)'
    <2>1. AttendedAt(c)
      BY <1>1
    <2>2. /\ pc'[c] = "loop" /\ reply'[c] = Nothing /\ worker'[c] = worker[c]
          /\ run'[c] = run[c] \/ reply[c] = ExitCommand
      BY <1>2, <1>9 DEF Received, WireTypeOK, ControllerTypeOK
    <2>3. Nothing # ExitCommand /\ ~Ending(c)
      BY <1>9 DEF Received, Waiting, Ending
    <2>4. AttendedAt(c)'
      BY <2>1, <2>2, <2>3 DEF AttendedAt, Waiting, AliveWorker, Ending
    <2>5. QED
      BY <1>1, <1>2, <1>4, <1>9, <2>4
         DEF Received, StopRunning, WireTypeOK, ControllerTypeOK
  <1>10. ASSUME ReceiveCommand(c) \/ ReceiveExit(c) \/ \E t \in Tids : ReceiveTask(c, t)
         PROVE  stale' = {} /\ \A d \in Controllers : AttendedAt(d)'
    BY <1>9, <1>10 DEF ReceiveCommand, ReceiveExit, ReceiveTask
  <1>11. ASSUME AnswerOverdue(c) /\ TimesOut(c) PROVE FALSE
    BY <1>3, <1>11 DEF TimesOut, FirstTimeout, RetriesExhausted, SecondTimeout, Waiting
  <1>12. ASSUME \/ SignalController(c) \/ CrashController(c)
                \/ \E w \in Workers : WorkerDies(c, w)
         PROVE  FALSE
    BY <1>12 DEF Peaceful, SignalController, CrashController, WorkerDies
  <1>13. ASSUME BeginShutdown(c)
         PROVE  stale' = {} /\ \A d \in Controllers : AttendedAt(d)'
    <2>1. AttendedAt(c)'
      BY <1>1, <1>2, <1>13
         DEF BeginShutdown, AttendedAt, Waiting, Ending, ControllerTypeOK
    <2>2. QED
      BY <1>2, <1>6, <1>13, <2>1 DEF BeginShutdown, ControllerTypeOK
  <1>14. ASSUME ControllerExits(c)
         PROVE  stale' = {} /\ \A d \in Controllers : AttendedAt(d)'
    <2>1. request[c] = Nothing /\ ~run[c] /\ c \notin known
      BY <1>1, <1>14 DEF ControllerExits, LockStep, Waiting, AttendedAt, Ending
    <2>2. stale' = {}
      BY <1>1, <1>14, <2>1 DEF ControllerExits, CloseConnection
    <2>3. pc'[c] = "down" /\ run' = run
      BY <1>2, <1>14 DEF ControllerExits, ControllerTypeOK
    <2>4. AttendedAt(c)'
      BY <2>1, <2>3 DEF AttendedAt, Waiting, Ending
    <2>5. QED
      BY <1>2, <1>4, <1>14, <2>2, <2>4
         DEF ControllerExits, CloseConnection, WireTypeOK, ControllerTypeOK
  <1>15. ASSUME RestartController(c)
         PROVE  stale' = {} /\ \A d \in Controllers : AttendedAt(d)'
    <2>1. c \notin known
      BY <1>1, <1>15 DEF RestartController, AttendedAt, Ending
    <2>2. pc'[c] = "loop" /\ run'[c] /\ worker'[c] = AllReady
      BY <1>2, <1>15 DEF RestartController, ControllerTypeOK
    <2>3. AliveWorker(c)'
      BY <2>2 DEF AliveWorker, AllReady
    <2>4. AttendedAt(c)'
      BY <2>1, <2>2, <2>3 DEF AttendedAt, Waiting, Ending
    <2>5. QED
      BY <1>2, <1>6, <1>15, <2>4 DEF RestartController, ControllerTypeOK
  <1>16. ASSUME NEW w \in Workers, WorkerStep(c, w)
         PROVE  stale' = {} /\ \A d \in Controllers : AttendedAt(d)'
    <2>1. /\ UNCHANGED <<pc, run, request, stale, reply>>
          /\ \A d \in Controllers \ {c} : worker'[d] = worker[d]
      BY <1>2, <1>16
         DEF WorkerStep, WorkerStops, TakeTask, FinishTask, ControllerTypeOK
    <2>2. CASE Ending(c)
      BY <1>1, <1>6, <2>1, <2>2 DEF AttendedAt, Waiting, Ending
    <2>3. CASE ~Ending(c)
      <3>1. \E v \in Tids \union {"ready"} : worker' = [worker EXCEPT ![c][w] = v]
        BY <1>16, <2>3 DEF WorkerStep, WorkerStops, TakeTask, FinishTask, Ending
      <3>2. worker'[c][w] # "dead"
        BY <1>2, <3>1 DEF ControllerTypeOK
      <3>3. AliveWorker(c)'
        BY <3>2 DEF AliveWorker
      <3>4. QED BY <1>1, <1>6, <2>1, <3>3 DEF AttendedAt, Waiting, Ending
    <2>4. QED BY <2>2, <2>3
  <1>17. QED
    BY <1>7, <1>8, <1>10, <1>11, <1>12, <1>13, <1>14, <1>15, <1>16
       DEF ControllerStep

LEMMA AttendedStep ==
    ASSUME Peaceful, Workers # {}
    PROVE  /\ Init => Attended /\ errors = 0
           /\ TypeInv /\ LockStep /\ NeverInconsistent /\ Attended /\ [Next]_vars
                 => Attended' /\ errors' = errors
  <1>1. ASSUME Init PROVE Attended /\ errors = 0
    BY <1>1 DEF Init, MasterInit, WireInit, ControllerInit, Attended, AttendedAt,
                Waiting, Ending, AliveWorker, AllReady
  <1> SUFFICES ASSUME TypeInv, LockStep, NeverInconsistent, Attended, [Next]_vars
               PROVE  Attended' /\ errors' = errors
    BY <1>1
  <1>2. ASSUME UNCHANGED <<phase, known, pc, run, worker, request, stale, reply>>
        PROVE  Attended'
    BY <1>2 DEF Attended, AttendedAt, Waiting, Ending, AliveWorker
  <1>3. CASE MasterStep
    BY <1>3, MasterAttended DEF MasterStep
  <1>4. CASE GeneratorStep
    BY <1>2, <1>4 DEF GeneratorStep
  <1>5. CASE (MasterSignal \/ RestartMaster) /\ UNCHANGED controllerVars
    BY <1>2, <1>5 DEF MasterSignal, RestartMaster, Peaceful
  <1>6. ASSUME NEW c \in Controllers, UNCHANGED masterVars,
               SignalController(c) \/ RestartController(c)
        PROVE  Attended' /\ errors' = errors
    BY <1>6, LocalAttended
  <1>7. ASSUME NEW c \in Controllers, ExpireStep(c) PROVE FALSE
    BY <1>7 DEF ExpireStep, ExpireController, HeartbeatOverdue, PollTimesOut,
                Peaceful, NeverInconsistent, Attended, AttendedAt, Ending
  <1>8. ASSUME NEW c \in Controllers, LocalStep(c) PROVE Attended' /\ errors' = errors
    BY <1>8, LocalAttended DEF LocalStep
  <1>9. CASE UNCHANGED vars
    BY <1>2, <1>9 DEF vars
  <1>10. QED
    BY <1>3, <1>4, <1>5, <1>6, <1>7, <1>8, <1>9 DEF Next, OperatorStep

(* Without failures the master ends as its comment wants it, gracefully:   *)
(* no exception is counted while it waits for its controllers, whether it  *)
(* is the generator's end or a signal that stops it, with redispatch too   *)
(* and when controllers that were told to exit are started again.          *)
THEOREM EndsGracefully ==
    ASSUME Peaceful, Workers # {}
    PROVE  Spec => []GracefulShutdown
  <1> DEFINE I == TypeInv /\ LockStep /\ NeverInconsistent /\ Attended /\ errors = 0
  <1>1. "restart" \notin Faults
    BY DEF Peaceful
  <1>2. Init => I
    BY <1>1, InitType, LockStepHolds, ConsistentStep, AttendedStep
  <1>3. I /\ [Next]_vars => I'
    BY <1>1, NextType, LockStepHolds, ConsistentStep, AttendedStep
  <1>4. I => GracefulShutdown
    BY DEF GracefulShutdown
  <1> HIDE DEF I
  <1>5. QED BY <1>2, <1>3, <1>4, PTL DEF Spec

(***************************************************************************)
(* The master keeps in mind who still works.                               *)
(***************************************************************************)
Working(c) ==
    \E p \in Places, t \in Tids : p[1] # "stale" /\ p[2] = c /\ Copies(p, t) > 0

(* A controller that works is known or dismissed.  What makes it so is     *)
(* that the master has no requests of closed connections, and that a       *)
(* controller that has ended holds nothing when it is started again.       *)
WorkKnown ==
    /\ phase = "run" => stale = {}
    /\ \A c \in Controllers :
          /\ Ending(c) => ~run[c]
          /\ pc[c] = "down" => ~Working(c)
          /\ Working(c) /\ phase # "closed" =>
                Dismissed(c) \/ (phase = "run" /\ c \in known)

(* The exceptions counted are controllers removed: when the number of      *)
(* errors ends the loop nobody is left in controller_heartbeat_dict.       *)
ErrorBudget ==
    phase = "run" =>
       IF distribution THEN errors = 0
       ELSE errors + Cardinality(known) <= Cardinality(Controllers)

LEMMA NewWork ==
    ASSUME TypeInv, TypeInv', Effect, NEW c \in Controllers, Working(c)'
    PROVE  Working(c) \/ (phase' = "run" /\ c \in known' /\ reply'[c] # Nothing)
  <1> USE MessageFacts
  <1>1. PICK r \in Places, t \in Tids : r[1] # "stale" /\ r[2] = c /\ Copies(r, t)' > 0
    BY DEF Working
  <1>2. ASSUME Copies(r, t) > 0 PROVE Working(c)
    BY <1>1, <1>2 DEF Working
  <1>3. CASE NoneAdded(t)
    BY <1>1, <1>2, <1>3, HoldsOutside DEF NoneAdded
  <1>4. CASE Moved(t, Ways)
    <2>1. PICK p, q \in Places :
             /\ <<p[1], q[1]>> \in Ways /\ p[2] = q[2] /\ Copies(p, t) > 0
             /\ NotMoreOutside({p, q}, t)
      BY <1>4 DEF Moved
    <2>2. p[1] # "stale"
      BY <2>1 DEF Ways, Shifts
    <2>3. CASE r \in {p, q}
      BY <1>1, <2>1, <2>2, <2>3 DEF Working
    <2>4. CASE r \notin {p, q}
      BY <1>1, <1>2, <2>1, <2>4, HoldsOutside
    <2>5. QED BY <2>3, <2>4
  <1>5. CASE Handed(t)
    <2>1. PICK d \in Controllers, q \in Places :
             /\ phase' = "run" /\ d \in known' /\ q[1] = "reply" /\ q[2] = d
             /\ NotMoreOutside({q}, t)
      BY <1>5 DEF Handed
    <2>2. CASE r = q
      <3>1. r = <<"reply", c>>
        BY <1>1, <2>1, <2>2, PlaceCases
      <3>2. Copies(r, t)' = IF reply'[c] = TaskAssign(t) THEN 1 ELSE 0
        BY <3>1 DEF Copies
      <3>3. reply'[c] = TaskAssign(t)
        BY <1>1, <3>2
      <3>4. QED BY <1>1, <2>1, <2>2, <3>3
    <2>3. CASE r # q
      BY <1>1, <1>2, <2>1, <2>3, HoldsOutside
    <2>4. QED BY <2>2, <2>3
  <1>6. CASE Reported(t)
    <2>1. PICK p \in Places : Copies(p, t) > 0 /\ NotMoreOutside({p}, t)
      BY <1>6 DEF Reported
    <2>2. CASE r = p
      BY <1>2, <2>1, <2>2
    <2>3. CASE r # p
      BY <1>1, <1>2, <2>1, <2>3, HoldsOutside
    <2>4. QED BY <2>2, <2>3
  <1>7. QED BY <1>3, <1>4, <1>5, <1>6 DEF Effect

(* What a step does to the master's view of its controllers.               *)
Learns ==
    UNCHANGED <<phase, errors>> /\ distribution /\ known \subseteq known'
Dismisses(c) ==
    /\ \E m \in Requests : HandleWhileStopping(c, m)
    /\ UNCHANGED controllerVars
Leaves ==
    /\ \/ phase = "run" /\ phase' = "closing" /\ known = {}
       \/ phase = "closing" /\ phase' = "closed"
    /\ UNCHANGED <<distribution, errors, known>>

LEMMA MasterMoves ==
    ASSUME "restart" \notin Faults, NeverInconsistent, [Next]_vars
    PROVE  \/ UNCHANGED <<phase, distribution, errors, known>>
           \/ Learns \/ Leaves
           \/ \E c \in Controllers : Dismisses(c) \/ ExpireStep(c)
  <1>1. ASSUME NEW c \in Controllers,
               \/ TaskRequestNoTask(c) \/ TaskRequestGeneratorGone(c)
               \/ HandleHeartbeat(c)
               \/ \E t \in Tids : AssignTask(c, t) \/ IgnoreTask(c, t)
               \/ \E t \in Tids : FinishedByAssignee(c, t) \/ FinishedByOther(c, t)
        PROVE  Learns
    <2>1. \E m : Distributing(c, m)
      BY <1>1 DEF TaskRequestNoTask, TaskRequestGeneratorGone, HandleHeartbeat, AssignTask,
                  IgnoreTask, FinishedByAssignee, FinishedByOther
    <2>2. QED BY <2>1 DEF Distributing, Learns
  <1>2. CASE MasterStep
    BY <1>1, <1>2, NeverUnknown
       DEF MasterStep, MasterNext, Dismisses, PollTimeoutAllDown, CloseSocket,
           PollTimesOut, Leaves
  <1>3. CASE OperatorStep
    BY <1>3 DEF OperatorStep, MasterSignal, RestartMaster, Learns
  <1>4. QED BY <1>2, <1>3 DEF Next, GeneratorStep, LocalStep, vars

LEMMA BudgetStep ==
    ASSUME "restart" \notin Faults, IsFiniteSet(Controllers),
           TypeInv, TypeInv', NeverInconsistent, ErrorBudget, [Next]_vars
    PROVE  ErrorBudget'
  <1> SUFFICES ASSUME phase' = "run"
               PROVE  IF distribution' THEN errors' = 0
                      ELSE errors' + Cardinality(known') <= Cardinality(Controllers)
    BY DEF ErrorBudget
  <1>1. /\ known \subseteq Controllers /\ known' \subseteq Controllers
        /\ errors \in Nat /\ distribution \in BOOLEAN
    BY DEF TypeInv, TypeOK, MasterTypeOK
  <1>2. /\ IsFiniteSet(known) /\ Cardinality(known) \in Nat
        /\ Cardinality(known') \in Nat /\ Cardinality(Controllers) \in Nat
        /\ Cardinality(known') <= Cardinality(Controllers)
    BY <1>1, FS_Subset, FS_CardinalityType
  <1>3. ASSUME NEW c PROVE Cardinality(known \ {c})
                             = IF c \in known THEN Cardinality(known) - 1 ELSE Cardinality(known)
    BY <1>2, FS_RemoveElement
  <1>4. CASE UNCHANGED <<phase, distribution, errors, known>>
    BY <1>4 DEF ErrorBudget
  <1>5. CASE Learns
    BY <1>2, <1>5 DEF Learns, ErrorBudget
  <1>6. CASE Leaves
    BY <1>6 DEF Leaves
  <1>7. ASSUME NEW c \in Controllers, Dismisses(c)
        PROVE  IF distribution' THEN errors' = 0
               ELSE errors' + Cardinality(known') <= Cardinality(Controllers)
    BY <1>1, <1>2, <1>3, <1>7 DEF Dismisses, HandleWhileStopping, Serving, ErrorBudget
  <1>8. ASSUME NEW c \in Controllers, ExpireStep(c)
        PROVE  IF distribution' THEN errors' = 0
               ELSE errors' + Cardinality(known') <= Cardinality(Controllers)
    BY <1>1, <1>2, <1>3, <1>8
       DEF ExpireStep, ExpireController, PollTimesOut, CaughtException, ErrorBudget
  <1>9. QED BY <1>4, <1>5, <1>6, <1>7, <1>8, MasterMoves

(* The loop is left when nobody is known any more.                         *)
LEMMA LeftAlone ==
    ASSUME "restart" \notin Faults, IsFiniteSet(Controllers),
           Cardinality(Controllers) <= MaxErrors,
           TypeInv, TypeInv', NeverInconsistent, ErrorBudget, [Next]_vars,
           phase = "run", phase' # "run"
    PROVE  known' = {}
  <1>1. known \subseteq Controllers /\ errors \in Nat
    BY DEF TypeInv, TypeOK, MasterTypeOK
  <1>2. /\ IsFiniteSet(known) /\ Cardinality(known) \in Nat
        /\ Cardinality(Controllers) \in Nat
    BY <1>1, FS_Subset, FS_CardinalityType
  <1>3. ASSUME NEW c \in Controllers, ExpireStep(c) PROVE known' = {}
    <2>1. /\ ~distribution /\ c \in known /\ known' = known \ {c}
          /\ errors + 1 = MaxErrors
      BY <1>3 DEF ExpireStep, ExpireController, CaughtException
    <2>2. Cardinality(known) <= 1
      BY <1>1, <1>2, <2>1 DEF ErrorBudget
    <2>3. IsFiniteSet(known') /\ Cardinality(known') = Cardinality(known) - 1
      BY <1>2, <2>1, FS_RemoveElement
    <2>4. Cardinality(known') = 0
      BY <1>2, <2>2, <2>3, FS_CardinalityType
    <2>5. QED BY <2>3, <2>4, FS_EmptySet
  <1>4. QED
    BY <1>3, MasterMoves DEF Learns, Leaves, Dismisses, HandleWhileStopping

(* Who is forgotten was told to exit or has stopped.                       *)
LEMMA ForgottenDismissed ==
    ASSUME "restart" \notin Faults, "timeout" \notin Faults, "crash" \notin Faults,
           TypeInv, NeverInconsistent, WorkKnown, [Next]_vars,
           phase = "run", NEW c \in Controllers, c \in known, c \notin known'
    PROVE  Dismissed(c)'
  <1>1. ~replying /\ stale = {}
    BY DEF NeverInconsistent, WorkKnown
  <1>2. CASE Dismisses(c)
    BY <1>1, <1>2
       DEF Dismisses, HandleWhileStopping, Answer, Dismissed, TypeInv, TypeOK, WireTypeOK
  <1>3. CASE ExpireStep(c)
    <2>1. Ending(c) /\ run' = run
      BY <1>1, <1>3 DEF ExpireStep, HeartbeatOverdue, Ending
    <2>2. QED BY <2>1 DEF WorkKnown, Dismissed
  <1>4. QED
    BY <1>2, <1>3, MasterMoves
       DEF Learns, Leaves, Dismisses, HandleWhileStopping, ExpireStep, ExpireController

(* Without lost answers, what a controller does at its request's end.      *)
LEMMA Overdue ==
    ASSUME "timeout" \notin Faults, NeverInconsistent, NEW c \in Controllers,
           AnswerOverdue(c)
    PROVE  reply[c] = Nothing /\ (phase = "run" => request[c] = Nothing)
  BY DEF AnswerOverdue, NeverInconsistent

LEMMA StillDismissed ==
    ASSUME "restart" \notin Faults, "timeout" \notin Faults, "crash" \notin Faults,
           TypeInv, LockStep, NeverInconsistent, [Next]_vars,
           phase' # "closed", NEW c \in Controllers, pc[c] # "down", Dismissed(c)
    PROVE  Dismissed(c)'
  <1> USE MessageFacts
  <1> USE DEF Dismissed
  <1>1. WireTypeOK /\ ControllerTypeOK
    BY DEF TypeInv, TypeOK
  <1>2. ASSUME UNCHANGED <<run, reply>> PROVE Dismissed(c)'
    BY <1>2
  <1>3. CASE MasterStep
    <2>1. ASSUME NEW d \in Controllers, NEW m, NEW r, Arrived(d, m), Answer(d, m, r),
                 UNCHANGED run
          PROVE  Dismissed(c)'
      BY <1>1, <2>1 DEF Arrived, Answer, WireTypeOK, LockStep
    <2>2. ASSUME NEW d \in Controllers,
                 \/ TaskRequestNoTask(d) \/ TaskRequestGeneratorGone(d)
                 \/ HandleHeartbeat(d)
                 \/ \E t \in Tids : AssignTask(d, t) \/ IgnoreTask(d, t)
          PROVE  Dismissed(c)'
      BY <1>3, <2>1, <2>2
         DEF TaskRequestNoTask, TaskRequestGeneratorGone, HandleHeartbeat, AssignTask,
             IgnoreTask, Distributing, Serving, MasterStep
    <2>3. ASSUME NEW d \in Controllers,
                 \/ \E t \in Tids : FinishedByAssignee(d, t) \/ FinishedByOther(d, t)
                 \/ \E m \in Requests : HandleWhileStopping(d, m)
          PROVE  Dismissed(c)'
      BY <1>3, <2>1, <2>3
         DEF FinishedByAssignee, FinishedByOther, HandleWhileStopping,
             Distributing, Serving, MasterStep
    <2>4. CASE PollTimeoutAllDown
      BY <1>2, <1>3, <2>4 DEF PollTimeoutAllDown, MasterStep
    <2>5. CASE CloseSocket
      BY <2>5 DEF CloseSocket
    <2>6. QED BY <1>3, <2>2, <2>3, <2>4, <2>5, NeverUnknown DEF MasterStep, MasterNext
  <1>4. CASE GeneratorStep
    BY <1>2, <1>4 DEF GeneratorStep
  <1>5. CASE (MasterSignal \/ RestartMaster) /\ UNCHANGED controllerVars
    BY <1>2, <1>5 DEF MasterSignal, RestartMaster
  <1>6. ASSUME NEW d \in Controllers, ExpireStep(d) PROVE Dismissed(c)'
    BY <1>2, <1>6 DEF ExpireStep, ExpireController
  <1>7. ASSUME NEW d \in Controllers, SignalController(d) \/ RestartController(d)
        PROVE  Dismissed(c)'
    BY <1>1, <1>7 DEF SignalController, RestartController, StopRunning, ControllerTypeOK
  <1>8. ASSUME NEW d \in Controllers,
               \/ RequestTask(d) \/ SendHeartbeat(d) \/ NoWorkerAlive(d) \/ BeginShutdown(d)
               \/ \E t \in Tids : ReportResult(d, t)
        PROVE  Dismissed(c)'
    <2>1. /\ UNCHANGED reply
          /\ UNCHANGED run \/ StopRunning(d)
      BY <1>8 DEF RequestTask, SendHeartbeat, NoWorkerAlive, BeginShutdown, ReportResult,
                  SendAndWait, Send
    <2>2. QED BY <1>1, <2>1 DEF StopRunning, ControllerTypeOK
  <1>9. ASSUME NEW d \in Controllers, Received(d), reply[d] # ExitCommand, UNCHANGED run
        PROVE  Dismissed(c)'
    BY <1>1, <1>9 DEF Received, WireTypeOK
  <1>10. ASSUME NEW d \in Controllers, ReceiveCommand(d) \/ \E t \in Tids : ReceiveTask(d, t)
         PROVE  Dismissed(c)'
    <2>1. WaitCommand # ExitCommand /\ Acknowledge # ExitCommand
      BY DEF WaitCommand, Acknowledge, ExitCommand, Plain
    <2>2. QED BY <1>9, <1>10, <2>1 DEF ReceiveCommand, ReceiveTask
  <1>11. ASSUME NEW d \in Controllers, ReceiveExit(d) PROVE Dismissed(c)'
    BY <1>1, <1>11 DEF ReceiveExit, Received, StopRunning, WireTypeOK, ControllerTypeOK
  <1>12. ASSUME NEW d \in Controllers, reply[d] = Nothing,
                \/ FirstTimeout(d) \/ RetriesExhausted(d) \/ SecondTimeout(d)
                \/ ControllerExits(d)
         PROVE  Dismissed(c)'
    <2>1. reply' = reply
      BY <1>1, <1>12
         DEF FirstTimeout, RetriesExhausted, SecondTimeout, ControllerExits,
             CloseConnection, WireTypeOK
    <2>2. UNCHANGED run \/ StopRunning(d)
      BY <1>12 DEF FirstTimeout, RetriesExhausted, SecondTimeout, ControllerExits
    <2>3. QED BY <1>1, <2>1, <2>2 DEF StopRunning, ControllerTypeOK
  <1>13. ASSUME NEW d \in Controllers, AnswerOverdue(d) /\ TimesOut(d) PROVE Dismissed(c)'
    BY <1>12, <1>13, Overdue DEF TimesOut
  <1>14. ASSUME NEW d \in Controllers, ControllerExits(d) PROVE Dismissed(c)'
    BY <1>12, <1>14 DEF ControllerExits, LockStep, Waiting
  <1>15. ASSUME NEW d \in Controllers, NEW w \in Workers, WorkerStep(d, w) \/ WorkerDies(d, w)
         PROVE  Dismissed(c)'
    BY <1>2, <1>15 DEF WorkerStep, WorkerStops, TakeTask, FinishTask, WorkerDies
  <1>16. CASE UNCHANGED vars
    BY <1>2, <1>16 DEF vars
  <1>17. QED
    BY <1>3, <1>4, <1>5, <1>6, <1>7, <1>8, <1>10, <1>11, <1>13, <1>14, <1>15, <1>16
       DEF Next, OperatorStep, LocalStep, ControllerStep, CrashController

(* No request is left behind while the master is in its loop.              *)
LEMMA NoneLeft ==
    ASSUME "restart" \notin Faults, "timeout" \notin Faults, "crash" \notin Faults,
           TypeInv, LockStep, NeverInconsistent, WorkKnown, [Next]_vars, phase' = "run"
    PROVE  stale' = {}
  <1>1. phase = "run"
    BY MasterMoves
       DEF Learns, Leaves, Dismisses, HandleWhileStopping, Serving, ExpireStep,
           ExpireController, PollTimesOut
  <1>2. stale = {} /\ ~replying
    BY <1>1 DEF WorkKnown, NeverInconsistent
  <1>3. CASE MasterStep
    BY <1>2, <1>3
       DEF MasterStep, MasterNext, TaskRequestNoTask, TaskRequestGeneratorGone,
           AssignTask, IgnoreTask, FinishedByAssignee, FinishedByOther, FinishedUnknown,
           HandleHeartbeat, HandleWhileStopping, PollTimeoutAllDown, CloseSocket,
           Answer, Swallow
  <1>4. CASE (MasterSignal \/ RestartMaster) /\ UNCHANGED controllerVars
    BY <1>2, <1>4 DEF MasterSignal, RestartMaster
  <1>5. ASSUME NEW d \in Controllers, CloseConnection(d), request[d] = Nothing
        PROVE  stale' = {}
    BY <1>2, <1>5 DEF CloseConnection
  <1>6. ASSUME NEW d \in Controllers, AnswerOverdue(d) /\ TimesOut(d) PROVE stale' = {}
    BY <1>1, <1>2, <1>5, <1>6, Overdue
       DEF TimesOut, FirstTimeout, RetriesExhausted, SecondTimeout
  <1>7. ASSUME NEW d \in Controllers, ControllerExits(d) PROVE stale' = {}
    BY <1>5, <1>7 DEF ControllerExits, LockStep, Waiting
  <1>8. ASSUME NEW d \in Controllers,
               \/ RequestTask(d) \/ SendHeartbeat(d) \/ NoWorkerAlive(d) \/ BeginShutdown(d)
               \/ ReceiveCommand(d) \/ ReceiveExit(d)
               \/ \E t \in Tids : ReportResult(d, t) \/ ReceiveTask(d, t)
        PROVE  stale' = {}
    BY <1>2, <1>8 DEF RequestTask, SendHeartbeat, NoWorkerAlive, BeginShutdown, ReportResult,
                SendAndWait, Send, ReceiveCommand, ReceiveExit, ReceiveTask, Received
  <1>9. ASSUME NEW d \in Controllers,
               \/ SignalController(d) \/ RestartController(d)
               \/ \E w \in Workers : WorkerStep(d, w) \/ WorkerDies(d, w)
        PROVE  stale' = {}
    BY <1>2, <1>9 DEF SignalController, RestartController, WorkerStep, WorkerStops,
                      TakeTask, FinishTask, WorkerDies
  <1>10. ASSUME NEW d \in Controllers, ExpireStep(d) PROVE stale' = {}
    BY <1>2, <1>10 DEF ExpireStep, ExpireController
  <1>11. QED
    BY <1>2, <1>3, <1>4, <1>6, <1>7, <1>8, <1>9, <1>10
       DEF Next, GeneratorStep, OperatorStep, LocalStep, ControllerStep,
           CrashController, vars

(* A controller ends its loop with RUN_CONDITION off and exits empty.      *)
LEMMA EndsOff ==
    ASSUME "crash" \notin Faults,
           TypeInv, WorkKnown, [Next]_vars, NEW c \in Controllers, Ending(c)'
    PROVE  /\ ~run'[c]
           /\ pc'[c] = "down" => pc[c] = "down" \/ ControllerExits(c)
  <1>1. ControllerTypeOK /\ (Ending(c) => ~run[c])
    BY DEF TypeInv, TypeOK, WorkKnown
  <1>2. ASSUME UNCHANGED <<pc, run>> PROVE ~run'[c] /\ pc'[c] = pc[c]
    BY <1>1, <1>2 DEF Ending
  <1>3. CASE MasterStep \/ GeneratorStep \/ \E d \in Controllers : ExpireStep(d)
    BY <1>2, <1>3 DEF MasterStep, GeneratorStep, ExpireStep
  <1>4. CASE OperatorStep
    BY <1>1, <1>4 DEF OperatorStep, SignalController, RestartController, StopRunning,
                      Ending, ControllerTypeOK
  <1>5. ASSUME NEW d \in Controllers,
               \/ RequestTask(d) \/ SendHeartbeat(d) \/ NoWorkerAlive(d) \/ BeginShutdown(d)
               \/ \E t \in Tids : ReportResult(d, t)
        PROVE  ~run'[c] /\ (pc'[c] = "down" => pc[c] = "down")
    BY <1>1, <1>5 DEF RequestTask, SendHeartbeat, NoWorkerAlive, BeginShutdown, ReportResult,
                      SendAndWait, Looping, StopRunning, Ending, ControllerTypeOK
  <1>6. ASSUME NEW d \in Controllers,
               \/ ReceiveCommand(d) \/ ReceiveExit(d)
               \/ \E t \in Tids : ReceiveTask(d, t)
        PROVE  ~run'[c] /\ (pc'[c] = "down" => pc[c] = "down")
    BY <1>1, <1>6 DEF ReceiveCommand, ReceiveExit, ReceiveTask, Received, StopRunning,
                      Ending, ControllerTypeOK
  <1>7. ASSUME NEW d \in Controllers, TimesOut(d)
        PROVE  ~run'[c] /\ (pc'[c] = "down" => pc[c] = "down")
    BY <1>1, <1>7 DEF TimesOut, FirstTimeout, RetriesExhausted, SecondTimeout, StopRunning,
                      Ending, ControllerTypeOK
  <1>8. ASSUME NEW d \in Controllers, ControllerExits(d)
        PROVE  ~run'[c] /\ (pc'[c] = "down" => pc[c] = "down" \/ ControllerExits(c))
    BY <1>1, <1>8 DEF ControllerExits, Ending, ControllerTypeOK
  <1>9. ASSUME NEW d \in Controllers, NEW w \in Workers, WorkerStep(d, w) \/ WorkerDies(d, w)
        PROVE  ~run'[c] /\ pc'[c] = pc[c]
    BY <1>2, <1>9 DEF WorkerStep, WorkerStops, TakeTask, FinishTask, WorkerDies
  <1>10. CASE UNCHANGED vars
    BY <1>2, <1>10 DEF vars
  <1>11. QED
    BY <1>3, <1>4, <1>5, <1>6, <1>7, <1>8, <1>9, <1>10
       DEF Next, LocalStep, ControllerStep, CrashController

LEMMA ExitsEmpty ==
    ASSUME TypeInv, LockStep, NEW c \in Controllers, ControllerExits(c)
    PROVE  ~Working(c)'
  <1> USE MessageFacts
  <1>1. /\ \A t \in Tids : queued'[c][t] = 0 /\ results'[c][t] = 0
        /\ \A w \in Workers : worker'[c][w] = "dead"
        /\ request'[c] = Nothing /\ reply'[c] = Nothing
    BY DEF ControllerExits, AliveWorker, NoTasks, CloseConnection,
           TypeInv, TypeOK, ControllerTypeOK, WireTypeOK
  <1>2. ASSUME NEW p \in Places, NEW t \in Tids, p[1] # "stale", p[2] = c
        PROVE  ~(Copies(p, t)' > 0)
    <2>1. CASE p \in {<<"reply", c>>, <<"queue", c>>, <<"results", c>>, <<"request", c>>}
      BY <1>1, <2>1 DEF Copies
    <2>2. ASSUME NEW w \in Workers, p = <<"worker", c, w>> PROVE ~(Copies(p, t)' > 0)
      BY <1>1, <2>2 DEF Copies
    <2>3. QED BY <1>2, <2>1, <2>2, PlaceCases
  <1>3. QED BY <1>2 DEF Working

LEMMA WorkKnownStep ==
    ASSUME "restart" \notin Faults, "timeout" \notin Faults, "crash" \notin Faults,
           IsFiniteSet(Controllers), Cardinality(Controllers) <= MaxErrors,
           TypeInv, TypeInv', LockStep, LockStep', NeverInconsistent, ErrorBudget,
           WorkKnown, [Next]_vars
    PROVE  WorkKnown'
  <1>1. Effect
    BY StepEffect
  <1>2. phase' = "run" => stale' = {}
    BY NoneLeft
  <1>3. ASSUME NEW c \in Controllers, pc'[c] = "down" PROVE ~Working(c)'
    <2>1. CASE ControllerExits(c)
      BY <2>1, ExitsEmpty
    <2>2. CASE pc[c] = "down"
      <3>1. ~Working(c) /\ reply'[c] = Nothing
        BY <1>3, <2>2 DEF WorkKnown, LockStep, Waiting
      <3>2. QED BY <1>1, <3>1, NewWork
    <2>3. QED BY <1>3, <2>1, <2>2, EndsOff DEF Ending
  <1>4. ASSUME NEW c \in Controllers, Working(c)', phase' # "closed"
        PROVE  Dismissed(c)' \/ (phase' = "run" /\ c \in known')
    <2>1. CASE phase' = "run" /\ c \in known' /\ reply'[c] # Nothing
      BY <2>1
    <2>2. CASE Working(c)
      <3>1. pc[c] # "down" /\ phase # "closed"
        BY <1>4, <2>2, MasterMoves
           DEF WorkKnown, Learns, Leaves, Dismisses, HandleWhileStopping, Serving,
               ExpireStep, ExpireController, PollTimesOut
      <3>2. CASE Dismissed(c)
        BY <1>4, <3>1, <3>2, StillDismissed
      <3>3. CASE phase = "run" /\ c \in known
        <4>1. CASE c \in known'
          BY <3>3, <4>1, LeftAlone
        <4>2. CASE c \notin known'
          BY <3>3, <4>2, ForgottenDismissed
        <4>3. QED BY <4>1, <4>2
      <3>4. QED BY <2>2, <3>1, <3>2, <3>3 DEF WorkKnown
    <2>3. QED BY <1>1, <1>4, <2>1, <2>2, NewWork
  <1>5. \A c \in Controllers : Ending(c)' => ~run'[c]
    BY EndsOff
  <1>6. QED BY <1>2, <1>3, <1>4, <1>5 DEF WorkKnown

(* The master never leaves its loop behind a controller that still has a   *)
(* task or a result, as long as no peer is slower than the other's timeout *)
(* and there are no more controllers than max_error_count: that controller *)
(* was sent its ExitCommand, or it had stopped by itself.  It holds        *)
(* whatever stops the controllers and kills workers, and with redispatch;  *)
(* but the answer to what a crashed controller has left behind dismisses   *)
(* the one that was started in its place.                                  *)
THEOREM NobodyLeftBehind ==
    ASSUME "restart" \notin Faults, "timeout" \notin Faults, "crash" \notin Faults,
           IsFiniteSet(Controllers), Cardinality(Controllers) <= MaxErrors
    PROVE  Spec => []WorkingControllersDismissed
  <1> DEFINE I == /\ TypeInv /\ LockStep /\ NeverInconsistent
                  /\ ErrorBudget /\ WorkKnown
  <1>1. Init => I
    <2> SUFFICES ASSUME Init PROVE I
      OBVIOUS
    <2>1. ErrorBudget
      BY DEF Init, MasterInit, ErrorBudget
    <2>2. \A c \in Controllers : ~Working(c)
      BY InitHolds DEF Working
    <2>3. WorkKnown
      BY <2>2 DEF Init, WireInit, ControllerInit, WorkKnown, Ending
    <2>4. QED BY <2>1, <2>3, InitType, LockStepHolds, ConsistentStep
  <1>2. I /\ [Next]_vars => I'
    <2> SUFFICES ASSUME I, [Next]_vars PROVE I'
      OBVIOUS
    <2>1. TypeInv' /\ LockStep' /\ NeverInconsistent'
      BY NextType, LockStepHolds, ConsistentStep
    <2>2. ErrorBudget'
      BY <2>1, BudgetStep
    <2>3. WorkKnown'
      BY <2>1, WorkKnownStep
    <2>4. QED BY <2>1, <2>2, <2>3
  <1>3. I => WorkingControllersDismissed
    <2> SUFFICES ASSUME I, phase = "closing", NEW p \in Places, NEW t \in Tids,
                        p[1] # "stale", Holds(p, t)
                 PROVE  Dismissed(p[2])
      BY DEF WorkingControllersDismissed
    <2>1. p[2] \in Controllers
      BY PlaceCases
    <2>2. Working(p[2])
      BY DEF Working, Holds
    <2>3. QED BY <2>1, <2>2 DEF WorkKnown
  <1> HIDE DEF I
  <1>4. QED BY <1>1, <1>2, <1>3, PTL DEF Spec
=============================================================================
