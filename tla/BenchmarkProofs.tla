-------------------------- MODULE BenchmarkProofs --------------------------
(***************************************************************************)
(* Theorems about Benchmark for every number of controllers, workers and   *)
(* tasks.                                                                  *)
(***************************************************************************)
EXTENDS Benchmark, DispatchProofs

-----------------------------------------------------------------------------
(***************************************************************************)
(* The benchmark is one of the generators Dispatch allows.                 *)
(***************************************************************************)
LEMMA BenchmarkMoves == [BenchmarkNext]_benchmarkVars => [Next]_vars
  <1> SUFFICES ASSUME [BenchmarkNext]_benchmarkVars PROVE [Next]_vars
    OBVIOUS
  <1>1. CASE SystemStep
    BY <1>1 DEF SystemStep, Next
  <1>2. CASE BenchmarkStep
    <2>1. ASSUME FillQueue PROVE GeneratorNext \/ UNCHANGED genVars
      <3>1. CASE Tids = {}
        BY <2>1, <3>1 DEF FillQueue
      <3>2. CASE Tids # {}
        <4>1. Tids \in (SUBSET Tids) \ {{}}
          BY <3>2
        <4>2. Refill(Tids)
          BY <2>1, <3>2 DEF FillQueue
        <4>3. QED BY <4>1, <4>2 DEF GeneratorNext
      <3>3. QED BY <3>1, <3>2
    <2>2. ASSUME CountResult \/ AllCounted \/ Interrupted PROVE GeneratorNext
      BY <2>2 DEF CountResult, AllCounted, Interrupted, GeneratorNext
    <2>3. GeneratorStep \/ UNCHANGED vars
      BY <1>2, <2>1, <2>2 DEF BenchmarkStep, GeneratorStep, vars, genVars
    <2>4. QED BY <2>3 DEF Next
  <1>3. CASE UNCHANGED benchmarkVars
    BY <1>3 DEF benchmarkVars
  <1>4. QED BY <1>1, <1>2, <1>3 DEF BenchmarkNext

(* Every run of the system with the benchmark generator is one of the      *)
(* system with the most general generator: what is proved of Dispatch      *)
(* holds of the benchmark.                                                 *)
THEOREM BenchmarkIsDispatch == BenchmarkSpec => Spec
  <1>1. BenchmarkInit => Init
    BY DEF BenchmarkInit
  <1>2. QED BY <1>1, BenchmarkMoves, PTL DEF BenchmarkSpec, Spec

-----------------------------------------------------------------------------
(***************************************************************************)
(* Counting.                                                               *)
(***************************************************************************)
FinishedTids == {t \in Tids : status[t].state = "finished"}

(* A task waits to be dispatched only once; before the task list is        *)
(* published nothing is.                                                   *)
DispatchedOnce ==
    /\ filled \in BOOLEAN /\ completed \in Nat
    /\ \A t \in offered : status[t].state = "unknown"
    /\ ~filled => /\ offered = {} /\ completed = 0
                  /\ \A t \in Tids : status[t].state = "unknown" /\ reported[t] = 0

(* The equation holds after the generator's end too; while the master is   *)
(* there the generator ends only when it has counted all.                  *)
Counted ==
    /\ completed + Cardinality(InQueue(Tids)) = Cardinality(FinishedTids)
    /\ ~genAlive => phase = "closed" \/ completed >= NumTasks

LEMMA QueueFinite ==
    ASSUME GenTypeOK
    PROVE  /\ IsFiniteSet(InQueue(Tids)) /\ Cardinality(InQueue(Tids)) \in Nat
           /\ IsFiniteSet(FinishedTids) /\ Cardinality(FinishedTids) \in Nat
           /\ Cardinality(FinishedTids) <= NumTasks /\ NumTasks \in Nat
           /\ Cardinality(FinishedTids) = NumTasks => FinishedTids = Tids
  <1>1. IsFiniteSet(1 .. MaxReported)
    BY MaxReportedAssumption, FS_Interval
  <1>2. IsFiniteSet(Tids \X (1 .. MaxReported))
    BY <1>1, TidsAssumption, FS_Product
  <1>3. InQueue(Tids) \subseteq Tids \X (1 .. MaxReported) /\ FinishedTids \subseteq Tids
    BY DEF InQueue, FinishedTids
  <1>4. QED
    BY <1>2, <1>3, TidsAssumption, FS_Subset, FS_CardinalityType DEF NumTasks

LEMMA QueueAdds ==
    ASSUME GenTypeOK, NEW t \in Tids, PushResult(t)
    PROVE  Cardinality(InQueue(Tids))' = Cardinality(InQueue(Tids)) + 1
  <1> DEFINE new == <<t, reported[t] + 1>>
  <1>1. /\ reported \in [Tids -> 0 .. MaxReported]
        /\ reported' = [reported EXCEPT ![t] = reported[t] + 1]
        /\ reported[t] < MaxReported
    BY DEF GenTypeOK, PushResult
  <1>2. new \in Tids \X (1 .. MaxReported)
    BY <1>1, MaxReportedAssumption
  <1>3. ASSUME NEW r \in Tids \X (1 .. MaxReported)
        PROVE  r[2] <= reported'[r[1]] <=> r[2] <= reported[r[1]] \/ r = new
    <2>1. r[1] \in Tids /\ r[2] \in 1 .. MaxReported /\ r = <<r[1], r[2]>>
      OBVIOUS
    <2>2. CASE r[1] = t
      BY <1>1, <2>1, <2>2
    <2>3. CASE r[1] # t
      BY <1>1, <2>1, <2>3
    <2>4. QED BY <2>2, <2>3
  <1>4. InQueue(Tids)' = InQueue(Tids) \union {new} /\ new \notin InQueue(Tids)
    BY <1>1, <1>2, <1>3 DEF InQueue
  <1>5. Cardinality(InQueue(Tids) \union {new}) = Cardinality(InQueue(Tids)) + 1
    BY <1>4, QueueFinite, FS_AddElement
  <1>6. QED BY <1>4, <1>5

LEMMA QueueRemoves ==
    ASSUME GenTypeOK, NEW t \in Tids, Collect(t)
    PROVE  Cardinality(InQueue(Tids))' = Cardinality(InQueue(Tids)) - 1
  <1> DEFINE old == <<t, reported[t]>>
  <1>1. /\ reported \in [Tids -> 0 .. MaxReported]
        /\ reported' = [reported EXCEPT ![t] = reported[t] - 1]
        /\ reported[t] > 0
    BY DEF GenTypeOK, Collect
  <1>2. old \in Tids \X (1 .. MaxReported)
    BY <1>1, MaxReportedAssumption
  <1>3. ASSUME NEW r \in Tids \X (1 .. MaxReported)
        PROVE  r[2] <= reported'[r[1]] <=> r[2] <= reported[r[1]] /\ r # old
    <2>1. r[1] \in Tids /\ r[2] \in 1 .. MaxReported /\ r = <<r[1], r[2]>>
      OBVIOUS
    <2>2. CASE r[1] = t
      BY <1>1, <2>1, <2>2
    <2>3. CASE r[1] # t
      BY <1>1, <2>1, <2>3
    <2>4. QED BY <2>2, <2>3
  <1>4. InQueue(Tids)' = InQueue(Tids) \ {old} /\ old \in InQueue(Tids)
    BY <1>1, <1>2, <1>3 DEF InQueue
  <1>5. Cardinality(InQueue(Tids) \ {old}) = Cardinality(InQueue(Tids)) - 1
    BY <1>4, QueueFinite, FS_RemoveElement
  <1>6. QED BY <1>4, <1>5

(* What the rest of the system does to the count.                          *)
LEMMA SystemCounts ==
    ASSUME "restart" \notin Faults, SystemStep
    PROVE  /\ UNCHANGED <<genAlive, filled, completed>>
           /\ phase = "closed" => phase' = "closed"
           /\ \/ UNCHANGED <<status, reported>> /\ offered' \subseteq offered
              \/ \E c \in Controllers, t \in Tids :
                    AssignTask(c, t) \/ FinishedByAssignee(c, t)
  <1>1. UNCHANGED <<filled, completed>>
    BY DEF SystemStep
  <1>2. ASSUME NEW c \in Controllers,
               \/ TaskRequestNoTask(c) \/ TaskRequestGeneratorGone(c)
               \/ HandleHeartbeat(c)
               \/ \E t \in Tids : FinishedByOther(c, t) \/ FinishedUnknown(c, t)
               \/ \E m \in Requests : HandleWhileStopping(c, m)
        PROVE  /\ UNCHANGED <<genAlive, status, reported, offered>>
               /\ phase = "run"
    BY <1>2 DEF TaskRequestNoTask, TaskRequestGeneratorGone, HandleHeartbeat, FinishedByOther,
                FinishedUnknown, HandleWhileStopping, Distributing, Serving, genVars
  <1>3. ASSUME NEW c \in Controllers, NEW t \in Tids, AssignTask(c, t) \/ IgnoreTask(c, t)
        PROVE  /\ genAlive' = genAlive /\ phase = "run"
               /\ \/ UNCHANGED <<status, reported>> /\ offered' \subseteq offered
                  \/ AssignTask(c, t)
    BY <1>3 DEF AssignTask, IgnoreTask, PopTask, Distributing, Serving
  <1>4. ASSUME NEW c \in Controllers, NEW t \in Tids, FinishedByAssignee(c, t)
        PROVE  genAlive' = genAlive /\ phase = "run"
    BY <1>4 DEF FinishedByAssignee, PushResult, Distributing, Serving
  <1>5. ASSUME PollTimeoutAllDown \/ CloseSocket
        PROVE  /\ UNCHANGED <<genAlive, status, reported, offered>>
               /\ phase # "closed"
    BY <1>5 DEF PollTimeoutAllDown, CloseSocket, PollTimesOut, genVars
  <1>6. CASE MasterStep
    BY <1>1, <1>2, <1>3, <1>4, <1>5, <1>6 DEF MasterStep, MasterNext
  <1>7. CASE OperatorStep
    BY <1>1, <1>7 DEF OperatorStep, MasterSignal, RestartMaster, masterVars, genVars
  <1>8. ASSUME NEW c \in Controllers, ExpireStep(c)
        PROVE  /\ UNCHANGED <<genAlive, status, reported, offered>>
               /\ phase # "closed"
    BY <1>8 DEF ExpireStep, ExpireController, PollTimesOut, genVars
  <1>9. ASSUME NEW c \in Controllers, LocalStep(c)
        PROVE  UNCHANGED <<genAlive, status, reported, offered, phase>>
    BY <1>9 DEF LocalStep, masterVars, genVars
  <1>10. QED BY <1>1, <1>6, <1>7, <1>8, <1>9 DEF SystemStep

LEMMA OnceStep ==
    ASSUME "restart" \notin Faults, TypeInv, DispatchedOnce,
           [BenchmarkNext]_benchmarkVars
    PROVE  DispatchedOnce'
  <1>1. /\ offered \subseteq Tids /\ reported \in [Tids -> 0 .. MaxReported]
        /\ status \in [Tids -> TaskStatus]
    BY DEF TypeInv, TypeOK, GenTypeOK, MasterTypeOK
  <1>2. CASE SystemStep
    <2>1. UNCHANGED <<filled, completed>>
      BY <1>2, SystemCounts
    <2>2. CASE UNCHANGED <<status, reported>> /\ offered' \subseteq offered
      BY <2>1, <2>2 DEF DispatchedOnce
    <2>3. ASSUME NEW c \in Controllers, NEW t \in Tids, AssignTask(c, t)
          PROVE  DispatchedOnce'
      <3>1. /\ filled /\ offered' = offered \ {t}
            /\ status' = [status EXCEPT ![t] = Assigned(c)]
        BY <2>3 DEF AssignTask, PopTask, DispatchedOnce
      <3>2. QED BY <1>1, <2>1, <3>1 DEF DispatchedOnce
    <2>4. ASSUME NEW c \in Controllers, NEW t \in Tids, FinishedByAssignee(c, t)
          PROVE  DispatchedOnce'
      <3>1. /\ filled /\ offered' = offered /\ t \notin offered
            /\ status' = [status EXCEPT ![t].state = "finished"]
        BY <1>1, <2>4 DEF FinishedByAssignee, PushResult, DispatchedOnce
      <3>2. QED BY <1>1, <2>1, <3>1 DEF DispatchedOnce
    <2>5. QED BY <1>2, <2>2, <2>3, <2>4, SystemCounts
  <1>3. CASE BenchmarkStep
    <2>1. status' = status
      BY <1>3 DEF BenchmarkStep, masterVars
    <2>2. CASE FillQueue
      <3>1. offered' \subseteq Tids /\ filled' = TRUE /\ ~filled /\ completed' = completed
        BY <1>1, <2>2 DEF FillQueue, Refill, genVars
      <3>2. QED BY <1>1, <2>1, <3>1 DEF DispatchedOnce
    <2>3. CASE CountResult
      BY <2>1, <2>3 DEF CountResult, Collect, DispatchedOnce
    <2>4. CASE AllCounted \/ Interrupted
      <3>1. UNCHANGED <<filled, completed, reported>> /\ offered' \subseteq offered
        BY <2>4 DEF AllCounted, Interrupted, GeneratorExits
      <3>2. QED BY <2>1, <3>1 DEF DispatchedOnce
    <2>5. QED BY <1>3, <2>2, <2>3, <2>4 DEF BenchmarkStep
  <1>4. CASE UNCHANGED benchmarkVars
    BY <1>4 DEF benchmarkVars, vars, masterVars, genVars, DispatchedOnce
  <1>5. QED BY <1>2, <1>3, <1>4 DEF BenchmarkNext

LEMMA OnceNeverResent == ASSUME DispatchedOnce PROVE NoRedispatch
  BY DEF DispatchedOnce, NoRedispatch, ResendDue

(* A task is finished from the place that says it is assigned.             *)
LEMMA FinishedOnce ==
    ASSUME TypeInv, ExclusiveAssignment, NEW c \in Controllers, NEW t \in Tids,
           FinishedByAssignee(c, t)
    PROVE  /\ t \notin FinishedTids
           /\ FinishedTids' = FinishedTids \union {t}
  <1>1. request[c] = TaskFinished(t) \/ <<c, TaskFinished(t)>> \in stale
    BY DEF FinishedByAssignee, Distributing, Serving, Arrived
  <1>2. Copies(<<"request", c>>, t) > 0 \/ Copies(<<"stale", c>>, t) > 0
    BY <1>1 DEF Copies
  <1>3. status[t].state = "assigned"
    BY <1>2, PlaceIn, OnePlace
  <1>4. /\ status \in [Tids -> TaskStatus]
        /\ status' = [status EXCEPT ![t].state = "finished"]
    BY DEF FinishedByAssignee, TypeInv, TypeOK, MasterTypeOK
  <1>5. QED BY <1>3, <1>4 DEF FinishedTids, TaskStatus

LEMMA CountedStep ==
    ASSUME "restart" \notin Faults, TypeInv, TypeInv', DispatchedOnce,
           ExclusiveAssignment, Counted, [BenchmarkNext]_benchmarkVars
    PROVE  Counted'
  <1>1. /\ GenTypeOK /\ offered \subseteq Tids
        /\ status \in [Tids -> TaskStatus]
    BY DEF TypeInv, TypeOK, GenTypeOK, MasterTypeOK
  <1>2. /\ completed \in Nat /\ Cardinality(InQueue(Tids)) \in Nat
        /\ Cardinality(FinishedTids) \in Nat
    BY <1>1, QueueFinite DEF DispatchedOnce
  <1>3. CASE SystemStep
    <2>1. /\ UNCHANGED <<genAlive, completed>>
          /\ phase = "closed" => phase' = "closed"
      BY <1>3, SystemCounts
    <2>2. ASSUME completed + Cardinality(InQueue(Tids))' = Cardinality(FinishedTids)'
          PROVE  Counted'
      BY <2>1, <2>2 DEF Counted, NumTasks
    <2>3. CASE UNCHANGED <<status, reported>>
      BY <2>2, <2>3 DEF Counted, InQueue, FinishedTids
    <2>4. ASSUME NEW c \in Controllers, NEW t \in Tids, AssignTask(c, t)
          PROVE  Counted'
      <3>1. /\ status[t].state = "unknown" /\ reported' = reported
            /\ status' = [status EXCEPT ![t] = Assigned(c)]
        BY <2>4 DEF AssignTask, PopTask, DispatchedOnce
      <3>2. FinishedTids' = FinishedTids /\ InQueue(Tids)' = InQueue(Tids)
        BY <1>1, <3>1 DEF FinishedTids, InQueue, Assigned
      <3>3. QED BY <2>2, <3>2 DEF Counted
    <2>5. ASSUME NEW c \in Controllers, NEW t \in Tids, FinishedByAssignee(c, t)
          PROVE  Counted'
      <3>1. Cardinality(InQueue(Tids))' = Cardinality(InQueue(Tids)) + 1
        BY <1>1, <2>5, QueueAdds DEF FinishedByAssignee
      <3>2. Cardinality(FinishedTids \union {t}) = Cardinality(FinishedTids) + 1
        BY <1>1, <2>5, FinishedOnce, QueueFinite, FS_AddElement
      <3>3. Cardinality(FinishedTids)' = Cardinality(FinishedTids) + 1
        BY <2>5, <3>2, FinishedOnce
      <3>4. QED BY <1>2, <2>2, <3>1, <3>3 DEF Counted
    <2>6. QED BY <1>3, <2>3, <2>4, <2>5, SystemCounts
  <1>4. CASE BenchmarkStep
    <2>1. status' = status /\ phase' = phase /\ FinishedTids' = FinishedTids
      BY <1>4 DEF BenchmarkStep, masterVars, FinishedTids
    <2>2. ASSUME UNCHANGED <<completed, reported>>,
                 ~genAlive' => ~genAlive \/ phase = "closed" \/ completed >= NumTasks
          PROVE  Counted'
      BY <2>1, <2>2 DEF Counted, InQueue, NumTasks
    <2>3. CASE FillQueue
      BY <2>2, <2>3 DEF FillQueue, Refill, genVars
    <2>4. CASE CountResult
      <3>1. /\ completed' = completed + 1 /\ genAlive
            /\ UNCHANGED genAlive
        BY <2>4 DEF CountResult, Collect
      <3>2. Cardinality(InQueue(Tids))' = Cardinality(InQueue(Tids)) - 1
        BY <1>1, <2>4, QueueRemoves DEF CountResult
      <3>3. QED BY <1>2, <2>1, <3>1, <3>2 DEF Counted
    <2>5. CASE AllCounted \/ Interrupted
      BY <2>2, <2>5 DEF AllCounted, Interrupted, GeneratorExits
    <2>6. QED BY <1>4, <2>3, <2>4, <2>5 DEF BenchmarkStep
  <1>5. CASE UNCHANGED benchmarkVars
    BY <1>5 DEF benchmarkVars, vars, masterVars, genVars, Counted, InQueue, FinishedTids,
                NumTasks
  <1>6. QED BY <1>3, <1>4, <1>5 DEF BenchmarkNext

-----------------------------------------------------------------------------
BInv == TypeInv /\ DispatchedOnce /\ ExclusiveAssignment /\ Counted

LEMMA BInvHolds ==
    ASSUME "restart" \notin Faults
    PROVE  BenchmarkSpec => []BInv
  <1>1. BenchmarkInit => BInv
    <2> SUFFICES ASSUME BenchmarkInit PROVE BInv
      OBVIOUS
    <2>1. TypeInv /\ ExclusiveAssignment
      BY InitType, ExclusiveKept DEF BenchmarkInit
    <2>2. DispatchedOnce
      BY DEF BenchmarkInit, Init, MasterInit, GenInit, Unknown, DispatchedOnce
    <2>3. Counted
      <3>1. InQueue(Tids) = {} /\ FinishedTids = {} /\ genAlive /\ completed = 0
        BY MaxReportedAssumption
           DEF BenchmarkInit, Init, MasterInit, GenInit, Unknown, InQueue, FinishedTids
      <3>2. QED BY <3>1, FS_EmptySet DEF Counted
    <2>4. QED BY <2>1, <2>2, <2>3 DEF BInv
  <1>2. BInv /\ [BenchmarkNext]_benchmarkVars => BInv'
    <2> SUFFICES ASSUME BInv, [BenchmarkNext]_benchmarkVars PROVE BInv'
      OBVIOUS
    <2>1. [Next]_vars /\ NoRedispatch
      BY BenchmarkMoves, OnceNeverResent DEF BInv
    <2>2. TypeInv' /\ ExclusiveAssignment'
      BY <2>1, NextType, ExclusiveKept DEF BInv
    <2>3. QED BY <2>2, OnceStep, CountedStep DEF BInv
  <1>3. QED BY <1>1, <1>2, PTL DEF BenchmarkSpec

(* Of the benchmark's tasks none is in two places, whatever the resend     *)
(* timeout: it offers each task once, so none is ever dispatched again.    *)
THEOREM BenchmarkExclusive ==
    ASSUME "restart" \notin Faults
    PROVE  BenchmarkSpec => []ExclusiveAssignment
  <1>1. BInv => ExclusiveAssignment
    BY DEF BInv
  <1>2. QED BY <1>1, BInvHolds, PTL

(* completed_tasks and the result queue together count every finished task *)
(* once, whatever is timed out, lost, stopped or killed.                   *)
THEOREM CountsEachOnce ==
    ASSUME "restart" \notin Faults
    PROVE  BenchmarkSpec => []CountIsExact
  <1>1. BInv => CountIsExact
    BY DEF BInv, Counted, CountIsExact, FinishedTids
  <1>2. QED BY <1>1, BInvHolds, PTL

(* The benchmark generator ends before the master only with all its tasks  *)
(* done: the end of the generator, which ends the distribution of tasks,   *)
(* drops none.                                                             *)
THEOREM GeneratorEndsLast ==
    ASSUME "restart" \notin Faults
    PROVE  BenchmarkSpec => []EndsWhenAllDone
  <1>1. BInv => EndsWhenAllDone
    <2> SUFFICES ASSUME BInv, phase = "run", ~genAlive
                 PROVE  \A t \in Tids : status[t].state = "finished"
      BY DEF EndsWhenAllDone
    <2>1. GenTypeOK /\ completed \in Nat
      BY DEF BInv, TypeInv, TypeOK, DispatchedOnce
    <2>2. Cardinality(FinishedTids) >= NumTasks
      BY <2>1, QueueFinite DEF BInv, Counted
    <2>3. FinishedTids = Tids
      BY <2>1, <2>2, QueueFinite
    <2>4. QED BY <2>3 DEF FinishedTids
  <1>2. QED BY <1>1, BInvHolds, PTL

(* For the same reason each step of the benchmark is a step of the life of *)
(* its tasks, whatever the resend timeout: each is dispatched once, then   *)
(* executed, then reported, or lost.                                       *)
THEOREM BenchmarkImplementsLifecycle ==
    ASSUME "restart" \notin Faults
    PROVE  BenchmarkSpec => LifecycleImplemented
  <1> DEFINE I == BInv /\ LockStep
  <1>1. BenchmarkInit => Lifecycle!Init
    BY InitLife DEF BenchmarkInit
  <1>2. BenchmarkInit => LockStep
    BY LockStepHolds DEF BenchmarkInit
  <1>3. BInv /\ LockStep /\ [BenchmarkNext]_benchmarkVars => LockStep'
    BY LockStepHolds, BenchmarkMoves DEF BInv
  <1>4. BenchmarkSpec => []I
    BY <1>2, <1>3, BInvHolds, PTL DEF BenchmarkSpec
  <1>5. I /\ I' /\ [BenchmarkNext]_benchmarkVars => [Lifecycle!Next]_life
    <2> SUFFICES ASSUME I, I', [BenchmarkNext]_benchmarkVars
                 PROVE  [Lifecycle!Next]_life
      OBVIOUS
    <2>1. NoRedispatch /\ [Next]_vars
      BY BenchmarkMoves, OnceNeverResent DEF BInv
    <2>2. TypeInv /\ TypeInv' /\ ExclusiveAssignment /\ ExclusiveAssignment'
      BY DEF BInv
    <2>3. QED BY <2>1, <2>2, LifeSteps
  <1> HIDE DEF I
  <1>6. QED
    BY <1>1, <1>4, <1>5, PTL
       DEF BenchmarkSpec, LifecycleImplemented, Lifecycle!Spec, life
=============================================================================
