------------------------ MODULE MonitoringGenerator ------------------------
(***************************************************************************)
(* The generator of the Lustre OST monitoring                              *)
(* (task/generator/lustre_ost_monitoring_task_generator.py) and the task   *)
(* queue it refills, with the parts of the master that meet them: popping  *)
(* a task, and the end of the generator and of the master.  TaskGenerator  *)
(* takes a refill as one step; here it is one step per item, against the   *)
(* feeder thread and the bounded pipe inside a multiprocessing queue.      *)
(***************************************************************************)
EXTENDS Naturals, Sequences, FiniteSets

CONSTANTS
    Osts,               \* OST indexes; a task's tid is its OST index
    Selections,         \* configured values of ost_select_list
    Nobody,             \* the holder of the free lock
    PipeSize,           \* items the pipe of the task queue holds
    ResultPipeSize,     \* tids the pipe of the result queue holds
    MeasureInterval,    \* measure_interval, in seconds
    Waits,              \* how often the master waits a second for the generator
    MaxLate,            \* bound of the model on what a late feeder thread holds
    MayBeKilled         \* the generator may be killed

ASSUME SelectionsAssumption == Selections \subseteq SUBSET Osts
ASSUME SizesAssumption ==
    /\ PipeSize \in Nat \ {0} /\ ResultPipeSize \in Nat
    /\ MeasureInterval \in Nat /\ Waits \in Nat
    /\ MaxLate \in Nat /\ MayBeKilled \in BOOLEAN
ASSUME NobodyAssumption == Nobody \notin {"generator", "master"}

VARIABLES
    at,             \* where run() of the generator is, or how it ended
    selected,       \* ost_select_set
    todo,           \* tasks of task_list that fill() has still to put
    runFlag,        \* _run_flag
    doSleep,        \* InterruptableSleep._do_sleep
    left,           \* seconds the sleep loop has still to go
    buffer,         \* items put that the feeder thread has not yet written
    pipe,           \* items in the pipe of the task queue
    owner,          \* who holds task_queue.lock
    main,           \* where the master is
    distribution,   \* TASK_DISTRIBUTION
    waits,          \* seconds the master still waits for the generator
    assigned,       \* tids that are assigned to a controller
    unread,         \* tids pushed to the result queue, up to one too many
    signalled,      \* history: whether SIGUSR1 found the generator asleep, if sent
    slept,          \* history: seconds slept since SIGUSR1
    late            \* history: the last refill found the feeder thread late

genVars    == <<at, selected, todo, runFlag, doSleep, left>>
queueVars  == <<buffer, pipe>>
masterVars == <<main, distribution, waits, assigned, unread>>
histVars   == <<signalled, slept, late>>
vars == <<genVars, queueVars, owner, masterVars, histVars>>

Ended   == {"finished", "failed", "not empty", "killed"}
IsAlive == at \notin Ended

TypeOK ==
    /\ at \in {"top", "acquire", "clear", "get", "check", "put", "sleep", "asleep"}
              \union Ended
    /\ selected \in Selections /\ todo \subseteq Osts
    /\ runFlag \in BOOLEAN /\ doSleep \in BOOLEAN
    /\ left \in 0 .. MeasureInterval
    /\ buffer \in Seq(Osts) /\ pipe \in Seq(Osts) /\ Len(pipe) <= PipeSize
    /\ owner \in {Nobody, "generator", "master"}
    /\ main \in {"loop", "locked", "waiting", "join", "exit", "down"}
    /\ distribution \in BOOLEAN /\ waits \in 0 .. Waits
    /\ assigned \subseteq Osts /\ unread \in 0 .. ResultPipeSize + 1
    /\ signalled \in {"no", "awake", "asleep"}
    /\ slept \in Nat /\ late \in BOOLEAN

Init ==
    /\ at = "top" /\ selected \in Selections /\ todo = {}
    /\ runFlag = TRUE /\ doSleep = FALSE /\ left = 0
    /\ buffer = << >> /\ pipe = << >> /\ owner = Nobody
    /\ main = "loop" /\ distribution = TRUE /\ waits = Waits
    /\ assigned = {} /\ unread = 0
    /\ signalled = "no" /\ slept = 0 /\ late = FALSE

(***************************************************************************)
(* The generator.                                                          *)
(***************************************************************************)
Goes(from, to) ==
    /\ at = from /\ at' = to
    /\ UNCHANGED <<selected, masterVars, signalled>>

(* os._exit() drops what the feeder thread has not yet written.            *)
Ends(from, how) ==
    /\ Goes(from, how)
    /\ buffer' = << >>
    /\ UNCHANGED <<todo, runFlag, doSleep, left, pipe, slept, late>>

Stays == UNCHANGED <<runFlag, doSleep, left, slept>>

SelectionFound(available) == available # {} /\ selected \subseteq available

(* build_index_set, where it doesn't raise an exception.                   *)
IndexSet(available) == IF selected = {} THEN available ELSE selected

Finish == ~runFlag /\ Ends("top", "finished") /\ UNCHANGED owner

CreateTasks(available) ==
    /\ runFlag
    /\ IF SelectionFound(available)
       THEN /\ Goes("top", "acquire")
            /\ todo' = IndexSet(available)
            /\ Stays /\ UNCHANGED <<queueVars, late>>
       ELSE Ends("top", "failed")
    /\ UNCHANGED owner

Acquire ==
    /\ Goes("acquire", "clear")
    /\ owner = Nobody /\ owner' = "generator"
    /\ Stays /\ UNCHANGED <<todo, queueVars, late>>

(* Faulty variant: clear() takes out one item only.                        *)
ClearOne ==
    /\ pipe # << >>
    /\ Goes("clear", "check")
    /\ pipe' = Tail(pipe)
    /\ Stays /\ UNCHANGED <<todo, buffer, owner, late>>

(* is_empty(), then the loop of clear(): empty() looks at the pipe only.   *)
ClearMore ==
    /\ pipe # << >>
    /\ Goes("clear", "get")
    /\ Stays /\ UNCHANGED <<todo, queueVars, owner, late>>

(* get() waits for an item.                                                *)
ClearGet ==
    /\ Goes("get", "clear")
    /\ pipe # << >> /\ pipe' = Tail(pipe)
    /\ Stays /\ UNCHANGED <<todo, buffer, owner, late>>

ClearDone ==
    /\ pipe = << >> /\ Len(buffer) <= MaxLate
    /\ Goes("clear", "check")
    /\ late' = (buffer # << >>)
    /\ Stays /\ UNCHANGED <<todo, queueVars, owner>>

(* 'Shared Queue is not empty!': the exception leaves the critical section *)
(* and ends the generator.                                                 *)
FillFails ==
    /\ pipe # << >>
    /\ Ends("check", "not empty")
    /\ owner' = Nobody

FillBegins ==
    /\ pipe = << >>
    /\ Goes("check", "put")
    /\ Stays /\ UNCHANGED <<todo, queueVars, owner, late>>

Put(o) ==
    /\ Goes("put", "put")
    /\ o \in todo /\ todo' = todo \ {o}
    /\ buffer' = Append(buffer, o)
    /\ Stays /\ UNCHANGED <<pipe, owner, late>>

(* sleep() of a second or less is one time.sleep(), which no interrupt ends.*)
Interruptable == MeasureInterval > 1

(* The end of the critical section, and the begin of sleep().              *)
BeginSleep ==
    /\ todo = {}
    /\ Goes("put", "sleep")
    /\ owner' = Nobody
    /\ doSleep' = (doSleep \/ Interruptable) /\ left' = MeasureInterval
    /\ UNCHANGED <<todo, runFlag, queueVars, slept, late>>

SleepSecond ==
    \/ /\ Interruptable => doSleep
       /\ left > 0
       /\ Goes("sleep", "asleep")
       /\ Stays /\ UNCHANGED <<todo, queueVars, owner, late>>
    \/ /\ Goes("asleep", "sleep")
       /\ left' = left - 1
       /\ slept' = IF signalled = "no" THEN 0 ELSE slept + 1
       /\ UNCHANGED <<todo, runFlag, doSleep, queueVars, owner, late>>

SleepEnds ==
    /\ (Interruptable /\ ~doSleep) \/ left = 0
    /\ Goes("sleep", "top")
    /\ left' = 0
    /\ UNCHANGED <<todo, runFlag, doSleep, slept, queueVars, owner, late>>

Generator ==
    \/ Finish \/ \E available \in SUBSET Osts : CreateTasks(available)
    \/ Acquire \/ ClearMore \/ ClearGet \/ ClearDone
    \/ FillFails \/ FillBegins \/ \E o \in Osts : Put(o)
    \/ BeginSleep \/ SleepSecond \/ SleepEnds

(* The feeder thread writes an item to the pipe, if there is room.         *)
Feed ==
    /\ IsAlive /\ buffer # << >> /\ Len(pipe) < PipeSize
    /\ pipe' = Append(pipe, Head(buffer))
    /\ buffer' = Tail(buffer)
    /\ UNCHANGED <<genVars, owner, masterVars, histVars>>

(* A process that is killed keeps the lock it holds.                       *)
KillGenerator ==
    /\ MayBeKilled /\ IsAlive
    /\ at' = "killed" /\ buffer' = << >>
    /\ UNCHANGED <<selected, todo, runFlag, doSleep, left, pipe, owner, masterVars, histVars>>

(***************************************************************************)
(* The master.                                                             *)
(***************************************************************************)
MasterOnly == UNCHANGED <<genVars, buffer, waits, histVars>>

(* Faulty variant: the task queue is used without its lock.                *)
UseQueue ==
    /\ main = "loop" /\ main' = "locked" /\ distribution
    /\ MasterOnly /\ UNCHANGED <<pipe, owner, distribution, assigned, unread>>

(* A TASK_REQUEST arrives.  When the lock isn't free for a second the      *)
(* controller has to wait, and nothing changes.                            *)
LockQueue ==
    /\ main = "loop" /\ main' = "locked" /\ distribution
    /\ owner = Nobody /\ owner' = "master"
    /\ MasterOnly /\ UNCHANGED <<pipe, distribution, assigned, unread>>

Unlocks ==
    /\ main = "locked" /\ main' = "loop"
    /\ owner' = IF owner = "master" THEN Nobody ELSE owner
    /\ MasterOnly /\ UNCHANGED unread

(* A task that is still assigned is ignored, unless it is sent again.      *)
PopTask ==
    /\ Unlocks
    /\ pipe # << >> /\ pipe' = Tail(pipe)
    /\ assigned' = assigned \union {Head(pipe)}
    /\ UNCHANGED distribution

(* Faulty variant: the end of the generator isn't noticed.                 *)
SeeQueueEmptyOnly ==
    /\ Unlocks
    /\ pipe = << >>
    /\ UNCHANGED <<pipe, distribution, assigned>>

SeeQueueEmpty ==
    /\ Unlocks
    /\ pipe = << >>
    /\ distribution' = (distribution /\ IsAlive)
    /\ UNCHANGED <<pipe, assigned>>

(* A TASK_FINISHED: result_queue.push(tid), and nobody will ever pop it.   *)
FinishTask(o) ==
    /\ main = "loop" /\ distribution
    /\ o \in assigned /\ assigned' = assigned \ {o}
    /\ unread' = IF unread > ResultPipeSize THEN unread ELSE unread + 1
    /\ MasterOnly /\ UNCHANGED <<pipe, owner, main, distribution>>

(* A signal, or an exception in the main loop.                             *)
StopDistribution ==
    /\ distribution /\ distribution' = FALSE
    /\ MasterOnly /\ UNCHANGED <<pipe, owner, main, assigned, unread>>

(* Faulty variant: the handler doesn't interrupt the sleep.                *)
HandleTerminateAsleep ==
    /\ runFlag' = FALSE /\ UNCHANGED doSleep
    /\ signalled' = IF at \in {"sleep", "asleep"} THEN "asleep" ELSE "awake"

(* The handler of SIGUSR1, in the generator.                               *)
HandleTerminate ==
    /\ runFlag' = FALSE /\ doSleep' = FALSE
    /\ signalled' = IF at \in {"sleep", "asleep"} THEN "asleep" ELSE "awake"

(* Faulty variant: SIGUSR1 isn't sent; SIGTERM, later, has no effect.      *)
LeaveLoopUnsignalled ==
    /\ main = "loop" /\ ~distribution
    /\ main' = IF IsAlive THEN "waiting" ELSE "exit"
    /\ UNCHANGED <<genVars, queueVars, owner,
                   distribution, waits, assigned, unread, histVars>>

LeaveLoop ==
    /\ main = "loop" /\ ~distribution
    /\ IF IsAlive
       THEN main' = "waiting" /\ HandleTerminate
       ELSE main' = "exit" /\ UNCHANGED <<runFlag, doSleep, signalled>>
    /\ UNCHANGED <<at, selected, todo, left, queueVars, owner,
                   distribution, waits, assigned, unread, slept, late>>

(* After the last second terminate() sends SIGTERM, and the generator has  *)
(* inherited the master's handler of it: nothing happens in the generator. *)
WaitForGenerator ==
    /\ main = "waiting"
    /\ IF IsAlive
       THEN IF waits > 0 THEN waits' = waits - 1 /\ UNCHANGED main
                         ELSE main' = "join" /\ UNCHANGED waits
       ELSE main' = "exit" /\ UNCHANGED waits
    /\ UNCHANGED <<genVars, queueVars, owner, distribution, assigned, unread, histVars>>

Join ==
    /\ main = "join" /\ ~IsAlive
    /\ main' = "exit"
    /\ MasterOnly /\ UNCHANGED <<pipe, owner, distribution, assigned, unread>>

(* The interpreter waits until the feeder thread of the result queue has   *)
(* written everything to the pipe, which the master itself holds open.     *)
Exit ==
    /\ main = "exit" /\ unread <= ResultPipeSize
    /\ main' = "down"
    /\ MasterOnly /\ UNCHANGED <<pipe, owner, distribution, assigned, unread>>

Serve == LockQueue \/ PopTask \/ SeeQueueEmpty
Stop  == LeaveLoop \/ WaitForGenerator \/ Join \/ Exit

Next ==
    \/ Generator \/ Feed \/ KillGenerator
    \/ Serve \/ (\E o \in Osts : FinishTask(o)) \/ StopDistribution \/ Stop

Spec == Init /\ [][Next]_vars

(***************************************************************************)
(* The generator, its feeder thread and the master keep running, and as    *)
(* long as tasks are distributed controllers request one.  The lock is     *)
(* free again and again, and whoever tries gets it at last.                *)
(***************************************************************************)
FairSpec ==
    /\ Spec
    /\ WF_vars(Generator) /\ WF_vars(Feed) /\ SF_vars(Acquire)
    /\ WF_vars(PopTask \/ SeeQueueEmpty) /\ SF_vars(LockQueue)
    /\ WF_vars(Stop)

-----------------------------------------------------------------------------
(* clear() takes items out with a get() that waits for one.  It never      *)
(* waits: what empty() has just seen cannot be popped by the master, which *)
(* would leave both of them waiting for ever ("deadlock situation").       *)
ClearNeverBlocks == at = "get" => pipe # << >>

(* After a refill an OST is in the queue once, and nothing of the last     *)
(* interval is left; and fill() does not meet items that clear() has just  *)
(* taken out.  It needs a feeder thread that was not late when clear()     *)
(* looked: under the lock alone neither of them holds.                     *)
CleanRefill ==
    ~late => /\ at # "not empty"
             /\ LET queue == pipe \o buffer IN
                at \notin {"clear", "get"} =>
                   \A j, k \in DOMAIN queue : queue[j] = queue[k] => j = k

(* A generator that is told to end sleeps one more second at most, if it   *)
(* is told so while it sleeps.  Before that the interrupt is lost, and it  *)
(* sleeps for one more interval, but never for two.                        *)
SleepsNoLonger ==
    /\ signalled = "asleep" => slept <= 1
    /\ slept <= MeasureInterval

(* A generator that has ended is noticed, however it ended and whatever it *)
(* left in the queue: tasks are distributed no more.  Only a generator     *)
(* killed in the critical section is not: the master can't get the lock.   *)
EndNoticed == ~IsAlive /\ owner # "generator" ~> ~distribution

(* "Master can be stopped by sending a kill signal": its process ends.     *)
MasterEnds == ~distribution ~> main = "down"

(* It does whatever the generator is doing, asleep, in the critical        *)
(* section or dead; only the tids in the result queue that nobody reads    *)
(* can keep it.                                                            *)
MasterEndsUnlessUnread ==
    ~distribution ~> (main = "down" \/ unread > ResultPipeSize)
=============================================================================
