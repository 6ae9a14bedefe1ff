--------------------------- MODULE TaskGenerator ---------------------------
(***************************************************************************)
(* The most general task generator: the process the master starts from     *)
(* task/generator/, as far as the master can see it.  It shares two queues *)
(* with the master: task_queue, filled by the generator and emptied by the *)
(* master, and result_queue, the other way round.                          *)
(*                                                                         *)
(* The task queue is a set: a tid is published again only after the queue  *)
(* was cleared (monitoring) or its result was seen (migration).            *)
(***************************************************************************)
EXTENDS Naturals, Wire

CONSTANT MaxReported     \* bound of the model on the result queue, per tid

ASSUME MaxReportedAssumption == MaxReported \in Nat \ {0}

VARIABLES
    offered,    \* tids in task_queue
    reported,   \* reported[t]: how often t is in result_queue
    genAlive    \* task_generator.is_alive()

genVars == <<offered, reported, genAlive>>

GenTypeOK ==
    /\ offered \subseteq Tids
    /\ reported \in [Tids -> 0 .. MaxReported]
    /\ genAlive \in BOOLEAN

GenInit ==
    /\ offered = {}
    /\ reported = [t \in Tids |-> 0]
    /\ genAlive = TRUE

(* clear() and fill() under task_queue.lock: benchmark and monitoring.     *)
Refill(S) ==
    /\ genAlive
    /\ offered' = S
    /\ UNCHANGED <<reported, genAlive>>

(* push() of one migration task.                                           *)
Push(t) ==
    /\ genAlive /\ t \notin offered
    /\ offered' = offered \union {t}
    /\ UNCHANGED <<reported, genAlive>>

(* pop() of a tid from the result queue.                                   *)
Collect(t) ==
    /\ genAlive /\ reported[t] > 0
    /\ reported' = [reported EXCEPT ![t] = @ - 1]
    /\ UNCHANGED <<offered, genAlive>>

(* The generator ends, by itself, by an exception or by the master's       *)
(* signal: os._exit drops what its queue feeder has not written yet.       *)
GeneratorExits ==
    /\ genAlive
    /\ genAlive' = FALSE
    /\ offered' \in SUBSET offered
    /\ UNCHANGED reported

(* result_queue.push(tid) of the master.  Bounded for model checking; the  *)
(* queue itself has no limit.                                              *)
PushResult(t) ==
    /\ reported[t] < MaxReported
    /\ reported' = [reported EXCEPT ![t] = @ + 1]
    /\ UNCHANGED <<offered, genAlive>>
=============================================================================
