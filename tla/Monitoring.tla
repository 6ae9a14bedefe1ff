----------------------------- MODULE Monitoring -----------------------------
(***************************************************************************)
(* The monitoring use cases from the workers on: I/O tasks that send their *)
(* results to the database proxy, or file creation checks that send theirs *)
(* to the Pushgateway client.  The task definition says which.             *)
(***************************************************************************)
EXTENDS DatabaseProxy, PushgatewayClient

vars == <<taskVars, sinkVars, proxyVars, clientVars>>

TypeOK == SinkTypeOK /\ TaskTypeOK /\ ProxyTypeOK /\ ClientTypeOK

Init == SinkInit /\ TaskInit /\ ProxyInit /\ ClientInit

Tasks ==
    /\ TaskStep
    /\ UNCHANGED <<inbox, sink, run, timeVars, proxyVars, clientVars>>

Sockets ==
    /\ \E r \in Results : Deliver(r) \/ Expire(r)
    /\ UNCHANGED <<taskVars, proxyVars, clientVars>>

Kept == IF Checking THEN errorMetric \/ metrics # NoMetrics ELSE buffer # << >>

Time == Tick(Kept) /\ UNCHANGED <<taskVars, proxyVars, clientVars>>

Sink ==
    /\ \/ Checking /\ ClientIteration /\ UNCHANGED proxyVars
       \/ ~Checking /\ ProxyStep /\ UNCHANGED clientVars
    /\ UNCHANGED taskVars

Operator == SinkSignal /\ UNCHANGED <<taskVars, proxyVars, clientVars>>

Next == Tasks \/ Sockets \/ Time \/ Sink \/ Operator

Spec == Init /\ [][Next]_vars

(***************************************************************************)
(* The program that receives keeps running, and time passes; the mail      *)
(* timer goes off if it is not cancelled; a Pushgateway that is asked      *)
(* again and again answers at last.  Nothing is assumed of the tasks.      *)
(***************************************************************************)
Pushes == Sink /\ Checking /\ due /\ pushFailed' = FALSE
Timers == Tasks /\ \E e \in Executions : TimerFires(e)

FairSpec ==
    /\ Spec
    /\ WF_vars(Sink \/ Time) /\ WF_vars(Timers) /\ SF_vars(Pushes)

-----------------------------------------------------------------------------
(* The result of an I/O task is about its OST.  A file that an earlier     *)
(* execution has left makes no difference; it takes another execution of   *)
(* the same task at the same time, whose removal of the file lets open()   *)
(* create it anywhere, or Lustre itself.                                   *)
MeasuresItsOst ==
    \A e \in Executions \ (shared \union trouble) : measured[e] \subseteq {OstOf[e]}

(* Every execution that nothing happens to sends its results, a check one  *)
(* for each MDT whatever the others gave, and whoever was killed on the    *)
(* same file before.                                                       *)
EveryExecutionReports ==
    \A e \in Executions \ (shared \union trouble) :
       at[e] = "done" =>
          sent[e] = IF Checking THEN {definition.mdts[k] : k \in DOMAIN definition.mdts}
                                ELSE {NoMdt}

(* A write or read that hangs for ever does not go unnoticed.              *)
AlertWhileHanging ==
    <>[](\A e \in Executions :
           Alerting /\ at[e] \in {"writing", "reading"} => alerted[e])

(* No result is in the table twice, unless a store has failed with it: an  *)
(* INSERT that raises may have inserted rows that are inserted again.      *)
StoredOnce ==
    \A e \in Executions : rows[e] <= failed[e] + IF e \in InBuffer THEN 0 ELSE 1

(* A result leaves the buffer for the table, or with a program that could  *)
(* not store it at its end: a store that fails in the loop is tried again. *)
NothingForgotten ==
    [][\A e \in InBuffer : \/ e \in {buffer'[k] : k \in DOMAIN buffer'}
                           \/ rows'[e] > rows[e] \/ sink' = "down"]_vars

(* However results arrive, none is kept for longer than the interval and   *)
(* two polls, one in which the interval ends and one before the loop looks *)
(* at the clock, and no more than store_max_count are.  A push that fails  *)
(* is tried again in every iteration.                                      *)
NotKeptTooLong ==
    /\ Len(buffer) <= StoreMaxCount
    /\ age < KeepTime \/ pushFailed

(* A failed check, or an error, gets to the Pushgateway although pushes    *)
(* may fail, unless a later check has succeeded or the client is stopped   *)
(* before.                                                                 *)
FailuresReported ==
    /\ \A p \in CheckedOsts \X Mdts :
          metrics[p] = "FAILED" ~>
             pushed.metrics[p] # NoState \/ metrics[p] = "OK" \/ ~run
    /\ errorMetric ~> pushed.error \/ ~run

(* Both programs end when they are told to, whatever still arrives.        *)
SinkEnds == ~run ~> sink = "down"
=============================================================================
