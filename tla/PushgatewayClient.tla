------------------------- MODULE PushgatewayClient -------------------------
(***************************************************************************)
(* cyclone-pushgateway-client.py with prometheus/lustre_file_creation_     *)
(* check.py: the last state heard of every MDT and OST, and whether there  *)
(* was an error, are pushed once in an interval and then forgotten.        *)
(***************************************************************************)
EXTENDS LustreTasks

VARIABLES
    metrics,        \* check_metrics
    errorMetric,    \* error_metric
    pushed,         \* history: metrics and error this iteration has pushed
    pushFailed      \* the last push has failed

clientVars == <<metrics, errorMetric, pushed, pushFailed>>

CheckedOsts == {OstOf[e] : e \in Executions}
NoMetrics   == [p \in CheckedOsts \X Mdts |-> NoState]
Push(m, err) == [metrics |-> m, error |-> err]

ClientTypeOK ==
    LET Metrics == [CheckedOsts \X Mdts -> {"OK", "FAILED", NoState}] IN
    /\ metrics \in Metrics /\ errorMetric \in BOOLEAN
    /\ pushed \in [metrics : Metrics, error : BOOLEAN]
    /\ pushFailed \in BOOLEAN

ClientInit ==
    /\ metrics = NoMetrics /\ errorMetric = FALSE
    /\ pushed = Push(NoMetrics, FALSE) /\ pushFailed = FALSE

(* process() of a result.                                                  *)
NextMetrics(r) ==
    IF r[3] = "ERROR" THEN metrics
    ELSE [metrics EXCEPT ![<<OstOf[r[1]], r[2]>>] = r[3]]
NextError(r) == errorMetric \/ r[3] = "ERROR"

ClientKeeps(m, err) ==
    /\ metrics' = m /\ errorMetric' = err
    /\ pushed' = Push(NoMetrics, FALSE) /\ UNCHANGED <<since, age>>

(* The next push is due an interval after the begin of this iteration.     *)
PushSucceeds(m, err) ==
    /\ pushed' = Push(m, err)
    /\ metrics' = NoMetrics /\ errorMetric' = FALSE
    /\ since' = (IF waited < Interval THEN waited ELSE Interval) /\ age' = 0
    /\ pushFailed' = FALSE

(* Faulty variant: metrics are cleared before they are pushed.             *)
PushFailsCleared(m, err) ==
    /\ metrics' = NoMetrics /\ errorMetric' = FALSE
    /\ pushed' = Push(NoMetrics, FALSE) /\ UNCHANGED <<since, age>>
    /\ pushFailed' = TRUE

(* The exception is logged, and the next iteration tries again.            *)
PushFails(m, err) == ClientKeeps(m, err) /\ pushFailed' = TRUE

PushOrKeep(m, err) ==
    \/ due /\ (PushSucceeds(m, err) \/ PushFails(m, err))
    \/ ~due /\ ClientKeeps(m, err) /\ UNCHANGED pushFailed

GoRoundOrEnd == GoRound \/ (~run /\ Leave("down"))

ClientIteration ==
    \/ /\ PollTimesOut
       /\ PushOrKeep(metrics, errorMetric)
       /\ GoRoundOrEnd /\ Takes({})
    \/ \E r \in inbox :
          /\ PushOrKeep(NextMetrics(r), NextError(r))
          /\ GoRoundOrEnd /\ Takes({r})
=============================================================================
