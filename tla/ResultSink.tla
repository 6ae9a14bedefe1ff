----------------------------- MODULE ResultSink -----------------------------
(***************************************************************************)
(* What cyclone-database-proxy.py and cyclone-pushgateway-client.py share: *)
(* a PULL socket that executed tasks send their results to, and a loop     *)
(* that polls it and acts when an interval is over.  The two programs are  *)
(* DatabaseProxy and PushgatewayClient.                                    *)
(*                                                                         *)
(* A result is <<execution, mdt, state>>.  Results come over a socket of   *)
(* each execution, so their order is open.                                 *)
(***************************************************************************)
EXTENDS Naturals, Sequences

CONSTANTS
    Executions,     \* executions of a task by a worker
    Mdts,           \* MDTs of the file system
    NoMdt,          \* of a result that is about an OST only
    NoState,        \* of such a result, and of what has no metric
    PollTimeout,    \* poll_timeout
    Interval        \* store_timeout or push_interval, in the same unit

ASSUME MdtsAssumption == NoMdt \notin Mdts
ASSUME StateAssumption == NoState \notin {"OK", "FAILED", "ERROR"}
ASSUME TimesAssumption == PollTimeout \in Nat \ {0} /\ Interval \in Nat

States  == {"OK", "FAILED", "ERROR"}
Results == (Executions \X Mdts \X States) \union (Executions \X {NoMdt} \X {NoState})

VARIABLES
    onway,      \* results sent that have not arrived
    inbox,      \* results that have arrived and are not yet received
    sink,       \* where the program's main() is
    run,        \* RUN_FLAG, RUN_CONDITION
    waited,     \* time spent in this poll
    since,      \* time since the last store, or since the last push was due
    due,        \* since >= Interval, when this iteration of the loop began
    age         \* history: time since the oldest result kept was received

timeVars == <<waited, since, due, age>>
sinkVars == <<onway, inbox, sink, run, timeVars>>

(* No result is to be kept any longer than this.                           *)
KeepTime == Interval + 2 * PollTimeout

SinkTypeOK ==
    /\ onway \subseteq Results /\ inbox \subseteq Results
    /\ sink \in {"poll", "final", "down"} /\ run \in BOOLEAN
    /\ waited \in 0 .. PollTimeout /\ since \in 0 .. Interval
    /\ due \in BOOLEAN /\ age \in 0 .. KeepTime

SinkInit ==
    /\ onway = {} /\ inbox = {} /\ sink = "poll" /\ run = TRUE
    /\ waited = 0 /\ since = 0 /\ due = (Interval = 0) /\ age = 0

(***************************************************************************)
(* The sockets.                                                            *)
(***************************************************************************)
Deliver(r) ==
    /\ sink = "poll" /\ r \in onway
    /\ onway' = onway \ {r} /\ inbox' = inbox \union {r}
    /\ UNCHANGED <<sink, run, timeVars>>

(* Nobody listens, and the sender's LINGER is over.                        *)
Expire(r) ==
    /\ sink # "poll" /\ r \in onway
    /\ onway' = onway \ {r}
    /\ UNCHANGED <<inbox, sink, run, timeVars>>

(***************************************************************************)
(* The loop.  An iteration is one step: receive or time out, act if it is  *)
(* time to, go round or leave.  Leaving closes the socket.                 *)
(***************************************************************************)
PollTimesOut == sink = "poll" /\ inbox = {} /\ waited = PollTimeout

(* Results that were not received in time are lost with the socket.        *)
Takes(received) ==
    /\ inbox' = IF sink' = "poll" THEN inbox \ received ELSE {}
    /\ UNCHANGED onway

(* Faulty variant: an exception is caught before the flag is looked at.    *)
GoRoundAlways ==
    /\ UNCHANGED run
    /\ sink' = "poll" /\ waited' = 0 /\ due' = (since' >= Interval)

GoRound ==
    /\ run /\ UNCHANGED run
    /\ sink' = "poll" /\ waited' = 0 /\ due' = (since' >= Interval)

Leave(to) ==
    /\ sink' = to /\ run' = FALSE
    /\ waited' = 0 /\ due' = FALSE

SinkSignal ==
    /\ sink # "down" /\ run /\ run' = FALSE
    /\ UNCHANGED <<onway, inbox, sink, timeVars>>

(* Time passes in the poll only, and the poll ends with the first result.  *)
Tick(kept) ==
    /\ sink = "poll" /\ inbox = {} /\ waited < PollTimeout
    /\ waited' = waited + 1
    /\ since' = IF since < Interval THEN since + 1 ELSE since
    /\ age' = IF ~kept THEN 0 ELSE IF age < KeepTime THEN age + 1 ELSE age
    /\ UNCHANGED <<onway, inbox, sink, run, due>>
=============================================================================
