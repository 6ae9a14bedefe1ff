-------------------------------- MODULE Wire --------------------------------
(***************************************************************************)
(* The REQ/REP connection between the controllers and the master           *)
(* (comm/controller_handler.py, comm/master_handler.py and the ZeroMQ      *)
(* library behind them) and the messages of msg/ that travel over it.      *)
(*                                                                         *)
(* A REQ socket carries one request at a time.  A controller that gives up *)
(* on an answer closes its socket with LINGER 0 and opens a new one: the   *)
(* request is then dropped, or the master has it already and will handle   *)
(* it as any other, while the answer goes to a connection that is gone.    *)
(***************************************************************************)
CONSTANTS
    Controllers,    \* host names, the sender field of every message
    Tids,           \* task ids
    NoTid,          \* the tid of a message that carries none
    Faults          \* what may go wrong in this instance, see FaultKinds

(***************************************************************************)
(* "timeout"  a peer may be slow enough for the other side's timeout       *)
(* "stop"     an operator may stop controllers                             *)
(* "start"    an operator may start a controller again                     *)
(* "worker"   a worker process may die                                     *)
(* "crash"    a controller may crash, or be killed                         *)
(* "resend"   task_resend_timeout may pass before a task is reported       *)
(* "signal"   an operator may send the master HUP, INT or TERM             *)
(* "restart"  the master may be started again after it has ended           *)
(***************************************************************************)
FaultKinds == {"timeout", "stop", "start", "worker", "crash",
               "resend", "signal", "restart"}

ASSUME FaultsAssumption == Faults \subseteq FaultKinds
ASSUME NoTidAssumption  == NoTid \notin Tids

VARIABLES
    request,    \* request[c]: the request on c's open connection, or Nothing
    stale,      \* <<c, request>> left at the master by a connection c closed
    reply       \* reply[c]: the answer under way to c's open connection

wireVars == <<request, stale, reply>>

Plain(type) == [type |-> type, tid |-> NoTid]
Nothing     == Plain("none")

TaskRequest     == Plain("request")
Heartbeat       == Plain("heartbeat")
TaskFinished(t) == [type |-> "finished", tid |-> t]

TaskAssign(t) == [type |-> "assign", tid |-> t]
Acknowledge   == Plain("ack")
WaitCommand   == Plain("wait")
ExitCommand   == Plain("exit")

Requests == {TaskRequest, Heartbeat} \union {TaskFinished(t) : t \in Tids}
Replies  == {Acknowledge, WaitCommand, ExitCommand}
              \union {TaskAssign(t) : t \in Tids}

WireTypeOK ==
    /\ request \in [Controllers -> Requests \union {Nothing}]
    /\ stale \subseteq Controllers \X Requests
    /\ reply \in [Controllers -> Replies \union {Nothing}]

WireInit ==
    /\ request = [c \in Controllers |-> Nothing]
    /\ stale = {}
    /\ reply = [c \in Controllers |-> Nothing]

(* What the master's poll can return: a request of an open connection, or  *)
(* one whose connection is gone.                                           *)
Arrived(c, m) == m # Nothing /\ (request[c] = m \/ <<c, m>> \in stale)
NothingArrived == stale = {} /\ \A c \in Controllers : request[c] = Nothing

(* The master takes request m of controller c and sends answer r.  A       *)
(* request is taken from the open connection or from a closed one; only    *)
(* the former has somebody to answer to.                                   *)
Answer(c, m, r) ==
    \/ /\ request[c] = m
       /\ request' = [request EXCEPT ![c] = Nothing]
       /\ reply' = [reply EXCEPT ![c] = r]
       /\ UNCHANGED stale
    \/ /\ <<c, m>> \in stale
       /\ stale' = stale \ {<<c, m>>}
       /\ UNCHANGED <<request, reply>>

(* The master takes request m and answers nothing.                         *)
Swallow(c, m) ==
    /\ UNCHANGED reply
    /\ \/ /\ request[c] = m
          /\ request' = [request EXCEPT ![c] = Nothing]
          /\ UNCHANGED stale
       \/ /\ <<c, m>> \in stale
          /\ stale' = stale \ {<<c, m>>}
          /\ UNCHANGED request

Send(c, m) ==
    /\ request' = [request EXCEPT ![c] = m]
    /\ UNCHANGED <<stale, reply>>

(* c closes its socket: the answer under way is lost, the request is lost  *)
(* or stays with the master.  (A second copy of an identical stale request *)
(* is one that was lost.)                                                  *)
CloseConnection(c) ==
    /\ request' = [request EXCEPT ![c] = Nothing]
    /\ reply' = [reply EXCEPT ![c] = Nothing]
    /\ stale' \in {stale} \union
          (IF request[c] = Nothing THEN {} ELSE {stale \union {<<c, request[c]>>}})
=============================================================================
