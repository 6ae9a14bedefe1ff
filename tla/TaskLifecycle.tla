--------------------------- MODULE TaskLifecycle ---------------------------
(***************************************************************************)
(* What the system promises about one dispatch of a task when tasks are    *)
(* not sent again: it is executed before it is finished, executed at most  *)
(* once, and finished at most once.  It may get lost on the way, and stays *)
(* lost.  A finished task may be dispatched again (monitoring does).       *)
(***************************************************************************)
CONSTANT Tids

VARIABLE life   \* life[t]: how far t has come

Lives == {"new", "dispatched", "running", "executed", "finished", "lost"}

Init == life = [t \in Tids |-> "new"]

(* One task at a time is dispatched, started, executed and reported.  It   *)
(* may be dispatched to one who doesn't listen any more.                   *)
Dispatch == {"new", "finished"} \X {"dispatched", "lost"}
Forward  == Dispatch \union {<<"dispatched", "running">>,
                             <<"running", "executed">>,
                             <<"executed", "finished">>}

(* A connection, a worker or a controller goes, with all it had.           *)
Losses == {"dispatched", "running", "executed"} \X {"lost"}

Move(t) == <<life[t], life'[t]>>

Moves(t) == life'[t] # life[t]

Next ==
    \/ \A t \in Tids : Moves(t) => Move(t) \in Losses
    \/ \E t \in Tids : /\ Move(t) \in Forward
                       /\ \A u \in Tids \ {t} : ~Moves(u)

Spec == Init /\ [][Next]_life
=============================================================================
