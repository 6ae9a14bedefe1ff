---------------------------- MODULE LustreTasks ----------------------------
(***************************************************************************)
(* Executions of the three tasks of the Lustre OST monitoring:             *)
(* LustreIOTask, LustreAlertIOTask and LustreFileCreationCheckTask.  Each  *)
(* execution works on a file named after its OST, and the MDT: executions  *)
(* of a task that was sent again share it, and one that was killed leaves  *)
(* it behind.  What Lustre and the disks do is a choice.                   *)
(***************************************************************************)
EXTENDS ResultSink

CONSTANTS
    OstOf,          \* OstOf[e]: the task's ost_idx
    Osts,           \* where Lustre may put a file
    NoFile,         \* content of a path without a file, and no open file
    Definitions     \* [class, mdts, executions]: what the task definition may
                    \* say, mdts the mdt_index_rangeset in its order, and the
                    \* executions there are then: the bound on them

ASSUME OstsAssumption ==
    /\ OstOf \in [Executions -> Osts]
    /\ NoFile \notin Osts /\ NoFile \notin [on : Osts, full : BOOLEAN]
ASSUME DefinitionsAssumption == \A d \in Definitions :
    /\ d.class \in {"LustreIOTask", "LustreAlertIOTask",
                    "LustreFileCreationCheckTask"}
    /\ d.mdts \in Seq(Mdts) /\ d.executions \subseteq Executions

VARIABLES
    definition, \* the task definition all tasks are made from
    at,         \* at[e]: where execute() of e is
    mdt,        \* mdt[e]: position in definition.mdts
    file,       \* file[<<o, m>>]: the path's file
    open,       \* open[e]: OST of the file e is writing or reading
    measured,   \* measured[e]: OSTs that e's result has measured
    state,      \* state[e]: of a creation check, its state for this MDT
    timer,      \* timer[e]: the mail timer runs
    alerted,    \* alerted[e]: an alert was sent in this operation
    sent,       \* sent[e]: history: MDTs e has given a result to a socket of
    shared,     \* history: executions that met another one on their file
    trouble     \* history: executions that were killed, failed before they
                \* measured, or were not given their OST

ioVars   == <<open, measured, timer, alerted>>
taskVars == <<definition, at, mdt, file, ioVars, state, sent, shared, trouble>>

Checking == definition.class = "LustreFileCreationCheckTask"
Alerting == definition.class = "LustreAlertIOTask"

MdtOf(e)    == IF Checking THEN definition.mdts[mdt[e]] ELSE NoMdt
PathOf(e)   == <<OstOf[e], MdtOf(e)>>
Paths       == Osts \X (Mdts \union {NoMdt})
File(o, f)  == [on |-> o, full |-> f]
FileOf(e)   == file[PathOf(e)]

TaskTypeOK ==
    /\ definition \in Definitions
    /\ at \in [Executions -> {"idle", "remove", "stripe", "open", "writing",
                              "reading", "info", "send", "done"}]
    /\ mdt \in [Executions -> Nat \ {0}]
    /\ file \in [Paths -> [on : Osts, full : BOOLEAN] \union {NoFile}]
    /\ open \in [Executions -> Osts \union {NoFile}]
    /\ measured \in [Executions -> SUBSET Osts]
    /\ state \in [Executions -> States \union {NoState}]
    /\ timer \in [Executions -> BOOLEAN] /\ alerted \in [Executions -> BOOLEAN]
    /\ sent \in [Executions -> SUBSET (Mdts \union {NoMdt})]
    /\ shared \subseteq Executions /\ trouble \subseteq Executions

TaskInit ==
    /\ definition \in Definitions
    /\ at = [e \in Executions |-> "idle"] /\ mdt = [e \in Executions |-> 1]
    /\ file = [p \in Paths |-> NoFile] /\ open = [e \in Executions |-> NoFile]
    /\ measured = [e \in Executions |-> {}]
    /\ state = [e \in Executions |-> NoState]
    /\ timer = [e \in Executions |-> FALSE]
    /\ alerted = [e \in Executions |-> FALSE]
    /\ sent = [e \in Executions |-> {}] /\ shared = {} /\ trouble = {}

Executing(e) == at[e] \notin {"idle", "done"}
OnSameFile(e) == {f \in Executions \ {e} : Executing(f) /\ OstOf[f] = OstOf[e]}

Goes(e, from, to) ==
    /\ at[e] = from /\ at' = [at EXCEPT ![e] = to]
    /\ UNCHANGED definition

Sets(e, content) == file' = [file EXCEPT ![PathOf(e)] = content]

(***************************************************************************)
(* execute().                                                              *)
(***************************************************************************)
NothingToCheck == Checking /\ definition.mdts = << >>

StartTask(e) ==
    /\ e \in definition.executions /\ ~NothingToCheck
    /\ Goes(e, "idle", "remove")
    /\ shared' = IF OnSameFile(e) = {} THEN shared
                 ELSE shared \union {e} \union OnSameFile(e)
    /\ UNCHANGED <<mdt, file, ioVars, state, sent, trouble, onway>>

(* An OST that is not active: the check is ignored; an I/O task uses a     *)
(* variable it has not set, and the exception is logged.                   *)
SkipInactive(e) ==
    /\ e \in definition.executions /\ Goes(e, "idle", "done")
    /\ trouble' = trouble \union {e}
    /\ UNCHANGED <<mdt, file, ioVars, state, sent, shared, onway>>

(* A check of no MDT has no iteration.                                     *)
CheckNothing(e) ==
    /\ e \in definition.executions /\ NothingToCheck
    /\ Goes(e, "idle", "done")
    /\ UNCHANGED <<mdt, file, ioVars, state, sent, shared, trouble, onway>>

(* An exception: AutoRemoveFile removes the file; an I/O task ends, and a  *)
(* check has ERROR for its result.                                         *)
Raises(e, from) ==
    /\ Goes(e, from, IF Checking THEN "send" ELSE "done")
    /\ Sets(e, NoFile)
    /\ state' = IF Checking THEN [state EXCEPT ![e] = "ERROR"] ELSE state
    /\ UNCHANGED <<mdt, ioVars, sent, shared, onway>>

(* A command of Lustre fails.                                              *)
CommandFails(e) ==
    /\ \E from \in {"remove", "stripe", "info"} : Raises(e, from)
    /\ trouble' = IF Checking THEN trouble ELSE trouble \union {e}

(* Faulty variant: a file that an earlier execution has left is kept.      *)
KeepOldFile(e) ==
    /\ Goes(e, "remove", "stripe")
    /\ UNCHANGED <<mdt, file, ioVars, state, sent, shared, trouble, onway>>

RemoveOldFile(e) ==
    /\ Goes(e, "remove", "stripe")
    /\ Sets(e, NoFile)
    /\ UNCHANGED <<mdt, ioVars, state, sent, shared, trouble, onway>>

(* set_ost_file_stripe() fails if there is a file.                         *)
SetStripeOfFile(e) ==
    /\ at[e] = "stripe" /\ FileOf(e) # NoFile
    /\ Raises(e, "stripe") /\ UNCHANGED trouble

(* Faulty variant: the file's OST is left to Lustre.                       *)
SetNoStripe(e) ==
    /\ Goes(e, "stripe", IF Checking THEN "info" ELSE "open")
    /\ FileOf(e) = NoFile
    /\ UNCHANGED <<mdt, file, ioVars, state, sent, shared, trouble, onway>>

(* It creates the file, usually on the OST asked for.                      *)
SetStripe(e) ==
    /\ Goes(e, "stripe", IF Checking THEN "info" ELSE "open")
    /\ FileOf(e) = NoFile
    /\ \E o \in Osts :
          /\ Sets(e, File(o, FALSE))
          /\ trouble' = IF Checking \/ o = OstOf[e] THEN trouble
                        ELSE trouble \union {e}
    /\ UNCHANGED <<mdt, ioVars, state, sent, shared, onway>>

(* stripe_info(), the comparison, and the removal of the file.             *)
CheckStripe(e) ==
    \/ /\ Goes(e, "info", "send")
       /\ FileOf(e) # NoFile /\ Sets(e, NoFile)
       /\ state' = [state EXCEPT ![e] =
                       IF FileOf(e).on = OstOf[e] THEN "OK" ELSE "FAILED"]
       /\ UNCHANGED <<mdt, ioVars, sent, shared, trouble, onway>>
    \/ /\ at[e] = "info" /\ FileOf(e) = NoFile
       /\ Raises(e, "info") /\ UNCHANGED trouble

(* An operation begins or ends: so does the timer of LustreAlertIOTask.    *)
Timer(e, on) ==
    /\ timer' = [timer EXCEPT ![e] = on /\ Alerting]
    /\ alerted' = [alerted EXCEPT ![e] = FALSE]

(* open() creates a file that is not there, on any OST.                    *)
OpenToWrite(e) ==
    /\ Goes(e, "open", "writing")
    /\ \E o \in Osts :
          /\ FileOf(e) # NoFile => o = FileOf(e).on
          /\ Sets(e, File(o, FALSE)) /\ open' = [open EXCEPT ![e] = o]
    /\ Timer(e, TRUE)
    /\ UNCHANGED <<mdt, measured, state, sent, shared, trouble, onway>>

Measures(e, ok) ==
    measured' = IF ok THEN [measured EXCEPT ![e] = @ \union {open[e]}] ELSE measured

(* A failure is a result of -1: nothing measured.  Then the file is read,  *)
(* if all of it is there.                                                  *)
WriteToRead(e, ok) ==
    /\ Goes(e, "writing", "reading")
    /\ LET written == IF ok /\ FileOf(e) # NoFile THEN File(FileOf(e).on, TRUE)
                      ELSE FileOf(e) IN
       /\ Sets(e, written)
       /\ open' = [open EXCEPT ![e] = IF written # NoFile /\ written.full
                                      THEN written.on ELSE NoFile]
    /\ Measures(e, ok) /\ Timer(e, TRUE)
    /\ UNCHANGED <<mdt, state, sent, shared, trouble, onway>>

EndRead(e, ok) ==
    /\ Goes(e, "reading", "send")
    /\ ok => open[e] # NoFile
    /\ Measures(e, ok) /\ Timer(e, FALSE)
    /\ Sets(e, NoFile) /\ open' = [open EXCEPT ![e] = NoFile]
    /\ UNCHANGED <<mdt, state, sent, shared, trouble, onway>>

(* send_string() to the database proxy or the Pushgateway client.          *)
SendResult(e) ==
    /\ at[e] = "send"
    /\ onway' = onway \union {<<e, MdtOf(e), state[e]>>}
    /\ sent' = [sent EXCEPT ![e] = @ \union {MdtOf(e)}]
    /\ state' = [state EXCEPT ![e] = NoState]
    /\ IF Checking /\ mdt[e] < Len(definition.mdts)
       THEN Goes(e, "send", "remove") /\ mdt' = [mdt EXCEPT ![e] = @ + 1]
       ELSE Goes(e, "send", "done") /\ UNCHANGED mdt
    /\ UNCHANGED <<file, ioVars, shared, trouble>>

Execute(e) ==
    \/ StartTask(e) \/ SkipInactive(e) \/ CheckNothing(e) \/ CommandFails(e)
    \/ RemoveOldFile(e) \/ SetStripeOfFile(e) \/ SetStripe(e) \/ CheckStripe(e)
    \/ OpenToWrite(e) \/ \E ok \in BOOLEAN : WriteToRead(e, ok) \/ EndRead(e, ok)
    \/ SendResult(e)

SendsAlert(e) ==
    /\ timer' = [timer EXCEPT ![e] = FALSE]
    /\ alerted' = [alerted EXCEPT ![e] = TRUE]
    /\ UNCHANGED <<definition, at, mdt, file, open, measured, state, sent, shared,
                   trouble, onway>>

(* Faulty variant: the timer is started for reading only.                  *)
TimerOfReading(e) == timer[e] /\ at[e] = "reading" /\ SendsAlert(e)

(* mail_threshold has passed: the timer's thread sends a mail.             *)
TimerFires(e) == timer[e] /\ SendsAlert(e)

(* The worker is killed; a result that is not yet on its way is lost.      *)
KillExecution(e) ==
    /\ Executing(e) /\ at' = [at EXCEPT ![e] = "done"]
    /\ timer' = [timer EXCEPT ![e] = FALSE]
    /\ alerted' = [alerted EXCEPT ![e] = FALSE]
    /\ open' = [open EXCEPT ![e] = NoFile]
    /\ measured' = [measured EXCEPT ![e] = {}]
    /\ state' = [state EXCEPT ![e] = NoState] /\ mdt' = [mdt EXCEPT ![e] = 1]
    /\ sent' = [sent EXCEPT ![e] = {}]
    /\ trouble' = trouble \union {e}
    /\ onway' \in {onway, {r \in onway : r[1] # e}}
    /\ UNCHANGED <<definition, file, shared>>

TaskStep == \E e \in Executions : Execute(e) \/ TimerFires(e) \/ KillExecution(e)
=============================================================================
