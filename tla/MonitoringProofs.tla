--------------------------- MODULE MonitoringProofs ---------------------------
(***************************************************************************)
(* Theorems about Monitoring: what a task measures and reports, that each  *)
(* result is in the table at most once, and how long the programs that     *)
(* receive the results may keep them.                                      *)
(***************************************************************************)
EXTENDS Monitoring, TLAPS

Untroubled == Executions \ (shared \union trouble)

-----------------------------------------------------------------------------
(* Where an execution can be, and what its result is made of.              *)
Stages ==
    \A e \in Executions :
       /\ Executing(e) => ~NothingToCheck
       /\ Checking => at[e] \notin {"open", "writing", "reading"}
       /\ at[e] = "idle" => mdt[e] = 1
       /\ at[e] = "writing" => open[e] # NoFile
       /\ ~Checking => at[e] # "info" /\ state[e] = NoState
       /\ Checking /\ Executing(e) => mdt[e] \in DOMAIN definition.mdts
       /\ Checking /\ at[e] = "send" => state[e] \in States

(* An execution that meets no other one works on its own file.             *)
Alone == \A e \in Untroubled : Executing(e) => OnSameFile(e) = {}

OwnsFile(e) ==
    /\ at[e] = "stripe" => FileOf(e) = NoFile
    /\ at[e] \in {"open", "writing"} => FileOf(e) # NoFile /\ FileOf(e).on = OstOf[e]
    /\ at[e] = "writing" => open[e] = OstOf[e]
    /\ at[e] = "reading" => open[e] \in {NoFile, OstOf[e]}
    /\ measured[e] \subseteq {OstOf[e]}

OwnFile == \A e \in Untroubled : OwnsFile(e)

(* What an execution has sent up to now.                                   *)
SentUntil(e) ==
    IF Checking THEN {definition.mdts[k] : k \in {j \in DOMAIN definition.mdts :
                                                   at[e] = "done" \/ j < mdt[e]}}
    ELSE IF at[e] = "done" THEN {NoMdt} ELSE {}

SentInOrder == \A e \in Untroubled : sent[e] = SentUntil(e)

TaskInv == TaskTypeOK /\ Stages /\ Alone /\ OwnFile /\ SentInOrder

-----------------------------------------------------------------------------
(* A result of an I/O task is at one place only.                           *)
NotStored(e) == e \notin InBuffer /\ rows[e] = 0 /\ failed[e] = 0

OnePlace ==
    \A e \in Executions :
       /\ at[e] # "done" => NotStored(e)
       /\ \A r \in onway \union inbox :
             r[1] = e => /\ at[e] = "done" /\ NotStored(e)
                         /\ r = <<e, NoMdt, NoState>>
                         /\ r \notin onway \intersect inbox

TableInv ==
    /\ sink # "poll" => inbox = {}
    /\ ~Checking => OnePlace
    /\ Checking => buffer = << >> /\ \A e \in Executions : rows[e] = 0
    /\ Checking => sink # "final"
    /\ \A e \in Executions :
          /\ sink = "poll" => failed[e] = 0
          /\ sink = "final" => failed[e] <= 1

(* The buffer is stored before it is over store_max_count.                 *)
CountInv ==
    /\ Len(buffer) <= StoreMaxCount
    /\ sink = "poll" => Len(buffer) < StoreMaxCount

(* The time a result was kept is that since the last store, in the poll in *)
(* which the interval ends and in the one after it.                        *)
AgeInv ==
    /\ ~Checking => ~pushFailed /\ (buffer = << >> => age = 0)
    /\ ~pushFailed =>
          /\ age < KeepTime
          /\ sink = "poll" =>
                /\ age <= since \/ since = Interval
                /\ age < Interval + waited + IF due THEN PollTimeout ELSE 0

SinkInv == SinkTypeOK /\ ProxyTypeOK /\ ClientTypeOK
             /\ TableInv /\ StoredOnce /\ CountInv /\ AgeInv
MInv == TaskInv /\ SinkInv

-----------------------------------------------------------------------------
(* The path of an execution's file, and of the files of other OSTs.        *)
LEMMA PathFacts ==
    ASSUME TaskTypeOK, Stages, NEW e \in Executions, Executing(e)
    PROVE  MdtOf(e) \in Mdts \union {NoMdt} /\ PathOf(e) \in Paths
  <1>1. MdtOf(e) \in Mdts \union {NoMdt}
    <2>1. CASE Checking
      <3>1. mdt[e] \in DOMAIN definition.mdts /\ definition.mdts \in Seq(Mdts)
        BY <2>1, DefinitionsAssumption DEF Stages, TaskTypeOK
      <3>2. definition.mdts[mdt[e]] \in Mdts
        BY <3>1
      <3>3. QED BY <2>1, <3>2 DEF MdtOf
    <2>2. CASE ~Checking
      BY <2>2 DEF MdtOf
    <2>3. QED BY <2>1, <2>2
  <1>2. QED BY <1>1, OstsAssumption DEF PathOf, Paths

LEMMA NoPathShared ==
    ASSUME TaskInv, NEW e \in Executions, NEW x \in Untroubled, e # x,
           Executing(e), Executing(x)
    PROVE  PathOf(e) # PathOf(x)
  <1>1. OstOf[e] # OstOf[x]
    BY DEF TaskInv, Alone, OnSameFile, Untroubled
  <1>2. QED BY <1>1 DEF PathOf

LEMMA FileFacts ==
    ASSUME NEW o \in Osts, NEW full \in BOOLEAN
    PROVE  /\ File(o, full) \in [on : Osts, full : BOOLEAN] \union {NoFile}
           /\ File(o, full) # NoFile
           /\ File(o, full).on = o /\ File(o, full).full = full
  BY OstsAssumption DEF File

LEMMA FileType ==
    ASSUME TaskTypeOK, NEW e \in Executions, NEW o \in Osts, Sets(e, File(o, FALSE))
    PROVE  file' \in [Paths -> [on : Osts, full : BOOLEAN] \union {NoFile}]
  <1>1. File(o, FALSE) \in [on : Osts, full : BOOLEAN] \union {NoFile}
    BY FileFacts
  <1>2. QED BY <1>1 DEF TaskTypeOK, Sets

(* Nothing but a task's step is a task's.                                  *)
LEMMA TaskActions ==
    ASSUME NEW e \in Executions, Execute(e) \/ TimerFires(e) \/ KillExecution(e)
    PROVE  /\ UNCHANGED definition
           /\ shared \subseteq shared' /\ trouble \subseteq trouble'
  BY DEF Execute, TimerFires, KillExecution, StartTask, SkipInactive, CheckNothing,
         CommandFails, Raises, RemoveOldFile, SetStripeOfFile, SetStripe, CheckStripe,
         OpenToWrite, WriteToRead, EndRead, SendResult, SendsAlert, Goes

LEMMA TaskTypeStep ==
    ASSUME TaskTypeOK, Stages, NEW e \in Executions,
           Execute(e) \/ TimerFires(e) \/ KillExecution(e)
    PROVE  TaskTypeOK'
  <1> USE OstsAssumption DEF TaskTypeOK, Goes, ioVars
  <1>1. CASE StartTask(e)
    BY <1>1 DEF StartTask, OnSameFile
  <1>2. CASE SkipInactive(e)
    BY <1>2 DEF SkipInactive
  <1>3. CASE CheckNothing(e)
    BY <1>3 DEF CheckNothing
  <1>4. CASE CommandFails(e)
    BY <1>4 DEF CommandFails, Raises, Sets, States
  <1>5. CASE RemoveOldFile(e)
    BY <1>5 DEF RemoveOldFile, Sets
  <1>6. CASE SetStripeOfFile(e)
    BY <1>6 DEF SetStripeOfFile, Raises, Sets, States
  <1>7. CASE SetStripe(e)
    <2>1. file' \in [Paths -> [on : Osts, full : BOOLEAN] \union {NoFile}]
      BY <1>7, FileType DEF SetStripe
    <2>2. trouble' \subseteq Executions
      BY <1>7 DEF SetStripe
    <2>3. QED BY <1>7, <2>1, <2>2 DEF SetStripe
  <1>8. CASE CheckStripe(e)
    BY <1>8 DEF CheckStripe, Raises, Sets, States
  <1>9. CASE OpenToWrite(e)
    <2>1. file' \in [Paths -> [on : Osts, full : BOOLEAN] \union {NoFile}]
      BY <1>9, FileType DEF OpenToWrite
    <2>2. timer' \in [Executions -> BOOLEAN] /\ alerted' \in [Executions -> BOOLEAN]
      BY <1>9 DEF OpenToWrite, Timer
    <2>3. open' \in [Executions -> Osts \union {NoFile}]
      BY <1>9 DEF OpenToWrite
    <2>4. /\ at' = [at EXCEPT ![e] = "writing"]
          /\ UNCHANGED <<definition, mdt, measured, state, sent, shared, trouble>>
      BY <1>9 DEF OpenToWrite
    <2>5. QED BY <2>1, <2>2, <2>3, <2>4
  <1>10. ASSUME NEW ok \in BOOLEAN, WriteToRead(e, ok) PROVE TaskTypeOK'
    <2>1. FileOf(e) \in [on : Osts, full : BOOLEAN] \union {NoFile}
      <3>1. Executing(e)
        BY <1>10 DEF WriteToRead, Executing
      <3>2. QED BY <3>1, PathFacts DEF FileOf
    <2> DEFINE written == IF ok /\ FileOf(e) # NoFile THEN File(FileOf(e).on, TRUE)
                          ELSE FileOf(e)
    <2>2. written \in [on : Osts, full : BOOLEAN] \union {NoFile}
      BY <2>1, FileFacts
    <2>3. /\ file' = [file EXCEPT ![PathOf(e)] = written]
          /\ open' = [open EXCEPT ![e] = IF written # NoFile /\ written.full
                                         THEN written.on ELSE NoFile]
      BY <1>10 DEF WriteToRead, Sets
    <2> HIDE DEF written
    <2>4. /\ file' \in [Paths -> [on : Osts, full : BOOLEAN] \union {NoFile}]
          /\ open' \in [Executions -> Osts \union {NoFile}]
      BY <2>2, <2>3
    <2>5. timer' \in [Executions -> BOOLEAN] /\ alerted' \in [Executions -> BOOLEAN]
      BY <1>10 DEF WriteToRead, Timer
    <2>6. measured' \in [Executions -> SUBSET Osts]
      <3>1. open[e] \in Osts
        BY <1>10 DEF WriteToRead, Stages
      <3>2. QED BY <1>10, <3>1 DEF WriteToRead, Measures
    <2>7. /\ at' = [at EXCEPT ![e] = "reading"]
          /\ UNCHANGED <<definition, mdt, state, sent, shared, trouble>>
      BY <1>10 DEF WriteToRead
    <2>8. QED BY <2>4, <2>5, <2>6, <2>7
  <1>11. ASSUME NEW ok \in BOOLEAN, EndRead(e, ok) PROVE TaskTypeOK'
    BY <1>11 DEF EndRead, Sets, Timer, Measures
  <1>12. CASE SendResult(e)
    <2>1. MdtOf(e) \in Mdts \union {NoMdt}
      BY <1>12, PathFacts DEF SendResult, Executing
    <2>2. sent' \in [Executions -> SUBSET (Mdts \union {NoMdt})]
      BY <1>12, <2>1 DEF SendResult
    <2>3. mdt' \in [Executions -> Nat \ {0}]
      BY <1>12 DEF SendResult
    <2>4. QED BY <1>12, <2>2, <2>3 DEF SendResult
  <1>13. CASE TimerFires(e)
    BY <1>13 DEF TimerFires, SendsAlert
  <1>14. CASE KillExecution(e)
    BY <1>14 DEF KillExecution
  <1>15. QED
    BY <1>1, <1>2, <1>3, <1>4, <1>5, <1>6, <1>7, <1>8, <1>9, <1>10, <1>11, <1>12,
       <1>13, <1>14 DEF Execute

LEMMA StagesStep ==
    ASSUME TaskTypeOK, Stages, NEW e \in Executions,
           Execute(e) \/ TimerFires(e) \/ KillExecution(e)
    PROVE  Stages'
  <1> USE OstsAssumption DEF TaskTypeOK, Stages, Goes, ioVars, Executing
  <1>0. (Checking <=> Checking') /\ (NothingToCheck <=> NothingToCheck')
    BY TaskActions DEF Checking, NothingToCheck
  <1>1. CASE StartTask(e)
    <2>1. definition.mdts \in Seq(Mdts)
      BY DefinitionsAssumption
    <2>2. Checking => 1 \in DOMAIN definition.mdts
      BY <1>1, <2>1 DEF StartTask, NothingToCheck
    <2>3. QED BY <1>0, <1>1, <2>2 DEF StartTask
  <1>2. CASE SkipInactive(e)
    BY <1>0, <1>2 DEF SkipInactive
  <1>3. CASE CheckNothing(e)
    BY <1>0, <1>3 DEF CheckNothing
  <1>4. CASE CommandFails(e)
    BY <1>0, <1>4 DEF CommandFails, Raises, States
  <1>5. CASE RemoveOldFile(e)
    BY <1>0, <1>5 DEF RemoveOldFile
  <1>6. CASE SetStripeOfFile(e)
    BY <1>0, <1>6 DEF SetStripeOfFile, Raises, States
  <1>7. CASE SetStripe(e)
    BY <1>0, <1>7 DEF SetStripe
  <1>8. CASE CheckStripe(e)
    BY <1>0, <1>8 DEF CheckStripe, Raises, States
  <1>9. CASE OpenToWrite(e)
    BY <1>0, <1>9 DEF OpenToWrite
  <1>10. ASSUME NEW ok \in BOOLEAN, WriteToRead(e, ok) PROVE Stages'
    BY <1>0, <1>10 DEF WriteToRead
  <1>11. ASSUME NEW ok \in BOOLEAN, EndRead(e, ok) PROVE Stages'
    BY <1>0, <1>11 DEF EndRead
  <1>12. CASE SendResult(e)
    BY <1>0, <1>12, DefinitionsAssumption DEF SendResult
  <1>13. CASE TimerFires(e)
    BY <1>0, <1>13 DEF TimerFires, SendsAlert
  <1>14. CASE KillExecution(e)
    BY <1>0, <1>14 DEF KillExecution
  <1>15. QED
    BY <1>1, <1>2, <1>3, <1>4, <1>5, <1>6, <1>7, <1>8, <1>9, <1>10, <1>11, <1>12,
       <1>13, <1>14 DEF Execute

LEMMA AloneStep ==
    ASSUME TaskTypeOK, Alone, NEW e \in Executions,
           Execute(e) \/ TimerFires(e) \/ KillExecution(e)
    PROVE  Alone'
  <1> USE DEF TaskTypeOK, Alone, Untroubled, OnSameFile, Executing
  <1>1. CASE StartTask(e)
    BY <1>1 DEF StartTask, Goes
  <1>2. CASE ~StartTask(e)
    <2>1. /\ at' = [at EXCEPT ![e] = at'[e]]
          /\ Executing(e)' => Executing(e)
          /\ shared' = shared
      BY <1>2 DEF Execute, TimerFires, KillExecution, SkipInactive, CheckNothing,
         CommandFails, Raises, RemoveOldFile, SetStripeOfFile, SetStripe, CheckStripe,
         OpenToWrite, WriteToRead, EndRead, SendResult, SendsAlert, Goes
    <2>2. trouble \subseteq trouble'
      BY TaskActions
    <2>3. QED BY <2>1, <2>2
  <1>3. QED BY <1>1, <1>2

(* A step of one execution leaves the others, and their files, as they are.*)
LEMMA OthersUnchanged ==
    ASSUME TaskInv, NEW e \in Executions, NEW x \in Untroubled, x # e,
           Execute(e) \/ TimerFires(e) \/ KillExecution(e)
    PROVE  /\ at'[x] = at[x] /\ mdt'[x] = mdt[x] /\ open'[x] = open[x]
           /\ measured'[x] = measured[x] /\ sent'[x] = sent[x]
           /\ Executing(x) => FileOf(x)' = FileOf(x)
  <1> DEFINE Same == /\ at'[x] = at[x] /\ mdt'[x] = mdt[x] /\ open'[x] = open[x]
                     /\ measured'[x] = measured[x] /\ sent'[x] = sent[x]
             OwnOnly == \A p \in Paths :
                          p # PathOf(e) \/ ~Executing(e) => file'[p] = file[p]
  <1>0. x \in Executions
    BY DEF Untroubled
  <1>1. Same /\ OwnOnly
    <2> USE <1>0 DEF TaskInv, TaskTypeOK, Goes, ioVars, Executing, Sets
    <2>1. CASE StartTask(e)
      BY <2>1 DEF StartTask
    <2>2. CASE SkipInactive(e)
      BY <2>2 DEF SkipInactive
    <2>3. CASE CheckNothing(e)
      BY <2>3 DEF CheckNothing
    <2>4. CASE CommandFails(e)
      BY <2>4 DEF CommandFails, Raises
    <2>5. CASE RemoveOldFile(e)
      BY <2>5 DEF RemoveOldFile
    <2>6. CASE SetStripeOfFile(e)
      BY <2>6 DEF SetStripeOfFile, Raises
    <2>7. CASE SetStripe(e)
      BY <2>7 DEF SetStripe
    <2>8. CASE CheckStripe(e)
      <3>1. Executing(e) /\ Sets(e, NoFile) /\ UNCHANGED <<mdt, ioVars, sent>>
        BY <2>8 DEF CheckStripe, Raises
      <3>2. PICK to : at' = [at EXCEPT ![e] = to]
        BY <2>8, Zenon DEF CheckStripe, Raises
      <3>3. QED BY <3>1, <3>2
    <2>9. CASE OpenToWrite(e)
      BY <2>9 DEF OpenToWrite
    <2>10. ASSUME NEW ok \in BOOLEAN, WriteToRead(e, ok) PROVE Same /\ OwnOnly
      BY <2>10 DEF WriteToRead, Measures
    <2>11. ASSUME NEW ok \in BOOLEAN, EndRead(e, ok) PROVE Same /\ OwnOnly
      BY <2>11 DEF EndRead, Measures
    <2>12. CASE SendResult(e)
      <3>1. UNCHANGED <<file, ioVars>> /\ sent'[x] = sent[x]
        BY <2>12 DEF SendResult
      <3>2. PICK to : at' = [at EXCEPT ![e] = to]
        BY <2>12, Zenon DEF SendResult
      <3>3. mdt' = [mdt EXCEPT ![e] = @ + 1] \/ UNCHANGED mdt
        BY <2>12, Zenon DEF SendResult
      <3>4. QED BY <3>1, <3>2, <3>3
    <2>13. CASE TimerFires(e)
      BY <2>13 DEF TimerFires, SendsAlert
    <2>14. CASE KillExecution(e)
      BY <2>14 DEF KillExecution
    <2>15. QED
      BY <2>1, <2>2, <2>3, <2>4, <2>5, <2>6, <2>7, <2>8, <2>9, <2>10, <2>11, <2>12,
         <2>13, <2>14 DEF Execute
  <1>3. ASSUME Executing(x) PROVE FileOf(x)' = FileOf(x)
    <2>1. PathOf(x)' = PathOf(x) /\ PathOf(x) \in Paths
      BY <1>1, <1>3, TaskActions, PathFacts
         DEF PathOf, MdtOf, Checking, TaskInv, Untroubled
    <2>2. Executing(e) => PathOf(e) # PathOf(x)
      BY <1>3, NoPathShared
    <2>3. QED BY <1>1, <2>1, <2>2 DEF FileOf
  <1>4. QED BY <1>1, <1>3

LEMMA OwnFileStep ==
    ASSUME TaskInv, NEW e \in Executions,
           Execute(e) \/ TimerFires(e) \/ KillExecution(e)
    PROVE  OwnFile'
  <1> SUFFICES ASSUME NEW x \in Untroubled' PROVE OwnsFile(x)'
    BY DEF OwnFile
  <1>1. x \in Untroubled /\ OwnsFile(x)
    BY TaskActions DEF Untroubled, TaskInv, OwnFile
  <1>2. CASE x # e
    BY <1>1, <1>2, OthersUnchanged DEF OwnsFile, Executing
  <1>3. ASSUME x = e, at'[e] \notin {"stripe", "open", "writing", "reading"},
               UNCHANGED measured \/ measured'[e] = {}
        PROVE  OwnsFile(x)'
    BY <1>1, <1>3 DEF OwnsFile
  <1>4. CASE x = e /\ StartTask(e)
    BY <1>3, <1>4 DEF StartTask, Goes, ioVars, TaskInv, TaskTypeOK
  <1>5. CASE x = e /\ SkipInactive(e)
    BY <1>3, <1>5 DEF SkipInactive, Goes, ioVars, TaskInv, TaskTypeOK
  <1>6. CASE x = e /\ CheckNothing(e)
    BY <1>3, <1>6 DEF CheckNothing, Goes, ioVars, TaskInv, TaskTypeOK
  <1>7. CASE x = e /\ CommandFails(e)
    BY <1>3, <1>7 DEF CommandFails, Raises, Goes, ioVars, TaskInv, TaskTypeOK
  <1>8. CASE x = e /\ SetStripeOfFile(e)
    BY <1>3, <1>8 DEF SetStripeOfFile, Raises, Goes, ioVars, TaskInv, TaskTypeOK
  <1>9. CASE x = e /\ CheckStripe(e)
    BY <1>3, <1>9 DEF CheckStripe, Raises, Goes, ioVars, TaskInv, TaskTypeOK
  <1>10. CASE x = e /\ SendResult(e)
    BY <1>3, <1>10 DEF SendResult, Goes, ioVars, TaskInv, TaskTypeOK
  <1>11. CASE x = e /\ KillExecution(e)
    BY <1>3, <1>11 DEF KillExecution, TaskInv, TaskTypeOK
  <1>12. CASE x = e /\ TimerFires(e)
    BY <1>1, <1>12 DEF TimerFires, SendsAlert, OwnsFile, FileOf, PathOf, MdtOf, Checking
  <1>13. ASSUME NEW c, Sets(e, c), Executing(e), UNCHANGED <<definition, mdt>>
         PROVE  FileOf(e)' = c
    <2>1. PathOf(e)' = PathOf(e) /\ PathOf(e) \in Paths
      BY <1>13, PathFacts DEF PathOf, MdtOf, Checking, TaskInv
    <2>2. QED BY <1>13, <2>1 DEF Sets, FileOf, TaskInv, TaskTypeOK
  <1>14. CASE x = e /\ RemoveOldFile(e)
    <2>1. FileOf(e)' = NoFile
      BY <1>13, <1>14 DEF RemoveOldFile, Goes, Executing
    <2>2. QED BY <1>1, <1>14, <2>1 DEF RemoveOldFile, Goes, ioVars, OwnsFile, TaskInv, TaskTypeOK
  <1>15. CASE x = e /\ SetStripe(e)
    <2>1. PICK o \in Osts : /\ Sets(e, File(o, FALSE))
                            /\ trouble' = IF Checking \/ o = OstOf[e] THEN trouble
                                          ELSE trouble \union {e}
      BY <1>15 DEF SetStripe
    <2>2. FileOf(e)' = File(o, FALSE)
      BY <1>13, <1>15, <2>1 DEF SetStripe, Goes, Executing
    <2>3. at'[e] = IF Checking THEN "info" ELSE "open"
      BY <1>15 DEF SetStripe, Goes, TaskInv, TaskTypeOK
    <2>4. ~Checking => o = OstOf[e]
      BY <2>1, <1>15 DEF Untroubled
    <2>5. FileOf(e)' # NoFile /\ FileOf(e)'.on = o
      BY <2>2, FileFacts
    <2>6. QED BY <1>1, <1>15, <2>3, <2>4, <2>5 DEF SetStripe, ioVars, OwnsFile
  <1>16. CASE x = e /\ OpenToWrite(e)
    <2>1. PICK o \in Osts : /\ FileOf(e) # NoFile => o = FileOf(e).on
                            /\ Sets(e, File(o, FALSE))
                            /\ open' = [open EXCEPT ![e] = o]
      BY <1>16 DEF OpenToWrite
    <2>2. o = OstOf[e]
      BY <1>1, <1>16, <2>1 DEF OpenToWrite, Goes, OwnsFile
    <2>3. FileOf(e)' # NoFile /\ FileOf(e)'.on = o
      <3>1. FileOf(e)' = File(o, FALSE)
        BY <1>13, <1>16, <2>1 DEF OpenToWrite, Goes, Executing
      <3>2. QED BY <3>1, FileFacts
    <2>4. at'[e] = "writing" /\ open'[e] = o /\ UNCHANGED measured
      BY <1>16, <2>1 DEF OpenToWrite, Goes, TaskInv, TaskTypeOK
    <2>5. QED BY <1>1, <1>16, <2>2, <2>3, <2>4 DEF OwnsFile
  <1>17. ASSUME x = e, NEW ok \in BOOLEAN, WriteToRead(e, ok) PROVE OwnsFile(x)'
    <2>1. FileOf(e) # NoFile /\ FileOf(e).on = OstOf[e] /\ open[e] = OstOf[e]
      BY <1>1, <1>17 DEF WriteToRead, Goes, OwnsFile
    <2>2. /\ at' = [at EXCEPT ![e] = "reading"]
          /\ open' = [open EXCEPT ![e] = IF ok \/ FileOf(e).full THEN FileOf(e).on
                                         ELSE NoFile]
      <3> DEFINE written == IF ok /\ FileOf(e) # NoFile THEN File(FileOf(e).on, TRUE)
                            ELSE FileOf(e)
      <3>1. /\ at' = [at EXCEPT ![e] = "reading"]
            /\ open' = [open EXCEPT ![e] = IF written # NoFile /\ written.full
                                           THEN written.on ELSE NoFile]
        BY <1>17 DEF WriteToRead, Goes
      <3>2. /\ written # NoFile /\ written.on = FileOf(e).on
            /\ written.full <=> (ok \/ FileOf(e).full)
        <4>1. FileOf(e).on \in Osts
          BY <2>1, OstsAssumption
        <4>2. QED BY <2>1, <4>1, FileFacts
      <3> HIDE DEF written
      <3>3. QED BY <3>1, <3>2
    <2>3. QED BY <1>1, <1>17, <2>1, <2>2
              DEF WriteToRead, Measures, OwnsFile, TaskInv, TaskTypeOK
  <1>18. ASSUME x = e, NEW ok \in BOOLEAN, EndRead(e, ok) PROVE OwnsFile(x)'
    <2>1. ok => open[e] = OstOf[e]
      BY <1>1, <1>18 DEF EndRead, Goes, OwnsFile
    <2>2. QED BY <1>1, <1>18, <2>1
              DEF EndRead, Goes, Measures, OwnsFile, TaskInv, TaskTypeOK
  <1>19. QED
    BY <1>2, <1>4, <1>5, <1>6, <1>7, <1>8, <1>9, <1>10, <1>11, <1>12, <1>14, <1>15,
       <1>16, <1>17, <1>18 DEF Execute

LEMMA SentStep ==
    ASSUME TaskInv, NEW e \in Executions,
           Execute(e) \/ TimerFires(e) \/ KillExecution(e)
    PROVE  SentInOrder'
  <1> SUFFICES ASSUME NEW x \in Untroubled' PROVE sent'[x] = SentUntil(x)'
    BY DEF SentInOrder
  <1>0. /\ x \in Untroubled /\ sent[x] = SentUntil(x)
        /\ definition' = definition /\ (Checking' <=> Checking)
    BY TaskActions DEF Untroubled, TaskInv, SentInOrder, Checking
  <1>1. CASE x # e
    <2>1. at'[x] = at[x] /\ mdt'[x] = mdt[x] /\ sent'[x] = sent[x]
      BY <1>0, <1>1, OthersUnchanged
    <2>2. SentUntil(x)' = SentUntil(x)
      BY <1>0, <2>1 DEF SentUntil
    <2>3. QED BY <1>0, <2>1, <2>2
  <1>2. ASSUME x = e, at[e] # "done", at'[e] # "done", UNCHANGED <<mdt, sent>>
        PROVE  sent'[x] = SentUntil(x)'
    BY <1>0, <1>2 DEF SentUntil
  <1> USE DEF Goes, TaskInv, TaskTypeOK
  <1>3. CASE x = e /\ StartTask(e)
    BY <1>2, <1>3 DEF StartTask
  <1>4. CASE x = e /\ SkipInactive(e)
    BY <1>4 DEF SkipInactive, Untroubled
  <1>5. CASE x = e /\ CheckNothing(e)
    <2>1. /\ at[e] = "idle" /\ at'[e] = "done" /\ UNCHANGED sent
          /\ Checking /\ definition.mdts = << >>
      BY <1>5 DEF CheckNothing, NothingToCheck
    <2>2. QED BY <1>0, <1>5, <2>1 DEF SentUntil
  <1>6. CASE x = e /\ CommandFails(e)
    <2>1. Checking
      BY <1>6 DEF CommandFails, Untroubled
    <2>2. QED BY <1>2, <1>6, <2>1 DEF CommandFails, Raises
  <1>7. CASE x = e /\ RemoveOldFile(e)
    BY <1>2, <1>7 DEF RemoveOldFile
  <1>8. CASE x = e /\ SetStripeOfFile(e)
    BY <1>0, <1>8 DEF SetStripeOfFile, OwnFile, OwnsFile
  <1>9. CASE x = e /\ SetStripe(e)
    BY <1>2, <1>9 DEF SetStripe
  <1>10. CASE x = e /\ CheckStripe(e)
    <2>1. /\ at[e] = "info" /\ at' = [at EXCEPT ![e] = "send"] /\ UNCHANGED <<mdt, sent>>
      BY <1>10 DEF CheckStripe, Raises, Stages
    <2>2. QED BY <1>2, <1>10, <2>1
  <1>11. CASE x = e /\ OpenToWrite(e)
    BY <1>2, <1>11 DEF OpenToWrite
  <1>12. ASSUME x = e, NEW ok \in BOOLEAN, WriteToRead(e, ok)
         PROVE  sent'[x] = SentUntil(x)'
    BY <1>2, <1>12 DEF WriteToRead
  <1>13. ASSUME x = e, NEW ok \in BOOLEAN, EndRead(e, ok)
         PROVE  sent'[x] = SentUntil(x)'
    BY <1>2, <1>13 DEF EndRead
  <1>14. CASE x = e /\ SendResult(e)
    <2>1. /\ at[e] = "send"
          /\ sent' = [sent EXCEPT ![e] = @ \union {MdtOf(e)}]
          /\ \/ /\ Checking /\ mdt[e] < Len(definition.mdts)
                /\ at' = [at EXCEPT ![e] = "remove"] /\ mdt' = [mdt EXCEPT ![e] = @ + 1]
             \/ /\ ~(Checking /\ mdt[e] < Len(definition.mdts))
                /\ at' = [at EXCEPT ![e] = "done"] /\ UNCHANGED mdt
      BY <1>14 DEF SendResult
    <2>2. CASE Checking
      <3>1. definition.mdts \in Seq(Mdts) /\ mdt[e] \in DOMAIN definition.mdts
        BY <2>1, <2>2, DefinitionsAssumption DEF Stages, Executing
      <3>2. /\ MdtOf(e) = definition.mdts[mdt[e]]
            /\ DOMAIN definition.mdts = 1 .. Len(definition.mdts)
            /\ mdt[e] \in 1 .. Len(definition.mdts)
        BY <2>2, <3>1 DEF MdtOf
      <3> DEFINE next == {j \in DOMAIN definition.mdts : j < mdt[e] + 1}
      <3>3. \A j \in DOMAIN definition.mdts : j \in next <=> j < mdt[e] \/ j = mdt[e]
        BY <3>2
      <3>4. sent'[e] = {definition.mdts[k] : k \in next}
        BY <1>0, <1>14, <2>1, <2>2, <3>2, <3>3 DEF SentUntil
      <3>5. SentUntil(e)' = {definition.mdts[k] : k \in next}
        <4>1. CASE mdt[e] < Len(definition.mdts)
          BY <1>0, <2>1, <2>2, <4>1 DEF SentUntil
        <4>2. CASE ~(mdt[e] < Len(definition.mdts))
          <5>1. next = DOMAIN definition.mdts /\ at'[e] = "done"
            BY <2>1, <3>2, <4>2
          <5>2. QED BY <1>0, <2>2, <5>1 DEF SentUntil
        <4>3. QED BY <4>1, <4>2
      <3>6. QED BY <1>14, <3>4, <3>5
    <2>3. CASE ~Checking
      BY <1>0, <1>14, <2>1, <2>3 DEF SentUntil, MdtOf
    <2>4. QED BY <2>2, <2>3
  <1>15. CASE x = e /\ TimerFires(e)
    BY <1>0, <1>15 DEF TimerFires, SendsAlert, SentUntil
  <1>16. CASE x = e /\ KillExecution(e)
    BY <1>16 DEF KillExecution, Untroubled
  <1>17. QED
    BY <1>1, <1>3, <1>4, <1>5, <1>6, <1>7, <1>8, <1>9, <1>10, <1>11, <1>12, <1>13,
       <1>14, <1>15, <1>16 DEF Execute

LEMMA TaskInvInitially == Init => TaskInv
  <1> SUFFICES ASSUME Init PROVE TaskInv
    OBVIOUS
  <1> USE DEF Init, TaskInit
  <1>1. TaskTypeOK
    BY OstsAssumption DEF TaskTypeOK
  <1>2. Stages /\ Alone
    BY DEF Stages, Alone, Executing, Untroubled
  <1>3. OwnFile
    BY DEF OwnFile, OwnsFile, Untroubled
  <1>4. SentInOrder
    <2>1. definition.mdts \in Seq(Mdts)
      BY DefinitionsAssumption
    <2>2. \A j \in DOMAIN definition.mdts : ~(j < 1)
      BY <2>1
    <2>3. QED BY <2>2 DEF SentInOrder, SentUntil, Untroubled
  <1>5. QED BY <1>1, <1>2, <1>3, <1>4 DEF TaskInv

LEMMA TaskInvStep == TaskInv /\ [Next]_vars => TaskInv'
  <1> SUFFICES ASSUME TaskInv, [Next]_vars PROVE TaskInv'
    OBVIOUS
  <1>1. ASSUME NEW e \in Executions, Execute(e) \/ TimerFires(e) \/ KillExecution(e)
        PROVE  TaskInv'
    BY <1>1, TaskTypeStep, StagesStep, AloneStep, OwnFileStep, SentStep DEF TaskInv
  <1>2. CASE UNCHANGED taskVars
    <2> USE <1>2 DEF taskVars, ioVars, TaskInv
    <2>1. TaskTypeOK' /\ Stages'
      BY DEF TaskTypeOK, Stages, Executing, Checking, NothingToCheck
    <2>2. Alone'
      BY DEF Alone, Untroubled, OnSameFile, Executing
    <2>3. OwnFile'
      BY DEF OwnFile, OwnsFile, Untroubled, FileOf, PathOf, MdtOf, Checking
    <2>4. SentInOrder'
      BY DEF SentInOrder, SentUntil, Untroubled, Checking
    <2>5. QED BY <2>1, <2>2, <2>3, <2>4
  <1>3. QED
    BY <1>1, <1>2 DEF Next, Tasks, TaskStep, Sockets, Time, Sink, Operator, vars

-----------------------------------------------------------------------------
(* The result of an execution that has its file to itself, and was given   *)
(* the OST it asked for, is about that OST: a file that an earlier         *)
(* execution has left, whole or in part, is never what it measures.        *)
THEOREM MeasuresOnlyItsOst == Spec => []MeasuresItsOst
  <1>1. Spec => []TaskInv
    BY TaskInvInitially, TaskInvStep, PTL DEF Spec
  <1>2. TaskInv => MeasuresItsOst
    BY DEF TaskInv, OwnFile, OwnsFile, Untroubled, MeasuresItsOst
  <1>3. QED BY <1>1, <1>2, PTL

(* An execution that comes to its end has sent what its definition asks    *)
(* for: one result, or one for each MDT of the range set, also if commands *)
(* of Lustre have failed for some of them.                                 *)
THEOREM ReportsAll == Spec => []EveryExecutionReports
  <1>1. Spec => []TaskInv
    BY TaskInvInitially, TaskInvStep, PTL DEF Spec
  <1>2. TaskInv => EveryExecutionReports
    BY DEF TaskInv, SentInOrder, SentUntil, Untroubled, EveryExecutionReports
  <1>3. QED BY <1>1, <1>2, PTL

-----------------------------------------------------------------------------
(* The types of the programs that receive.                                 *)
LEMMA ResultFacts ==
    ASSUME NEW r \in Results
    PROVE  /\ r[1] \in Executions /\ r[3] \in States \union {NoState}
           /\ r[2] \in Mdts \/ r = <<r[1], NoMdt, NoState>>
  BY DEF Results

LEMMA SentResult ==
    ASSUME TaskInv, NEW e \in Executions, SendResult(e)
    PROVE  /\ <<e, MdtOf(e), state[e]>> \in Results
           /\ ~Checking => MdtOf(e) = NoMdt /\ state[e] = NoState
  <1>1. at[e] = "send"
    BY DEF SendResult
  <1>2. CASE Checking
    <2>1. MdtOf(e) \in Mdts
      <3>1. definition.mdts \in Seq(Mdts) /\ mdt[e] \in DOMAIN definition.mdts
        BY <1>1, <1>2, DefinitionsAssumption DEF TaskInv, TaskTypeOK, Stages, Executing
      <3>2. QED BY <1>2, <3>1 DEF MdtOf
    <2>2. state[e] \in States
      BY <1>1, <1>2 DEF TaskInv, Stages
    <2>3. QED BY <1>2, <2>1, <2>2 DEF Results
  <1>3. CASE ~Checking
    BY <1>3 DEF MdtOf, TaskInv, Stages, Results
  <1>4. QED BY <1>2, <1>3

(* What a task does to the sockets.                                        *)
LEMMA TaskSends ==
    ASSUME NEW e \in Executions, Execute(e) \/ TimerFires(e) \/ KillExecution(e)
    PROVE  \/ onway' \subseteq onway
           \/ SendResult(e) /\ onway' = onway \union {<<e, MdtOf(e), state[e]>>}
  BY DEF Execute, TimerFires, KillExecution, StartTask, SkipInactive, CheckNothing,
         CommandFails, Raises, RemoveOldFile, SetStripeOfFile, SetStripe, CheckStripe,
         OpenToWrite, WriteToRead, EndRead, SendResult, SendsAlert

(* The two loops: what they receive, what they do about it, and the end.   *)
LEMMA Rounds ==
    ASSUME ClientIteration \/ ProxyIteration
    PROVE  /\ onway' = onway /\ inbox' \subseteq inbox
           /\ sink' # "poll" => inbox' = {}
           /\ \/ GoRound
              \/ ClientIteration /\ Leave("down")
              \/ ProxyIteration /\ Leave("final")
  <1>1. CASE ClientIteration
    <2>1. GoRoundOrEnd /\ (Takes({}) \/ \E r \in inbox : Takes({r}))
      BY <1>1 DEF ClientIteration
    <2>2. QED BY <1>1, <2>1 DEF GoRoundOrEnd, Takes
  <1>2. CASE ProxyIteration
    <2>1. GoRoundOrLeave \/ Leave("final")
      BY <1>2 DEF ProxyIteration, KeepBuffer, StoreBuffer
    <2>2. Takes({}) \/ \E r \in inbox : Takes({r})
      BY <1>2 DEF ProxyIteration
    <2>3. QED BY <1>2, <2>1, <2>2 DEF GoRoundOrLeave, Takes
  <1>3. QED BY <1>1, <1>2

LEMMA ClientRound ==
    ASSUME ClientIteration
    PROVE  \E m, err :
              /\ PushOrKeep(m, err)
              /\ \/ m = metrics /\ err = errorMetric
                 \/ \E r \in inbox : m = NextMetrics(r) /\ err = NextError(r)
  BY DEF ClientIteration

LEMMA ProxyRound ==
    ASSUME ProxyIteration
    PROVE  \/ /\ KeepBuffer(buffer) \/ StoreBuffer(buffer)
              /\ PollTimesOut /\ Takes({})
           \/ \E r \in inbox :
                 /\ \/ KeepBuffer(Append(buffer, r[1]))
                    \/ StoreBuffer(Append(buffer, r[1]))
                 /\ Takes({r})
  BY DEF ProxyIteration

LEMMA RoundTypes ==
    ASSUME SinkTypeOK, GoRound \/ Leave("down") \/ Leave("final")
    PROVE  /\ sink' \in {"poll", "final", "down"} /\ run' \in BOOLEAN
           /\ waited' = 0 /\ due' \in BOOLEAN
  <1>1. CASE GoRound
    <2>1. due' \in BOOLEAN
      BY <1>1 DEF GoRound
    <2>2. QED BY <1>1, <2>1, Zenon DEF GoRound, SinkTypeOK
  <1>2. CASE Leave("down") \/ Leave("final")
    BY <1>2 DEF Leave
  <1>3. QED BY <1>1, <1>2

LEMMA IterationTypes ==
    ASSUME SinkTypeOK, ClientIteration \/ ProxyStep
    PROVE  SinkTypeOK'
  <1>1. CASE ClientIteration \/ ProxyIteration
    <2>1. /\ onway' \subseteq Results /\ inbox' \subseteq Results
          /\ sink' \in {"poll", "final", "down"} /\ run' \in BOOLEAN
          /\ waited' = 0 /\ due' \in BOOLEAN
      BY <1>1, Rounds, RoundTypes DEF SinkTypeOK
    <2>2. /\ \/ since' \in {0, since}
             \/ since' = IF waited < Interval THEN waited ELSE Interval
          /\ age' \in {0, age}
      <3>1. CASE ClientIteration
        BY <3>1, ClientRound DEF PushOrKeep, PushSucceeds, PushFails, ClientKeeps
      <3>2. CASE ProxyIteration
        <4>1. \E b : KeepBuffer(b) \/ StoreBuffer(b)
          BY <3>2, ProxyRound
        <4>2. QED BY <4>1 DEF KeepBuffer, StoreBuffer
      <3>3. QED BY <1>1, <3>1, <3>2
    <2>3. waited' \in 0 .. PollTimeout /\ since' \in 0 .. Interval /\ age' \in 0 .. KeepTime
      BY <2>1, <2>2, TimesAssumption DEF SinkTypeOK, KeepTime
    <2>4. QED BY <2>1, <2>3, Zenon DEF SinkTypeOK
  <1>2. CASE FinalStore
    BY <1>2, TimesAssumption DEF FinalStore, SinkTypeOK, KeepTime
  <1>3. QED BY <1>1, <1>2 DEF ProxyStep

LEMMA SinkTypeStep ==
    ASSUME TaskInv, SinkTypeOK, [Next]_vars
    PROVE  SinkTypeOK'
  <1>1. CASE Tasks
    <2>1. PICK e \in Executions : Execute(e) \/ TimerFires(e) \/ KillExecution(e)
      BY <1>1 DEF Tasks, TaskStep
    <2>2. onway' \subseteq Results
      BY <2>1, TaskSends, SentResult DEF SinkTypeOK
    <2>3. UNCHANGED <<inbox, sink, run, timeVars>>
      BY <1>1 DEF Tasks
    <2>4. QED BY <2>2, <2>3, Zenon DEF SinkTypeOK, timeVars
  <1>2. CASE Sockets
    <2>1. /\ onway' \subseteq onway /\ inbox' \subseteq inbox \union onway
          /\ UNCHANGED <<sink, run, timeVars>>
      BY <1>2 DEF Sockets, Deliver, Expire
    <2>2. onway' \subseteq Results /\ inbox' \subseteq Results
      BY <2>1 DEF SinkTypeOK
    <2>3. QED BY <2>1, <2>2, Zenon DEF SinkTypeOK, timeVars
  <1>3. CASE Time
    BY <1>3, TimesAssumption DEF Time, Tick, SinkTypeOK, KeepTime
  <1>4. CASE Sink
    <2>1. ClientIteration \/ ProxyStep
      BY <1>4 DEF Sink
    <2>2. QED BY <2>1, IterationTypes
  <1>5. CASE Operator
    BY <1>5, Zenon DEF Operator, SinkSignal, SinkTypeOK, timeVars
  <1>6. CASE UNCHANGED vars
    BY <1>6, Zenon DEF vars, sinkVars, timeVars, SinkTypeOK
  <1>7. QED BY <1>1, <1>2, <1>3, <1>4, <1>5, <1>6 DEF Next

LEMMA ClientTypes ==
    ASSUME SinkTypeOK, ClientTypeOK, ClientIteration
    PROVE  ClientTypeOK'
  <1> DEFINE Metrics == [CheckedOsts \X Mdts -> {"OK", "FAILED", NoState}]
  <1>1. metrics \in Metrics /\ errorMetric \in BOOLEAN /\ pushFailed \in BOOLEAN
    BY DEF ClientTypeOK
  <1>2. ASSUME NEW r \in inbox
        PROVE  NextMetrics(r) \in Metrics /\ NextError(r) \in BOOLEAN
    <2>1. r[3] \in States \union {NoState}
      BY ResultFacts DEF SinkTypeOK
    <2>2. QED BY <1>1, <2>1 DEF NextMetrics, NextError, States
  <1>3. NoMetrics \in Metrics
    BY DEF NoMetrics
  <1>4. PICK m \in Metrics, err \in BOOLEAN : PushOrKeep(m, err)
    BY <1>1, <1>2, ClientRound
  <1>5. /\ metrics' \in {m, NoMetrics} /\ errorMetric' \in {err, FALSE}
        /\ pushed' \in {Push(m, err), Push(NoMetrics, FALSE)}
        /\ pushFailed' \in {TRUE, FALSE, pushFailed}
    <2>1. CASE due /\ PushSucceeds(m, err)
      BY <2>1 DEF PushSucceeds
    <2>2. CASE due /\ PushFails(m, err)
      BY <2>2 DEF PushFails, ClientKeeps
    <2>3. CASE ~due /\ ClientKeeps(m, err) /\ UNCHANGED pushFailed
      BY <2>3 DEF ClientKeeps
    <2>4. QED BY <1>4, <2>1, <2>2, <2>3 DEF PushOrKeep
  <1> HIDE DEF Metrics
  <1>6. pushed' \in [metrics : Metrics, error : BOOLEAN]
    <2>1. Push(m, err) \in [metrics : Metrics, error : BOOLEAN]
      BY DEF Push
    <2>2. Push(NoMetrics, FALSE) \in [metrics : Metrics, error : BOOLEAN]
      BY <1>3 DEF Push
    <2>3. QED BY <1>5, <2>1, <2>2
  <1>7. metrics' \in Metrics /\ errorMetric' \in BOOLEAN /\ pushFailed' \in BOOLEAN
    BY <1>1, <1>3, <1>5, Zenon
  <1>8. QED BY <1>6, <1>7 DEF ClientTypeOK, Metrics

-----------------------------------------------------------------------------
(* The buffer and the table.                                               *)
RangeOf(b) == {b[k] : k \in DOMAIN b}

LEMMA AppendFacts ==
    ASSUME NEW b \in Seq(Executions), NEW x \in Executions
    PROVE  /\ Append(b, x) \in Seq(Executions)
           /\ Len(Append(b, x)) = Len(b) + 1 /\ Append(b, x) # << >>
           /\ RangeOf(Append(b, x)) = RangeOf(b) \union {x}
  <1>1. /\ Append(b, x) \in Seq(Executions) /\ Len(Append(b, x)) = Len(b) + 1
        /\ \A k \in 1 .. Len(b) : Append(b, x)[k] = b[k]
        /\ Append(b, x)[Len(b) + 1] = x
    OBVIOUS
  <1>2. /\ DOMAIN b = 1 .. Len(b) /\ DOMAIN Append(b, x) = 1 .. Len(b) + 1
        /\ Len(b) \in Nat
    BY <1>1
  <1> DEFINE c == Append(b, x)
  <1> HIDE DEF c
  <1>3. \A y : y \in RangeOf(c) <=> y \in RangeOf(b) \union {x}
    <2>1. ASSUME NEW y \in RangeOf(c) PROVE y \in RangeOf(b) \union {x}
      BY <1>1, <1>2, <2>1 DEF c, RangeOf
    <2>2. ASSUME NEW y \in RangeOf(b) PROVE y \in RangeOf(c)
      BY <1>1, <1>2, <2>2 DEF c, RangeOf
    <2>3. x \in RangeOf(c)
      BY <1>1, <1>2 DEF c, RangeOf
    <2>4. QED BY <2>1, <2>2, <2>3
  <1>4. c # << >>
    BY <1>1 DEF c
  <1>5. QED BY <1>1, <1>3, <1>4 DEF c

LEMMA CountedFacts ==
    ASSUME NEW f \in [Executions -> Nat], NEW b
    PROVE  /\ Counted(f, b) \in [Executions -> Nat]
           /\ \A e \in Executions :
                 /\ e \in RangeOf(b) => Counted(f, b)[e] = f[e] + 1
                 /\ e \notin RangeOf(b) => Counted(f, b)[e] = f[e]
  BY DEF Counted, RangeOf

LEMMA UpToTwo ==
    ASSUME NEW f
    PROVE  f \in [Executions -> 0 .. 2]
             <=> f \in [Executions -> Nat] /\ \A e \in Executions : f[e] <= 2
  <1>1. ASSUME f \in [Executions -> Nat], \A e \in Executions : f[e] <= 2
        PROVE  f \in [Executions -> 0 .. 2]
    <2>1. ASSUME NEW e \in Executions PROVE f[e] \in 0 .. 2
      <3>1. f[e] \in Nat /\ f[e] <= 2
        BY <1>1
      <3>2. QED BY <3>1
    <2>2. QED BY <1>1, <2>1
  <1>2. ASSUME f \in [Executions -> 0 .. 2]
        PROVE  f \in [Executions -> Nat] /\ \A e \in Executions : f[e] <= 2
    BY <1>2
  <1>3. QED BY <1>1, <1>2

LEMMA PrefixFacts ==
    ASSUME NEW b \in Seq(Executions), NEW n \in 0 .. Len(b)
    PROVE  RangeOf(SubSeq(b, 1, n)) \subseteq RangeOf(b)
  <1>1. /\ DOMAIN SubSeq(b, 1, n) = 1 .. n
        /\ \A k \in 1 .. n : SubSeq(b, 1, n)[k] = b[k]
    OBVIOUS
  <1>2. QED BY <1>1 DEF RangeOf

(* A store puts a result into the table once, and one that fails at most   *)
(* once.                                                                   *)
LEMMA StoreFacts ==
    ASSUME rows \in [Executions -> Nat], failed \in [Executions -> Nat],
           NEW b \in Seq(Executions), Stores(b) \/ StoreRaises(b)
    PROVE  /\ rows' \in [Executions -> Nat] /\ failed' \in [Executions -> Nat]
           /\ \A e \in Executions :
                 /\ e \notin RangeOf(b) => rows'[e] = rows[e] /\ failed'[e] = failed[e]
                 /\ e \in RangeOf(b) =>
                       /\ rows'[e] = rows[e] + 1 \/ rows'[e] = rows[e]
                       /\ \/ Stores(b) /\ failed'[e] = failed[e]
                          \/ StoreRaises(b) /\ failed'[e] = failed[e] + 1
  <1>1. CASE Stores(b)
    BY <1>1, CountedFacts DEF Stores
  <1>2. CASE StoreRaises(b)
    <2>1. PICK n \in 0 .. Len(b) : rows' = Counted(rows, SubSeq(b, 1, n))
      BY <1>2 DEF StoreRaises
    <2>2. RangeOf(SubSeq(b, 1, n)) \subseteq RangeOf(b)
      BY PrefixFacts
    <2>3. failed' = Counted(failed, b)
      BY <1>2 DEF StoreRaises
    <2>4. /\ rows' \in [Executions -> Nat] /\ failed' \in [Executions -> Nat]
          /\ \A e \in Executions :
                /\ e \notin RangeOf(b) => rows'[e] = rows[e] /\ failed'[e] = failed[e]
                /\ rows'[e] = rows[e] + 1 \/ rows'[e] = rows[e]
                /\ e \in RangeOf(b) => failed'[e] = failed[e] + 1
      <3> DEFINE c == SubSeq(b, 1, n)
      <3>1. /\ rows' \in [Executions -> Nat]
            /\ \A e \in Executions :
                  /\ e \in RangeOf(c) => rows'[e] = rows[e] + 1
                  /\ e \notin RangeOf(c) => rows'[e] = rows[e]
        BY <2>1, CountedFacts
      <3>2. /\ failed' \in [Executions -> Nat]
            /\ \A e \in Executions :
                  /\ e \in RangeOf(b) => failed'[e] = failed[e] + 1
                  /\ e \notin RangeOf(b) => failed'[e] = failed[e]
        BY <2>3, CountedFacts
      <3>3. RangeOf(c) \subseteq RangeOf(b)
        BY <2>2
      <3> HIDE DEF c
      <3>4. QED BY <3>1, <3>2, <3>3
    <2>5. QED BY <1>2, <2>4
  <1>3. QED BY <1>1, <1>2

(* Each round of the proxy goes on with a buffer b: with the one it has,   *)
(* or with that and a result r it has received.                            *)
LEMMA ReceivedFacts ==
    ASSUME TaskInv, SinkTypeOK, ProxyTypeOK, TableInv, ~Checking, NEW r \in inbox
    PROVE  /\ r[1] \in Executions /\ NotStored(r[1])
           /\ \A x \in onway \union (inbox \ {r}) : x[1] # r[1]
  <1>1. r \in Results /\ r[1] \in Executions
    BY ResultFacts DEF SinkTypeOK
  <1>2. NotStored(r[1]) /\ r = <<r[1], NoMdt, NoState>> /\ r \notin onway
    BY <1>1 DEF TableInv, OnePlace
  <1>3. ASSUME NEW x \in onway \union (inbox \ {r}) PROVE x[1] # r[1]
    BY <1>1, <1>2 DEF TableInv, OnePlace
  <1>4. QED BY <1>1, <1>2, <1>3

(* A buffer that is as good as the present one.                            *)
Good(b, in) ==
    /\ b \in Seq(Executions)
    /\ \A e \in Executions :
          /\ e \in RangeOf(b) => at[e] = "done" /\ rows[e] = 0
          /\ \A x \in onway \union in : x[1] = e => e \notin RangeOf(b)

LEMMA GoodBuffers ==
    ASSUME TaskInv, SinkTypeOK, ProxyTypeOK, TableInv, StoredOnce, ~Checking,
           sink = "poll"
    PROVE  /\ Good(buffer, inbox)
           /\ \A r \in inbox : Good(Append(buffer, r[1]), inbox \ {r})
  <1>1. Good(buffer, inbox)
    <2>1. \A e \in Executions : rows[e] \in Nat /\ failed[e] = 0
      <3>1. rows \in [Executions -> Nat]
        BY UpToTwo DEF ProxyTypeOK
      <3>2. QED BY <3>1 DEF TableInv
    <2>2. \A e \in InBuffer : e \in Executions => rows[e] = 0 /\ at[e] = "done"
      BY <2>1 DEF StoredOnce, TableInv, OnePlace, NotStored
    <2>3. RangeOf(buffer) = InBuffer
      BY DEF RangeOf, InBuffer
    <2>4. QED BY <2>2, <2>3 DEF Good, ProxyTypeOK, TableInv, OnePlace, NotStored
  <1>2. ASSUME NEW r \in inbox PROVE Good(Append(buffer, r[1]), inbox \ {r})
    <2>1. /\ r[1] \in Executions /\ NotStored(r[1])
          /\ \A x \in onway \union (inbox \ {r}) : x[1] # r[1]
      BY ReceivedFacts
    <2>2. at[r[1]] = "done"
      BY <2>1 DEF TableInv, OnePlace
    <2>3. /\ Append(buffer, r[1]) \in Seq(Executions)
          /\ RangeOf(Append(buffer, r[1])) = RangeOf(buffer) \union {r[1]}
      BY <2>1, AppendFacts DEF ProxyTypeOK
    <2>4. QED BY <1>1, <2>1, <2>2, <2>3 DEF Good, NotStored
  <1>3. QED BY <1>1, <1>2

LEMMA TableStep ==
    ASSUME TaskInv, SinkTypeOK, ProxyTypeOK, TableInv, StoredOnce, ~Checking,
           ProxyStep, UNCHANGED taskVars
    PROVE  ProxyTypeOK' /\ TableInv' /\ StoredOnce'
  <1>1. /\ rows \in [Executions -> Nat] /\ failed \in [Executions -> Nat]
        /\ \A e \in Executions : rows[e] <= 2 /\ failed[e] <= 2
        /\ UNCHANGED <<definition, at>> /\ ~Checking'
    BY UpToTwo DEF ProxyTypeOK, taskVars, Checking
  <1>2. CASE ProxyIteration
    <2>1. sink = "poll" /\ \A e \in Executions : failed[e] = 0
      BY <1>2 DEF ProxyIteration, PollTimesOut, TableInv
    <2>2. PICK b, in : /\ KeepBuffer(b) \/ StoreBuffer(b)
                       /\ Good(b, in) /\ inbox' \subseteq in /\ in \subseteq inbox
      <3>1. CASE /\ KeepBuffer(buffer) \/ StoreBuffer(buffer)
                 /\ Takes({})
        <4>1. Good(buffer, inbox) /\ inbox' \subseteq inbox
          BY <2>1, <3>1, GoodBuffers DEF Takes
        <4>2. QED BY <3>1, <4>1
      <3>2. ASSUME NEW r \in inbox, Takes({r}),
                   \/ KeepBuffer(Append(buffer, r[1]))
                   \/ StoreBuffer(Append(buffer, r[1]))
            PROVE  \E b, in : /\ KeepBuffer(b) \/ StoreBuffer(b)
                              /\ Good(b, in) /\ inbox' \subseteq in /\ in \subseteq inbox
        <4>1. Good(Append(buffer, r[1]), inbox \ {r}) /\ inbox' \subseteq inbox \ {r}
          BY <2>1, <3>2, GoodBuffers DEF Takes
        <4>2. inbox \ {r} \subseteq inbox
          OBVIOUS
        <4>3. QED BY <3>2, <4>1, <4>2
      <3>3. QED BY <1>2, <3>1, <3>2, ProxyRound
    <2>3. onway' = onway /\ (sink' # "poll" => inbox' = {})
      BY <1>2, Rounds
    <2>4. /\ b \in Seq(Executions)
          /\ \A e \in Executions : e \in RangeOf(b) => at'[e] = "done" /\ rows[e] = 0
          /\ \A x \in onway' \union inbox', e \in Executions :
                x[1] = e => e \notin RangeOf(b)
      BY <1>1, <2>2, <2>3 DEF Good
    <2>5. \A x \in onway' \union inbox', e \in Executions :
             x[1] = e => /\ at'[e] = "done" /\ x = <<e, NoMdt, NoState>>
                         /\ x \notin onway' \intersect inbox'
                         /\ rows[e] = 0 /\ failed[e] = 0
      BY <1>1, <2>2, <2>3 DEF TableInv, OnePlace, NotStored
    <2>6. \A e \in Executions : rows[e] <= 1 /\ (at'[e] # "done" => rows[e] = 0)
      BY <1>1, <2>1 DEF StoredOnce, TableInv, OnePlace, NotStored
    <2>7. \/ UNCHANGED <<rows, failed>> /\ buffer' = b
          \/ Stores(b) /\ buffer' = << >>
          \/ StoreRaises(b) /\ buffer' = b /\ sink' = "final"
      BY <2>2 DEF KeepBuffer, StoreBuffer, StoreAndClear, StoreFails, Leave
    <2>8. /\ buffer' \in Seq(Executions)
          /\ InBuffer' = RangeOf(buffer')
          /\ RangeOf(buffer') \subseteq RangeOf(b)
      <3>1. buffer' = b \/ buffer' = << >>
        BY <2>7
      <3>2. InBuffer' = RangeOf(buffer')
        BY DEF InBuffer, RangeOf
      <3>3. RangeOf(<< >>) = {}
        BY DEF RangeOf
      <3>4. CASE buffer' = b
        BY <2>4, <3>2, <3>4
      <3>5. CASE buffer' = << >>
        BY <3>2, <3>3, <3>5
      <3>6. QED BY <3>1, <3>4, <3>5
    <2>9. /\ rows' \in [Executions -> Nat] /\ failed' \in [Executions -> Nat]
      BY <1>1, <2>4, <2>7, StoreFacts
    <2>10. ASSUME NEW e \in Executions
           PROVE  /\ e \notin RangeOf(b) => rows'[e] = rows[e] /\ failed'[e] = failed[e]
                  /\ sink' = "poll" => failed'[e] = 0
                  /\ rows'[e] <= 1 /\ failed'[e] <= 1
                  /\ rows'[e] <= failed'[e] + IF e \in InBuffer' THEN 0 ELSE 1
      <3>1. CASE UNCHANGED <<rows, failed>> /\ buffer' = b
        BY <2>1, <2>4, <2>6, <2>8, <3>1
      <3>2. CASE Stores(b) /\ buffer' = << >>
        <4>1. e \notin InBuffer'
          BY <3>2 DEF InBuffer
        <4>2. /\ failed'[e] = failed[e]
              /\ rows'[e] = rows[e] + 1 \/ rows'[e] = rows[e]
              /\ e \notin RangeOf(b) => rows'[e] = rows[e]
          BY <1>1, <2>4, <3>2, StoreFacts DEF Stores
        <4>3. QED BY <1>1, <2>1, <2>4, <2>6, <4>1, <4>2
      <3>3. CASE StoreRaises(b) /\ buffer' = b /\ sink' = "final"
        <4>1. /\ e \notin RangeOf(b) => rows'[e] = rows[e] /\ failed'[e] = failed[e]
              /\ rows'[e] = rows[e] + 1 \/ rows'[e] = rows[e]
          BY <1>1, <2>4, <3>3, StoreFacts
        <4>2. e \in RangeOf(b) => failed'[e] = failed[e] + 1
          BY <1>1, <3>3, CountedFacts DEF StoreRaises
        <4>3. QED BY <1>1, <2>1, <2>4, <2>6, <2>8, <3>3, <4>1, <4>2
      <3>4. QED BY <2>7, <3>1, <3>2, <3>3
    <2>11. ProxyTypeOK' /\ StoredOnce'
      <3>1. \A e \in Executions : rows'[e] <= 2 /\ failed'[e] <= 2
        BY <2>9, <2>10
      <3>2. ProxyTypeOK'
        BY <2>8, <2>9, <3>1, UpToTwo DEF ProxyTypeOK
      <3>3. StoredOnce'
        BY <2>10 DEF StoredOnce
      <3>4. QED BY <3>2, <3>3
    <2>12. OnePlace'
      <3>1. ASSUME NEW e \in Executions, e \notin RangeOf(b), rows[e] = 0, failed[e] = 0
            PROVE  NotStored(e)'
        BY <2>8, <2>10, <3>1 DEF NotStored
      <3>2. ASSUME NEW e \in Executions, at'[e] # "done" PROVE NotStored(e)'
        BY <2>1, <2>4, <2>6, <3>1, <3>2
      <3>3. ASSUME NEW e \in Executions, NEW x \in onway' \union inbox', x[1] = e
            PROVE  /\ at'[e] = "done" /\ NotStored(e)' /\ x = <<e, NoMdt, NoState>>
                   /\ x \notin onway' \intersect inbox'
        BY <2>4, <2>5, <3>1, <3>3
      <3>4. QED BY <3>2, <3>3 DEF OnePlace
    <2>13. TableInv'
      BY <1>1, <2>3, <2>10, <2>12 DEF TableInv
    <2>14. QED BY <2>11, <2>13
  <1>3. CASE FinalStore
    <2>1. /\ sink = "final" /\ sink' = "down" /\ buffer' = << >>
          /\ UNCHANGED <<onway, inbox>> /\ inbox = {}
      BY <1>3 DEF FinalStore, TableInv
    <2>2. /\ InBuffer' = {} /\ buffer \in Seq(Executions) /\ RangeOf(buffer) = InBuffer
          /\ buffer' \in Seq(Executions)
      BY <2>1 DEF InBuffer, RangeOf, ProxyTypeOK
    <2>3. UNCHANGED <<rows, failed>> \/ Stores(buffer) \/ StoreRaises(buffer)
      BY <1>3 DEF FinalStore
    <2>4. /\ rows' \in [Executions -> Nat] /\ failed' \in [Executions -> Nat]
          /\ \A e \in Executions :
                \/ rows'[e] = rows[e] /\ failed'[e] = failed[e]
                \/ /\ rows'[e] \in {rows[e], rows[e] + 1} /\ e \in InBuffer
                   /\ failed'[e] \in {failed[e], failed[e] + 1}
      BY <1>1, <2>2, <2>3, StoreFacts
    <2>5. \A e \in Executions : /\ failed[e] <= 1
                               /\ rows[e] <= failed[e] + IF e \in InBuffer THEN 0 ELSE 1
      BY <2>1 DEF TableInv, StoredOnce
    <2>6. ProxyTypeOK'
      <3>1. \A e \in Executions : rows'[e] <= 2 /\ failed'[e] <= 2
        BY <1>1, <2>4, <2>5
      <3>2. QED BY <2>2, <2>4, <3>1, UpToTwo DEF ProxyTypeOK
    <2>7. StoredOnce'
      <3>1. ASSUME NEW e \in Executions PROVE rows'[e] <= failed'[e] + 1
        BY <1>1, <2>4, <2>5
      <3>2. QED BY <2>2, <3>1 DEF StoredOnce
    <2>8. OnePlace'
      BY <1>1, <2>1, <2>2, <2>4 DEF TableInv, OnePlace, NotStored
    <2>9. QED BY <1>1, <2>1, <2>6, <2>7, <2>8 DEF TableInv
  <1>4. QED BY <1>2, <1>3 DEF ProxyStep

(* What the other steps do about it: a result gets on its way once.        *)
LEMMA StaysDone ==
    ASSUME TaskTypeOK, NEW e \in Executions, NEW x \in Executions, at[x] = "done",
           Execute(e) \/ TimerFires(e) \/ KillExecution(e)
    PROVE  at'[x] = "done"
  <1> USE DEF TaskTypeOK, Goes
  <1>1. CASE e # x
    <2>1. PICK to : at' = [at EXCEPT ![e] = to]
      <3>1. CASE KillExecution(e) \/ TimerFires(e)
        BY <3>1 DEF KillExecution, TimerFires, SendsAlert
      <3>2. CASE SendResult(e)
        BY <3>2, Zenon DEF SendResult
      <3>3. CASE CheckStripe(e)
        BY <3>3, Zenon DEF CheckStripe, Raises
      <3>4. CASE Execute(e) /\ ~SendResult(e) /\ ~CheckStripe(e)
        BY <3>4 DEF Execute, StartTask, SkipInactive, CheckNothing, CommandFails,
           Raises, RemoveOldFile, SetStripeOfFile, SetStripe, OpenToWrite, WriteToRead,
           EndRead
      <3>5. QED BY <3>1, <3>2, <3>3, <3>4
    <2>2. QED BY <1>1, <2>1
  <1>2. CASE e = x
    BY <1>2 DEF Execute, TimerFires, KillExecution, StartTask, SkipInactive, CheckNothing,
         CommandFails, Raises, RemoveOldFile, SetStripeOfFile, SetStripe, CheckStripe,
         OpenToWrite, WriteToRead, EndRead, SendResult, SendsAlert, Executing
  <1>3. QED BY <1>1, <1>2

LEMMA TaskKeepsTable ==
    ASSUME TaskInv, SinkTypeOK, TableInv, Tasks
    PROVE  TableInv'
  <1>1. PICK e \in Executions : Execute(e) \/ TimerFires(e) \/ KillExecution(e)
    BY DEF Tasks, TaskStep
  <1>2. UNCHANGED <<inbox, sink, buffer, rows, failed>> /\ UNCHANGED definition
    BY <1>1, TaskActions DEF Tasks, proxyVars
  <1>3. Checking' <=> Checking
    BY <1>2 DEF Checking
  <1>4. ASSUME NEW x \in Executions PROVE NotStored(x)' <=> NotStored(x)
    BY <1>2 DEF NotStored, InBuffer
  <1>5. \A x \in Executions : at[x] = "done" => at'[x] = "done"
    BY <1>1, StaysDone DEF TaskInv
  <1>6. ASSUME ~Checking PROVE OnePlace'
    <2>1. OnePlace
      BY <1>6 DEF TableInv
    <2>2. CASE onway' \subseteq onway
      BY <1>2, <1>4, <1>5, <2>1, <2>2 DEF OnePlace
    <2>3. CASE SendResult(e) /\ onway' = onway \union {<<e, MdtOf(e), state[e]>>}
      <3>1. onway' = onway \union {<<e, NoMdt, NoState>>}
        BY <1>6, <2>3, SentResult
      <3>2. at[e] = "send" /\ at'[e] = "done"
        BY <1>6, <2>3 DEF SendResult, Goes, TaskInv, TaskTypeOK
      <3>3. NotStored(e) /\ \A r \in onway \union inbox : r[1] # e
        BY <2>1, <3>2 DEF OnePlace
      <3>4. \A x \in Executions : at'[x] # "done" => NotStored(x)'
        BY <1>4, <1>5, <2>1 DEF OnePlace
      <3>5. ASSUME NEW x \in Executions, NEW r \in onway' \union inbox', r[1] = x
            PROVE  /\ at'[x] = "done" /\ NotStored(x)' /\ r = <<x, NoMdt, NoState>>
                   /\ r \notin onway' \intersect inbox'
        <4>1. CASE r = <<e, NoMdt, NoState>>
          BY <1>2, <1>4, <3>2, <3>3, <3>5, <4>1
        <4>2. CASE r # <<e, NoMdt, NoState>>
          BY <1>2, <1>4, <1>5, <2>1, <3>1, <3>5, <4>2 DEF OnePlace
        <4>3. QED BY <4>1, <4>2
      <3>6. QED BY <3>4, <3>5 DEF OnePlace
    <2>4. QED BY <1>1, <2>2, <2>3, TaskSends
  <1>7. QED BY <1>2, <1>3, <1>6 DEF TableInv

LEMMA TableInvStep ==
    ASSUME TaskInv, SinkTypeOK, ProxyTypeOK, TableInv, StoredOnce, [Next]_vars
    PROVE  ProxyTypeOK' /\ TableInv' /\ StoredOnce'
  <1>1. CASE Tasks
    <2>1. UNCHANGED <<buffer, rows, failed>>
      BY <1>1 DEF Tasks, proxyVars
    <2>2. ProxyTypeOK' /\ StoredOnce'
      BY <2>1 DEF ProxyTypeOK, StoredOnce, InBuffer
    <2>3. QED BY <1>1, <2>2, TaskKeepsTable
  <1>2. ASSUME UNCHANGED <<buffer, rows, failed, taskVars>>,
               sink' = "poll" => sink = "poll", sink' = "final" => sink = "final",
               sink' # "poll" => inbox' = {},
               ~Checking => \/ onway' \subseteq onway /\ inbox' \subseteq inbox
                            \/ \E r \in onway : /\ onway' = onway \ {r}
                                                /\ inbox' = inbox \union {r}
        PROVE  ProxyTypeOK' /\ TableInv' /\ StoredOnce'
    <2>1. UNCHANGED <<definition, at>> /\ (Checking' <=> Checking)
      BY <1>2 DEF taskVars, Checking
    <2>2. ProxyTypeOK' /\ StoredOnce'
      BY <1>2 DEF ProxyTypeOK, StoredOnce, InBuffer
    <2>3. ASSUME NEW x \in Executions PROVE NotStored(x)' <=> NotStored(x)
      BY <1>2 DEF NotStored, InBuffer
    <2>4. ASSUME ~Checking PROVE OnePlace'
      BY <1>2, <2>1, <2>3, <2>4 DEF TableInv, OnePlace
    <2>5. TableInv'
      BY <1>2, <2>1, <2>4 DEF TableInv
    <2>6. QED BY <2>2, <2>5
  <1>3. CASE Sockets
    <2>1. PICK r \in Results : Deliver(r) \/ Expire(r)
      BY <1>3 DEF Sockets
    <2>2. /\ UNCHANGED <<sink, buffer, rows, failed, taskVars>>
          /\ \/ onway' \subseteq onway /\ inbox' = inbox
             \/ sink = "poll" /\ r \in onway /\ onway' = onway \ {r}
                /\ inbox' = inbox \union {r}
      BY <1>3, <2>1 DEF Sockets, Deliver, Expire, proxyVars
    <2>3. QED BY <1>2, <2>2 DEF TableInv
  <1>4. CASE Time
    BY <1>2, <1>4 DEF Time, Tick, proxyVars, TableInv
  <1>5. CASE Operator
    BY <1>2, <1>5 DEF Operator, SinkSignal, proxyVars, TableInv
  <1>6. CASE Sink /\ Checking
    <2>1. ClientIteration /\ UNCHANGED <<buffer, rows, failed, taskVars>>
      BY <1>6 DEF Sink, proxyVars
    <2>2. sink = "poll" /\ sink' # "final"
      BY <2>1 DEF ClientIteration, PollTimesOut, TableInv, GoRoundOrEnd, GoRound, Leave
    <2>3. sink' # "poll" => inbox' = {}
      BY <2>1, Rounds
    <2>4. QED BY <1>2, <1>6, <2>1, <2>2, <2>3
  <1>7. CASE Sink /\ ~Checking
    BY <1>7, TableStep DEF Sink
  <1>8. CASE UNCHANGED vars
    BY <1>2, <1>8 DEF vars, sinkVars, proxyVars, TableInv
  <1>9. QED BY <1>1, <1>3, <1>4, <1>5, <1>6, <1>7, <1>8 DEF Next

LEMMA ClientTypeStep ==
    ASSUME SinkTypeOK, ClientTypeOK, [Next]_vars
    PROVE  ClientTypeOK'
  <1>1. CASE Sink /\ Checking
    BY <1>1, ClientTypes DEF Sink
  <1>2. CASE UNCHANGED clientVars
    BY <1>2, Zenon DEF clientVars, ClientTypeOK, CheckedOsts
  <1>3. QED
    BY <1>1, <1>2 DEF Next, Tasks, Sockets, Time, Sink, Operator, vars

LEMMA CountStep ==
    ASSUME SinkTypeOK, ProxyTypeOK, TableInv, CountInv, [Next]_vars
    PROVE  CountInv'
  <1> USE CountAssumption DEF CountInv
  <1>1. ASSUME UNCHANGED buffer, sink' = "poll" => sink = "poll" PROVE CountInv'
    BY <1>1
  <1>2. CASE Sink /\ Checking
    <2>1. ClientIteration /\ UNCHANGED buffer
      BY <1>2 DEF Sink, proxyVars
    <2>2. sink = "poll"
      BY <2>1 DEF ClientIteration, PollTimesOut, TableInv
    <2>3. QED BY <1>1, <2>1, <2>2
  <1>3. CASE Sink /\ ProxyIteration
    <2>1. sink = "poll"
      BY <1>3 DEF ProxyIteration, PollTimesOut, TableInv
    <2>2. PICK b : /\ KeepBuffer(b) \/ StoreBuffer(b)
                   /\ Len(b) \in Nat /\ Len(b) <= StoreMaxCount
      <3>1. CASE KeepBuffer(buffer) \/ StoreBuffer(buffer)
        BY <3>1, <2>1 DEF ProxyTypeOK
      <3>2. ASSUME NEW r \in inbox, \/ KeepBuffer(Append(buffer, r[1]))
                                   \/ StoreBuffer(Append(buffer, r[1]))
            PROVE  \E b : /\ KeepBuffer(b) \/ StoreBuffer(b)
                          /\ Len(b) \in Nat /\ Len(b) <= StoreMaxCount
        <4>1. Len(Append(buffer, r[1])) = Len(buffer) + 1 /\ Len(buffer) \in Nat
          BY ResultFacts, AppendFacts DEF SinkTypeOK, ProxyTypeOK
        <4> DEFINE b == Append(buffer, r[1])
        <4> HIDE DEF b
        <4>2. Len(b) \in Nat /\ Len(b) <= StoreMaxCount
          BY <2>1, <4>1 DEF b
        <4>3. QED BY <3>2, <4>2 DEF b
      <3>3. QED BY <1>3, <3>1, <3>2, ProxyRound
    <2>3. CASE KeepBuffer(b)
      <3>1. buffer' = b /\ (b = << >> \/ ~(Len(b) >= StoreMaxCount))
        BY <2>3 DEF KeepBuffer, TimeToStore
      <3>2. QED BY <2>2, <3>1
    <2>4. CASE StoreBuffer(b)
      <3>1. buffer' = << >> \/ (buffer' = b /\ sink' = "final")
        BY <2>4 DEF StoreBuffer, StoreAndClear, StoreFails, Leave
      <3>2. QED BY <2>2, <3>1
    <2>5. QED BY <2>2, <2>3, <2>4
  <1>4. CASE Sink /\ FinalStore
    BY <1>4 DEF FinalStore
  <1>5. CASE Tasks \/ Sockets \/ Time \/ Operator \/ UNCHANGED vars
    BY <1>1, <1>5 DEF Tasks, Sockets, Time, Operator, vars, proxyVars, sinkVars,
                      Deliver, Expire, Tick, SinkSignal
  <1>6. QED BY <1>2, <1>3, <1>4, <1>5 DEF Next, Sink, ProxyStep

LEMMA GoesRound ==
    ASSUME GoRound
    PROVE  /\ waited' = 0
           /\ IF since' >= Interval THEN due' ELSE ~due'
  <1>1. due' = (since' >= Interval) /\ waited' = 0
    BY DEF GoRound
  <1>2. QED BY <1>1, Zenon

LEMMA AgeStep ==
    ASSUME SinkTypeOK, ProxyTypeOK, ClientTypeOK, TableInv, AgeInv, [Next]_vars
    PROVE  AgeInv'
  <1>1. /\ waited \in 0 .. PollTimeout /\ since \in 0 .. Interval /\ age \in 0 .. KeepTime
        /\ PollTimeout \in Nat \ {0} /\ Interval \in Nat
        /\ KeepTime = Interval + 2 * PollTimeout
    BY TimesAssumption DEF SinkTypeOK, KeepTime
  <1> DEFINE RightAge == /\ age' <= since' \/ since' = Interval
                         /\ age' < Interval + waited' + IF due' THEN PollTimeout ELSE 0
  <1>2. CASE Time
    <2>1. /\ sink = "poll" /\ waited < PollTimeout /\ waited' = waited + 1
          /\ since' = IF since < Interval THEN since + 1 ELSE since
          /\ age' = IF ~Kept THEN 0 ELSE IF age < KeepTime THEN age + 1 ELSE age
          /\ UNCHANGED <<sink, due, buffer, pushFailed, definition>>
      BY <1>2 DEF Time, Tick, proxyVars, clientVars, taskVars
    <2>2. ~Checking => (buffer = << >> => ~Kept)
      BY DEF Kept
    <2>3. QED BY <1>1, <2>1, <2>2 DEF AgeInv, Checking, KeepTime
  <1>3. CASE Sink /\ Checking
    <2>1. /\ ClientIteration /\ UNCHANGED definition
          /\ sink = "poll"
      BY <1>3 DEF Sink, taskVars, ClientIteration, PollTimesOut, TableInv
    <2>2. PICK m, err : PushOrKeep(m, err)
      BY <2>1, ClientRound
    <2>3. GoRound \/ (sink' = "down" /\ waited' = 0)
      BY <2>1 DEF ClientIteration, GoRoundOrEnd, Leave
    <2>4. CASE PushSucceeds(m, err)
      <3>1. /\ since' = (IF waited < Interval THEN waited ELSE Interval)
            /\ age' = 0 /\ pushFailed' = FALSE
        BY <2>4 DEF PushSucceeds
      <3>2. sink' = "poll" => RightAge
        BY <1>1, <2>1, <2>3, <3>1, GoesRound
      <3>3. QED BY <1>1, <1>3, <2>1, <3>1, <3>2 DEF AgeInv, Checking, KeepTime
    <2>5. CASE PushFails(m, err)
      BY <1>3, <2>1, <2>5 DEF PushFails, AgeInv, Checking
    <2>6. CASE ~due /\ ClientKeeps(m, err) /\ UNCHANGED pushFailed
      <3>1. ~due /\ UNCHANGED <<since, age, pushFailed>>
        BY <2>6 DEF ClientKeeps
      <3>2. ~pushFailed => age < KeepTime /\ (age <= since \/ since = Interval)
                             /\ age < Interval + waited
        BY <1>1, <2>1, <3>1 DEF AgeInv
      <3>3. (sink' = "poll" /\ ~pushFailed) => RightAge
        BY <1>1, <2>3, <3>1, <3>2, GoesRound
      <3>4. QED BY <1>3, <2>1, <3>1, <3>2, <3>3 DEF AgeInv, Checking, KeepTime
    <2>7. QED BY <2>2, <2>4, <2>5, <2>6 DEF PushOrKeep
  <1>4. CASE Sink /\ ~Checking /\ ProxyIteration
    <2>1. sink = "poll" /\ UNCHANGED <<definition, pushFailed>>
      BY <1>4 DEF Sink, taskVars, clientVars, ProxyIteration, PollTimesOut, TableInv
    <2>2. PICK b : /\ KeepBuffer(b) \/ StoreBuffer(b)
                   /\ b = << >> => buffer = << >>
      <3>1. \A r \in inbox : Append(buffer, r[1]) # << >>
        BY ResultFacts, AppendFacts DEF SinkTypeOK, ProxyTypeOK
      <3>2. ASSUME NEW r \in inbox, \/ KeepBuffer(Append(buffer, r[1]))
                                   \/ StoreBuffer(Append(buffer, r[1]))
            PROVE  \E b : /\ KeepBuffer(b) \/ StoreBuffer(b)
                          /\ b = << >> => buffer = << >>
        <4> DEFINE b == Append(buffer, r[1])
        <4> HIDE DEF b
        <4>1. b # << >>
          BY <3>1 DEF b
        <4>2. QED BY <3>2, <4>1 DEF b
      <3>3. QED BY <1>4, <3>2, ProxyRound
    <2>3. CASE KeepBuffer(b)
      <3>1. /\ UNCHANGED <<since, age>> /\ buffer' = b
            /\ b = << >> \/ ~due
            /\ GoRound \/ sink' = "final"
        BY <2>3 DEF KeepBuffer, TimeToStore, GoRoundOrLeave, Leave
      <3>2. /\ ~pushFailed /\ age < KeepTime /\ (age <= since \/ since = Interval)
            /\ age = 0 \/ age < Interval + waited
            /\ b = << >> => age = 0
        BY <1>1, <1>4, <2>1, <2>2, <3>1 DEF AgeInv
      <3>3. sink' = "poll" => RightAge
        BY <1>1, <3>1, <3>2, GoesRound
      <3>4. QED BY <1>4, <2>1, <3>1, <3>2, <3>3 DEF AgeInv, Checking, KeepTime
    <2>4. CASE StoreBuffer(b)
      <3>1. CASE /\ since' = 0 /\ age' = 0
                 /\ GoRound \/ sink' = "final"
        <4>1. sink' = "poll" => RightAge
          BY <1>1, <3>1, GoesRound
        <4>2. QED BY <1>1, <1>4, <2>1, <3>1, <4>1 DEF AgeInv, Checking, KeepTime
      <3>2. CASE UNCHANGED <<since, age>> /\ buffer' = b /\ sink' = "final"
        BY <1>1, <1>4, <2>1, <2>2, <3>2 DEF AgeInv, Checking, KeepTime
      <3>3. QED
        BY <2>4, <3>1, <3>2
           DEF StoreBuffer, StoreAndClear, StoreFails, GoRoundOrLeave, Leave
    <2>5. QED BY <2>2, <2>3, <2>4
  <1>5. CASE Sink /\ ~Checking /\ FinalStore
    BY <1>1, <1>5 DEF Sink, FinalStore, taskVars, clientVars, AgeInv, Checking, KeepTime
  <1>6. CASE Tasks \/ Sockets \/ Operator \/ UNCHANGED vars
    <2>1. UNCHANGED <<sink, waited, since, due, age, buffer, pushFailed>>
      BY <1>6 DEF Tasks, Sockets, Operator, vars, proxyVars, clientVars, sinkVars,
                  timeVars, Deliver, Expire, SinkSignal
    <2>2. UNCHANGED definition
      BY <1>6, TaskActions DEF Tasks, TaskStep, Sockets, Operator, vars, taskVars
    <2>3. QED BY <2>1, <2>2 DEF AgeInv, Checking, KeepTime
  <1>7. QED BY <1>2, <1>3, <1>4, <1>5, <1>6 DEF Next, Sink, ProxyStep

LEMMA SinkInvInitially == Init => SinkInv
  <1> SUFFICES ASSUME Init PROVE SinkInv
    OBVIOUS
  <1> USE TimesAssumption, CountAssumption
      DEF Init, SinkInit, ProxyInit, ClientInit
  <1>1. SinkTypeOK
    <2>1. 0 \in 0 .. PollTimeout /\ 0 \in 0 .. Interval /\ 0 \in 0 .. KeepTime
      BY DEF KeepTime
    <2>2. QED BY <2>1, Zenon DEF SinkTypeOK
  <1>2. ProxyTypeOK
    BY DEF ProxyTypeOK
  <1>3. ClientTypeOK
    BY DEF ClientTypeOK, NoMetrics, Push
  <1>4. TableInv /\ StoredOnce
    BY DEF TableInv, OnePlace, NotStored, InBuffer, StoredOnce
  <1>5. CountInv
    BY DEF CountInv
  <1>6. AgeInv
    <2>1. IF since >= Interval THEN due ELSE ~due
      <3>1. due = (Interval = 0) /\ since = 0
        OBVIOUS
      <3>2. Interval = 0 <=> since >= Interval
        BY <3>1
      <3>3. QED BY <3>1, <3>2, Zenon
    <2>2. since = 0 /\ age = 0 /\ waited = 0 /\ buffer = << >> /\ ~pushFailed
      OBVIOUS
    <2>3. QED BY <2>1, <2>2 DEF AgeInv, KeepTime
  <1>7. QED BY <1>1, <1>2, <1>3, <1>4, <1>5, <1>6 DEF SinkInv

LEMMA MInvariant == Spec => []MInv
  <1>1. Init => MInv
    BY TaskInvInitially, SinkInvInitially DEF MInv
  <1>2. MInv /\ [Next]_vars => MInv'
    BY TaskInvStep, SinkTypeStep, ClientTypeStep, TableInvStep, CountStep, AgeStep
       DEF MInv, SinkInv
  <1>3. QED BY <1>1, <1>2, PTL DEF Spec

(* Every variable of the tasks and of the two programs keeps its type.     *)
THEOREM MonitoringTypes == Spec => []TypeOK
  <1>1. MInv => TypeOK
    BY DEF MInv, TaskInv, SinkInv, TypeOK
  <1>2. QED BY <1>1, MInvariant, PTL

(* The table has the result of an execution at most once more than a store *)
(* with it has failed, and not once more while it is still in the buffer.  *)
THEOREM NoResultTwice == Spec => []StoredOnce
  <1>1. MInv => StoredOnce
    BY DEF MInv, SinkInv
  <1>2. QED BY <1>1, MInvariant, PTL

(* Whenever results arrive, they are stored or pushed before the interval  *)
(* and two polls are over, if the last push has not failed; and before     *)
(* there are more than store_max_count of them.                            *)
THEOREM KeptInBounds == Spec => []NotKeptTooLong
  <1>1. MInv => NotKeptTooLong
    BY DEF MInv, SinkInv, CountInv, AgeInv, NotKeptTooLong
  <1>2. QED BY <1>1, MInvariant, PTL

(* A step that takes a result from the buffer has put it into the table,   *)
(* or has ended the program: neither a store that raises in the loop nor a *)
(* result that arrives meanwhile makes the proxy forget one.               *)
THEOREM BufferNotForgotten == Spec => NothingForgotten
  <1> DEFINE Remembered ==
          \A e \in InBuffer : \/ e \in {buffer'[k] : k \in DOMAIN buffer'}
                              \/ rows'[e] > rows[e] \/ sink' = "down"
  <1>1. MInv /\ [Next]_vars => [Remembered]_vars
    <2> SUFFICES ASSUME MInv, [Next]_vars PROVE Remembered \/ UNCHANGED vars
      OBVIOUS
    <2>1. ASSUME UNCHANGED buffer PROVE Remembered
      BY <2>1 DEF InBuffer
    <2>2. CASE Sink /\ ProxyIteration
      <3>1. /\ rows \in [Executions -> Nat] /\ failed \in [Executions -> Nat]
            /\ buffer \in Seq(Executions) /\ inbox \subseteq Results
            /\ RangeOf(buffer) = InBuffer /\ InBuffer \subseteq Executions
        <4>1. /\ buffer \in Seq(Executions) /\ inbox \subseteq Results
              /\ rows \in [Executions -> 0 .. 2] /\ failed \in [Executions -> 0 .. 2]
          BY DEF MInv, SinkInv, ProxyTypeOK, SinkTypeOK
        <4>2. RangeOf(buffer) = InBuffer /\ InBuffer \subseteq Executions
          BY <4>1 DEF RangeOf, InBuffer
        <4>3. QED BY <4>1, <4>2, UpToTwo
      <3>2. PICK b \in Seq(Executions) : /\ KeepBuffer(b) \/ StoreBuffer(b)
                                         /\ InBuffer \subseteq RangeOf(b)
        <4>1. CASE KeepBuffer(buffer) \/ StoreBuffer(buffer)
          BY <3>1, <4>1
        <4>2. ASSUME NEW r \in inbox, \/ KeepBuffer(Append(buffer, r[1]))
                                     \/ StoreBuffer(Append(buffer, r[1]))
              PROVE  \E b \in Seq(Executions) : /\ KeepBuffer(b) \/ StoreBuffer(b)
                                                /\ InBuffer \subseteq RangeOf(b)
          <5> DEFINE b == Append(buffer, r[1])
          <5>1. b \in Seq(Executions) /\ InBuffer \subseteq RangeOf(b)
            BY <3>1, ResultFacts, AppendFacts
          <5> HIDE DEF b
          <5>2. QED BY <4>2, <5>1 DEF b
        <4>3. QED BY <2>2, <4>1, <4>2, ProxyRound
      <3>3. CASE buffer' = b
        BY <3>2, <3>3 DEF RangeOf
      <3>4. CASE Stores(b)
        <4>1. \A e \in InBuffer : rows'[e] = rows[e] + 1 /\ rows[e] \in Nat
          BY <3>1, <3>2, <3>4, CountedFacts DEF Stores
        <4>2. QED BY <4>1
      <3>5. QED
        BY <3>2, <3>3, <3>4 DEF KeepBuffer, StoreBuffer, StoreAndClear, StoreFails
    <2>3. CASE Sink /\ FinalStore
      BY <2>3 DEF FinalStore
    <2>4. QED
      BY <2>1, <2>2, <2>3
         DEF Next, Tasks, Sockets, Time, Sink, Operator, vars, proxyVars, ProxyStep
  <1>2. QED BY <1>1, MInvariant, PTL DEF Spec, NothingForgotten
=============================================================================
