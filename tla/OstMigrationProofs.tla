------------------------- MODULE OstMigrationProofs -------------------------
(***************************************************************************)
(* Theorems about OstMigration for every list of targets, every set of     *)
(* OSTs, every choice of thresholds and every number of files.             *)
(***************************************************************************)
EXTENDS OstMigration, TLAPS

USE TargetListAssumption, LevelsAssumption, BoundAssumption

USE DEF ostVars, schedVars, taskVars

(***************************************************************************)
(* The inductive invariant: an OST that is in a task is BLOCKED or         *)
(* PENDING_LOCK on its side, so the scheduler, which only takes READY ones,*)
(* does not take it again; and READY or BLOCKED means that the last fill   *)
(* level is on the right side of the threshold.                            *)
(***************************************************************************)
DataTypeOK ==
    /\ level \in [Osts -> Levels]
    /\ srcState \in [Osts -> States] /\ tgtState \in [Osts -> States]
    /\ pending \in Pairs /\ returned \in Pairs

OnlyTargets == \A o \in Osts : tgtState[o] # "absent" => o \in TargetOsts

TasksBlock ==
    \A s, t \in Osts :
       Outstanding(s, t) > 0 => srcState[s] \in InUse /\ tgtState[t] \in InUse

LevelsKnown ==
    \A o \in Osts :
       /\ srcState[o] \in {"READY", "BLOCKED"} => SourceLevelOK(level, o)
       /\ tgtState[o] \in {"READY", "BLOCKED"} => TargetLevelOK(level, o)

IInv == DataTypeOK /\ OnlyTargets /\ TasksBlock /\ OneToOne /\ LevelsKnown

-----------------------------------------------------------------------------
LEMMA ExceptAt ==
    ASSUME NEW f \in [Osts -> [Osts -> Nat]], NEW a \in Osts, NEW b \in Osts, NEW v
    PROVE  /\ [f EXCEPT ![a][b] = v][a][b] = v
           /\ \A s, t \in Osts :
                 s # a \/ t # b => [f EXCEPT ![a][b] = v][s][t] = f[s][t]
  OBVIOUS

LEMMA ExceptType ==
    ASSUME NEW f \in [Osts -> [Osts -> Nat]], NEW a \in Osts, NEW b \in Osts,
           NEW v \in Nat
    PROVE  [f EXCEPT ![a][b] = v] \in [Osts -> [Osts -> Nat]]
  OBVIOUS

LEMMA TargetsAreOsts == \A k \in DOMAIN TargetList : TargetList[k] \in Osts
  OBVIOUS

(* What the state functions do.                                            *)
LEMMA StateFacts ==
    ASSUME NEW s \in States
    PROVE  /\ Opened(s) \in OSTState /\ Closed(s) \in OSTState
           /\ Released(s) \in {"READY", "LOCKED"}
           /\ s \in InUse => Opened(s) \in InUse /\ Closed(s) \in InUse
           /\ Closed(s) \notin {"READY", "BLOCKED"}
           /\ Released(s) = "READY" => s = "BLOCKED"
  BY DEF States, OSTState, Opened, Closed, Released, InUse

LEMMA InitInv == Init => IInv
  <1> SUFFICES ASSUME Init PROVE IInv
    OBVIOUS
  <1>1. /\ level \in [Osts -> Levels]
        /\ srcState = [o \in Osts |-> "absent"]
        /\ pending = NoPairs /\ returned = NoPairs
        /\ tgtState = [o \in Osts |-> IF o \in TargetOsts
                                      THEN UpdatedTarget(level, o, "absent")
                                      ELSE "absent"]
    BY DEF Init
  <1>2. "absent" \in States /\ OSTState \subseteq States
    BY DEF States
  <1>3. \A o \in Osts : UpdatedTarget(level, o, "absent") \in OSTState
    BY <1>2, StateFacts DEF UpdatedTarget
  <1>4. DataTypeOK
    BY <1>1, <1>2, <1>3 DEF DataTypeOK, Pairs, NoPairs
  <1>5. OnlyTargets
    BY <1>1 DEF OnlyTargets
  <1>6. \A s, t \in Osts : Outstanding(s, t) = 0
    BY <1>1 DEF Outstanding, NoPairs
  <1>7. TasksBlock /\ OneToOne
    BY <1>6 DEF TasksBlock, OneToOne
  <1>8. LevelsKnown
    <2>1. ASSUME NEW o \in Osts, tgtState[o] \in {"READY", "BLOCKED"}
          PROVE  TargetLevelOK(level, o)
      BY <1>1, <1>2, <2>1, StateFacts DEF UpdatedTarget
    <2>2. QED BY <1>1, <2>1 DEF LevelsKnown
  <1>9. QED BY <1>4, <1>5, <1>7, <1>8 DEF IInv

-----------------------------------------------------------------------------
(* The conjuncts depend on these variables only.                           *)
LEMMA Unchanged ==
    ASSUME IInv, UNCHANGED <<level, srcState, tgtState, pending, returned>>
    PROVE  IInv'
  BY DEF IInv, DataTypeOK, OnlyTargets, TasksBlock, OneToOne, LevelsKnown,
         Outstanding, SourceLevelOK, TargetLevelOK

(* Steps that leave the tasks alone and no OST that is in use free.        *)
LEMMA StatesChange ==
    ASSUME IInv, UNCHANGED <<pending, returned>>,
           level' \in [Osts -> Levels],
           srcState' \in [Osts -> States], tgtState' \in [Osts -> States],
           OnlyTargets', LevelsKnown',
           \A o \in Osts : /\ srcState[o] \in InUse => srcState'[o] \in InUse
                           /\ tgtState[o] \in InUse => tgtState'[o] \in InUse
    PROVE  IInv'
  <1>1. DataTypeOK'
    BY DEF IInv, DataTypeOK
  <1>2. \A s, t \in Osts : Outstanding(s, t)' = Outstanding(s, t)
    BY DEF Outstanding
  <1>3. TasksBlock' /\ OneToOne'
    <2>1. /\ \A s, t \in Osts : pending'[s][t] + returned'[s][t] > 0 =>
                srcState'[s] \in InUse /\ tgtState'[t] \in InUse
      BY DEF IInv, TasksBlock, Outstanding
    <2>2. OneToOne'
      BY DEF IInv, OneToOne, Outstanding
    <2>3. QED BY <2>1, <2>2 DEF TasksBlock, Outstanding
  <1>4. QED BY <1>1, <1>3 DEF IInv

LEMMA OutstandingNat ==
    ASSUME DataTypeOK, NEW s \in Osts, NEW t \in Osts
    PROVE  pending[s][t] \in Nat /\ returned[s][t] \in Nat
  BY DEF DataTypeOK, Pairs

(* A free OST is in no task.                                               *)
LEMMA FreeOst ==
    ASSUME IInv, NEW s \in Osts, NEW t \in Osts,
           srcState[s] = "READY" \/ tgtState[t] = "READY"
    PROVE  pending[s][t] = 0 /\ returned[s][t] = 0
  <1>1. ~(Outstanding(s, t) > 0)
    BY DEF IInv, TasksBlock, InUse
  <1>2. pending[s][t] \in Nat /\ returned[s][t] \in Nat
    BY OutstandingNat DEF IInv
  <1>3. QED BY <1>1, <1>2 DEF Outstanding

(* A new task for two free OSTs.                                           *)
LEMMA NewTask ==
    ASSUME IInv, NEW o \in Osts, NEW t \in Osts,
           srcState[o] = "READY", tgtState[t] = "READY",
           srcState' = [srcState EXCEPT ![o] = "BLOCKED"],
           tgtState' = [tgtState EXCEPT ![t] = "BLOCKED"],
           pending' = [pending EXCEPT ![o][t] = pending[o][t] + 1],
           UNCHANGED <<level, returned>>
    PROVE  /\ IInv'
           /\ pending'[o][t] = pending[o][t] + 1
           /\ \A s, u \in Osts : s # o \/ u # t => pending'[s][u] = pending[s][u]
  <1>1. /\ level \in [Osts -> Levels]
        /\ srcState \in [Osts -> States] /\ tgtState \in [Osts -> States]
        /\ pending \in Pairs /\ returned \in Pairs
    BY DEF IInv, DataTypeOK
  <1>2. /\ pending' \in Pairs
        /\ pending'[o][t] = pending[o][t] + 1
        /\ \A s, u \in Osts : s # o \/ u # t => pending'[s][u] = pending[s][u]
    <2>1. pending[o][t] + 1 \in Nat /\ pending \in [Osts -> [Osts -> Nat]]
      BY OutstandingNat DEF IInv, DataTypeOK, Pairs
    <2> DEFINE more == [pending EXCEPT ![o][t] = pending[o][t] + 1]
    <2>2. /\ more[o][t] = pending[o][t] + 1
          /\ \A s, u \in Osts : s # o \/ u # t => more[s][u] = pending[s][u]
      BY <2>1, ExceptAt
    <2>3. more \in [Osts -> [Osts -> Nat]]
      BY <2>1, ExceptType
    <2>4. pending' = more
      OBVIOUS
    <2>5. more \in Pairs
      BY <2>3 DEF Pairs
    <2> HIDE DEF more
    <2>6. pending' \in Pairs
      BY <2>4, <2>5, Zenon
    <2>7. /\ pending'[o][t] = pending[o][t] + 1
          /\ \A s, u \in Osts : s # o \/ u # t => pending'[s][u] = pending[s][u]
      BY <2>2, <2>4
    <2>8. QED BY <2>6, <2>7, Zenon
  <1>3. \A s, u \in Osts : pending[s][u] \in Nat /\ returned[s][u] \in Nat
    BY OutstandingNat DEF IInv
  <1>4. \A s \in Osts : /\ pending[o][s] = 0 /\ returned[o][s] = 0
                        /\ pending[s][t] = 0 /\ returned[s][t] = 0
    BY FreeOst
  <1>5. DataTypeOK'
    BY <1>1, <1>2 DEF DataTypeOK, States, OSTState
  <1>6. OnlyTargets'
    BY <1>1 DEF IInv, OnlyTargets
  <1>7. TasksBlock'
    <2>1. \A s, u \in Osts : pending[s][u] + returned[s][u] > 0 =>
             srcState[s] \in InUse /\ tgtState[u] \in InUse
      BY DEF IInv, TasksBlock, Outstanding
    <2>2. /\ srcState'[o] = "BLOCKED" /\ tgtState'[t] = "BLOCKED"
          /\ \A s \in Osts : /\ s # o => srcState'[s] = srcState[s]
                            /\ s # t => tgtState'[s] = tgtState[s]
      BY <1>1
    <2>3. \A s, u \in Osts : pending'[s][u] + returned'[s][u] > 0 =>
             srcState'[s] \in InUse /\ tgtState'[u] \in InUse
      BY <1>2, <2>1, <2>2 DEF InUse
    <2>4. QED BY <2>3 DEF TasksBlock, Outstanding
  <1>8. OneToOne'
    <2>1. \A s, u \in Osts : pending[s][u] + returned[s][u] > 0 =>
             /\ pending[s][u] + returned[s][u] = 1
             /\ \A x \in Osts : /\ x # u => pending[s][x] + returned[s][x] = 0
                                /\ x # s => pending[x][u] + returned[x][u] = 0
      BY DEF IInv, OneToOne, Outstanding
    <2>2. ASSUME NEW s \in Osts, NEW u \in Osts,
                 pending'[s][u] + returned'[s][u] > 0
          PROVE  /\ pending'[s][u] + returned'[s][u] = 1
                 /\ \A x \in Osts : /\ x # u => pending'[s][x] + returned'[s][x] = 0
                                    /\ x # s => pending'[x][u] + returned'[x][u] = 0
      <3>1. CASE s = o /\ u = t
        BY <3>1, <1>2, <1>4
      <3>2. CASE s # o \/ u # t
        <4>1. pending[s][u] + returned[s][u] > 0
          BY <3>2, <2>2, <1>2
        <4>2. s # o /\ u # t
          BY <4>1, <1>4
        <4>3. QED BY <4>1, <4>2, <2>1, <1>2
      <3>3. QED BY <3>1, <3>2
    <2>3. QED BY <2>2 DEF OneToOne, Outstanding
  <1>9. LevelsKnown'
    <2>1. SourceLevelOK(level, o) /\ TargetLevelOK(level, t)
      BY DEF IInv, LevelsKnown
    <2>2. QED BY <1>1, <2>1 DEF IInv, LevelsKnown, SourceLevelOK, TargetLevelOK
  <1>10. QED BY <1>2, <1>5, <1>6, <1>7, <1>8, <1>9 DEF IInv

LEMMA PushInv ==
    ASSUME IInv, NEW o \in Osts, NEW k \in DOMAIN TargetList, PushTask(o, k)
    PROVE  /\ IInv'
           /\ SourceLevelOK(level, o) /\ TargetLevelOK(level, TargetList[k])
           /\ \A s, u \in Osts :
                 s # o \/ u # TargetList[k] => pending'[s][u] = pending[s][u]
  <1>1. PICK t \in Osts : t = TargetList[k]
    BY TargetsAreOsts
  <1>2. /\ srcState[o] = "READY" /\ tgtState[t] = "READY"
        /\ srcState' = [srcState EXCEPT ![o] = "BLOCKED"]
        /\ tgtState' = [tgtState EXCEPT ![t] = "BLOCKED"]
        /\ pending' = [pending EXCEPT ![o][t] = pending[o][t] + 1]
        /\ UNCHANGED <<level, returned>>
    BY <1>1 DEF PushTask, Schedulable, ReadyTargets
  <1>3. SourceLevelOK(level, o) /\ TargetLevelOK(level, t)
    BY <1>2 DEF IInv, LevelsKnown
  <1>4. QED BY <1>1, <1>2, <1>3, NewTask

(* The OSTs of a task whose result has come are released together.         *)
LEMMA TaskDone ==
    ASSUME IInv, NEW o \in Osts, NEW t \in Osts, returned[o][t] > 0,
           srcState' = [srcState EXCEPT ![o] = Released(srcState[o])],
           tgtState' = [tgtState EXCEPT ![t] = Released(tgtState[t])],
           returned' = [returned EXCEPT ![o][t] = returned[o][t] - 1],
           UNCHANGED <<level, pending>>
    PROVE  IInv'
  <1>1. /\ level \in [Osts -> Levels]
        /\ srcState \in [Osts -> States] /\ tgtState \in [Osts -> States]
        /\ pending \in Pairs /\ returned \in Pairs
    BY DEF IInv, DataTypeOK
  <1>2. /\ returned' \in Pairs
        /\ returned'[o][t] = returned[o][t] - 1
        /\ \A s, u \in Osts : s # o \/ u # t => returned'[s][u] = returned[s][u]
    <2>1. returned[o][t] - 1 \in Nat /\ returned \in [Osts -> [Osts -> Nat]]
      BY OutstandingNat DEF IInv, DataTypeOK, Pairs
    <2> DEFINE less == [returned EXCEPT ![o][t] = returned[o][t] - 1]
    <2>2. /\ less[o][t] = returned[o][t] - 1
          /\ \A s, u \in Osts : s # o \/ u # t => less[s][u] = returned[s][u]
      BY <2>1, ExceptAt
    <2>3. less \in [Osts -> [Osts -> Nat]]
      BY <2>1, ExceptType
    <2>4. returned' = less
      OBVIOUS
    <2>5. less \in Pairs
      BY <2>3 DEF Pairs
    <2> HIDE DEF less
    <2>6. returned' \in Pairs
      BY <2>4, <2>5, Zenon
    <2>7. /\ returned'[o][t] = returned[o][t] - 1
          /\ \A s, u \in Osts : s # o \/ u # t => returned'[s][u] = returned[s][u]
      BY <2>2, <2>4
    <2>8. QED BY <2>6, <2>7, Zenon
  <1>3. \A s, u \in Osts : pending[s][u] \in Nat /\ returned[s][u] \in Nat
    BY OutstandingNat DEF IInv
  <1>4. \A s, u \in Osts : pending[s][u] + returned[s][u] > 0 =>
           /\ srcState[s] \in InUse /\ tgtState[u] \in InUse
           /\ pending[s][u] + returned[s][u] = 1
           /\ \A x \in Osts : /\ x # u => pending[s][x] + returned[s][x] = 0
                              /\ x # s => pending[x][u] + returned[x][u] = 0
    BY DEF IInv, TasksBlock, OneToOne, Outstanding
  <1>5. pending[o][t] + returned[o][t] = 1 /\ pending'[o][t] + returned'[o][t] = 0
    BY <1>2, <1>3, <1>4
  <1>6. \A s, u \in Osts : pending'[s][u] + returned'[s][u] > 0 =>
           /\ s # o /\ u # t
           /\ pending[s][u] + returned[s][u] = pending'[s][u] + returned'[s][u]
    <2>1. \A x \in Osts : /\ x # t => pending[o][x] + returned[o][x] = 0
                          /\ x # o => pending[x][t] + returned[x][t] = 0
      BY <1>4, <1>5
    <2>2. \A s, u \in Osts : s # o \/ u # t =>
             pending[s][u] + returned[s][u] = pending'[s][u] + returned'[s][u]
      BY <1>2
    <2>3. ASSUME NEW s \in Osts, NEW u \in Osts,
                 pending'[s][u] + returned'[s][u] > 0
          PROVE  s # o /\ u # t
      <3>1. s # o \/ u # t
        BY <2>3, <1>5
      <3>2. QED BY <2>1, <2>2, <2>3, <3>1
    <2>4. QED BY <2>2, <2>3
  <1>7. /\ Released(srcState[o]) \in {"READY", "LOCKED"}
        /\ Released(tgtState[t]) \in {"READY", "LOCKED"}
        /\ Released(srcState[o]) = "READY" => srcState[o] = "BLOCKED"
        /\ Released(tgtState[t]) = "READY" => tgtState[t] = "BLOCKED"
    BY <1>1, StateFacts
  <1>8. DataTypeOK'
    <2>1. {"READY", "LOCKED"} \subseteq States
      BY DEF States, OSTState
    <2>2. QED BY <1>1, <1>2, <1>7, <2>1 DEF DataTypeOK
  <1>9. OnlyTargets'
    <2>1. tgtState[t] # "absent"
      BY <1>4, <1>5 DEF InUse
    <2>2. QED BY <1>1, <2>1 DEF IInv, OnlyTargets
  <1>10. TasksBlock'
    <2>1. \A s, u \in Osts : pending'[s][u] + returned'[s][u] > 0 =>
             srcState'[s] \in InUse /\ tgtState'[u] \in InUse
      BY <1>1, <1>4, <1>6
    <2>2. QED BY <2>1 DEF TasksBlock, Outstanding
  <1>11. OneToOne'
    <2>1. ASSUME NEW s \in Osts, NEW u \in Osts,
                 pending'[s][u] + returned'[s][u] > 0
          PROVE  /\ pending'[s][u] + returned'[s][u] = 1
                 /\ \A x \in Osts : /\ x # u => pending'[s][x] + returned'[s][x] = 0
                                    /\ x # s => pending'[x][u] + returned'[x][u] = 0
      <3>1. /\ s # o /\ u # t
            /\ pending[s][u] + returned[s][u] > 0
        BY <2>1, <1>6
      <3>2. QED BY <3>1, <1>2, <1>4
    <2>2. QED BY <2>1 DEF OneToOne, Outstanding
  <1>12. LevelsKnown'
    <2>1. /\ Released(srcState[o]) = "READY" => SourceLevelOK(level, o)
          /\ Released(tgtState[t]) = "READY" => TargetLevelOK(level, t)
      BY <1>7 DEF IInv, LevelsKnown
    <2>2. QED
      BY <1>1, <1>7, <2>1 DEF IInv, LevelsKnown, SourceLevelOK, TargetLevelOK
  <1>13. QED BY <1>8, <1>9, <1>10, <1>11, <1>12 DEF IInv

LEMMA UpdateInv ==
    ASSUME IInv, NEW lev \in [Osts -> Levels], UpdateFillLevels(lev)
    PROVE  IInv'
  <1>1. CASE \E o \in Sources \union TargetOsts : lev[o] = NotListed
    BY <1>1, Unchanged DEF UpdateFillLevels, Dies
  <1>2. CASE ~ \E o \in Sources \union TargetOsts : lev[o] = NotListed
    <2>1. /\ level' = lev
          /\ srcState' = [o \in Osts |-> IF o \in Sources THEN UpdatedSource(lev, o)
                                                          ELSE "absent"]
          /\ tgtState' = [o \in Osts |-> IF o \in TargetOsts
                                         THEN UpdatedTarget(lev, o, tgtState[o])
                                         ELSE "absent"]
          /\ UNCHANGED <<pending, returned>>
      BY <1>2 DEF UpdateFillLevels
    <2>2. srcState \in [Osts -> States] /\ tgtState \in [Osts -> States]
      BY DEF IInv, DataTypeOK
    <2>3. \A o \in Osts :
             /\ UpdatedSource(lev, o) \in OSTState
             /\ srcState[o] \in InUse => UpdatedSource(lev, o) \in InUse
             /\ UpdatedSource(lev, o) \in {"READY", "BLOCKED"} => SourceLevelOK(lev, o)
      BY <2>2, StateFacts DEF UpdatedSource
    <2>4. \A o \in Osts :
             /\ UpdatedTarget(lev, o, tgtState[o]) \in OSTState
             /\ tgtState[o] \in InUse => UpdatedTarget(lev, o, tgtState[o]) \in InUse
             /\ UpdatedTarget(lev, o, tgtState[o]) \in {"READY", "BLOCKED"}
                   => TargetLevelOK(lev, o)
      BY <2>2, StateFacts DEF UpdatedTarget
    <2>5. srcState' \in [Osts -> States] /\ tgtState' \in [Osts -> States]
      BY <2>1, <2>3, <2>4 DEF States
    <2>6. OnlyTargets'
      BY <2>1 DEF OnlyTargets
    <2>7. LevelsKnown'
      BY <2>1, <2>3, <2>4 DEF LevelsKnown, SourceLevelOK, TargetLevelOK
    <2>8. \A o \in Osts : srcState[o] \in InUse => o \in Sources
      BY DEF Sources, InUse
    <2>9. \A o \in Osts : tgtState[o] \in InUse => o \in TargetOsts
      BY DEF IInv, OnlyTargets, InUse
    <2>10. \A o \in Osts : /\ srcState[o] \in InUse => srcState'[o] \in InUse
                           /\ tgtState[o] \in InUse => tgtState'[o] \in InUse
      BY <2>1, <2>3, <2>4, <2>8, <2>9
    <2>11. QED BY <2>1, <2>5, <2>6, <2>7, <2>10, StatesChange
  <1>3. QED BY <1>1, <1>2

LEMMA InputInv ==
    ASSUME IInv, NEW loaded, NEW order, ProcessInputFiles(loaded, order)
    PROVE  IInv'
  <1> DEFINE new == NewSources(loaded)
  <1>1. CASE \E o \in new : level[o] = NotListed
    BY <1>1, Unchanged DEF ProcessInputFiles, Dies
  <1>2. CASE ~ \E o \in new : level[o] = NotListed
    <2>1. /\ srcState' = [o \in Osts |-> IF o \in new THEN UpdatedSource(level, o)
                                                      ELSE srcState[o]]
          /\ UNCHANGED <<level, tgtState, pending, returned>>
      BY <1>2 DEF ProcessInputFiles
    <2>2. /\ level \in [Osts -> Levels]
          /\ srcState \in [Osts -> States] /\ tgtState \in [Osts -> States]
      BY DEF IInv, DataTypeOK
    <2>3. \A o \in Osts :
             /\ UpdatedSource(level, o) \in OSTState
             /\ UpdatedSource(level, o) \in {"READY", "BLOCKED"} => SourceLevelOK(level, o)
      BY <2>2, StateFacts DEF UpdatedSource
    <2>4. \A o \in Osts : o \in new => srcState[o] = "absent"
      BY DEF NewSources, Sources
    <2> HIDE DEF new
    <2>5. srcState' \in [Osts -> States]
      BY <2>1, <2>2, <2>3 DEF States
    <2>6. OnlyTargets'
      BY <2>1 DEF IInv, OnlyTargets
    <2>7. LevelsKnown'
      BY <2>1, <2>3 DEF IInv, LevelsKnown, SourceLevelOK, TargetLevelOK
    <2>8. \A o \in Osts : /\ srcState[o] \in InUse => srcState'[o] \in InUse
                          /\ tgtState[o] \in InUse => tgtState'[o] \in InUse
      BY <2>1, <2>4 DEF InUse
    <2>9. QED BY <2>1, <2>2, <2>5, <2>6, <2>7, <2>8, StatesChange
  <1>3. QED BY <1>1, <1>2

LEMMA DeallocInv ==
    ASSUME IInv, DeallocateEmptyCaches
    PROVE  IInv'
  <1> DEFINE empty == {o \in caches : files[o] = 0}
             freed == {o \in empty : srcState[o] \in {"READY", "LOCKED"}}
  <1>1. CASE \E o \in empty : srcState[o] = "absent"
    BY <1>1, Unchanged DEF DeallocateEmptyCaches, Dies
  <1>2. CASE ~ \E o \in empty : srcState[o] = "absent"
    <2>1. /\ srcState' = [o \in Osts |-> IF o \in freed THEN "absent" ELSE srcState[o]]
          /\ UNCHANGED <<level, tgtState, pending, returned>>
      BY <1>2 DEF DeallocateEmptyCaches
    <2>2. \A o \in freed : srcState[o] \notin InUse
      BY DEF InUse
    <2> HIDE DEF freed
    <2>3. /\ level \in [Osts -> Levels]
          /\ srcState \in [Osts -> States] /\ tgtState \in [Osts -> States]
      BY DEF IInv, DataTypeOK
    <2>4. srcState' \in [Osts -> States]
      BY <2>1, <2>3 DEF States
    <2>5. OnlyTargets' /\ LevelsKnown'
      BY <2>1 DEF IInv, OnlyTargets, LevelsKnown, SourceLevelOK, TargetLevelOK
    <2>6. \A o \in Osts : /\ srcState[o] \in InUse => srcState'[o] \in InUse
                          /\ tgtState[o] \in InUse => tgtState'[o] \in InUse
      BY <2>1, <2>2
    <2>7. QED BY <2>1, <2>3, <2>4, <2>5, <2>6, StatesChange
  <1>3. QED BY <1>1, <1>2

LEMMA EnvironmentInv ==
    ASSUME IInv, NEW s \in Osts, NEW t \in Osts, Return(s, t) \/ Lose(s, t)
    PROVE  /\ IInv'
           /\ \A u, v \in Osts : pending'[u][v] <= pending[u][v]
  <1>1. UNCHANGED <<level, srcState, tgtState>>
    BY DEF Return, Lose
  <1>2. /\ pending \in [Osts -> [Osts -> Nat]] /\ returned \in [Osts -> [Osts -> Nat]]
        /\ pending[s][t] > 0
    BY DEF IInv, DataTypeOK, Pairs, Return, Lose
  <1>3. \A u, v \in Osts : pending[u][v] \in Nat /\ returned[u][v] \in Nat
    BY OutstandingNat DEF IInv
  <1>4. pending[s][t] - 1 \in Nat /\ returned[s][t] + 1 \in Nat
    BY <1>2, <1>3
  <1> DEFINE less == [pending EXCEPT ![s][t] = pending[s][t] - 1]
             more == [returned EXCEPT ![s][t] = returned[s][t] + 1]
  <1>5. less \in [Osts -> [Osts -> Nat]] /\ more \in [Osts -> [Osts -> Nat]]
    BY <1>2, <1>4, ExceptType
  <1>6. /\ less[s][t] = pending[s][t] - 1
        /\ \A u, v \in Osts : u # s \/ v # t => less[u][v] = pending[u][v]
    BY <1>2, ExceptAt
  <1>7. /\ more[s][t] = returned[s][t] + 1
        /\ \A u, v \in Osts : u # s \/ v # t => more[u][v] = returned[u][v]
    BY <1>2, ExceptAt
  <1>8. pending' = less /\ returned' \in {returned, more}
    BY DEF Return, Lose
  <1> HIDE DEF less, more
  <1>9. pending' \in Pairs /\ returned' \in Pairs
    BY <1>2, <1>5, <1>8 DEF Pairs
  <1>10. \A u, v \in Osts : /\ pending'[u][v] + returned'[u][v] <= pending[u][v] + returned[u][v]
                            /\ pending'[u][v] <= pending[u][v]
                            /\ pending'[u][v] \in Nat /\ returned'[u][v] \in Nat
    <2> SUFFICES ASSUME NEW u \in Osts, NEW v \in Osts
                 PROVE  /\ pending'[u][v] + returned'[u][v] <= pending[u][v] + returned[u][v]
                        /\ pending'[u][v] <= pending[u][v]
                        /\ pending'[u][v] \in Nat /\ returned'[u][v] \in Nat
      OBVIOUS
    <2>1. CASE u = s /\ v = t
      <3>1. pending'[u][v] = pending[u][v] - 1
        BY <2>1, <1>6, <1>8
      <3>2. returned'[u][v] \in {returned[u][v], returned[u][v] + 1}
        BY <2>1, <1>7, <1>8
      <3>3. /\ pending[u][v] \in Nat /\ returned[u][v] \in Nat /\ pending[u][v] > 0
        BY <2>1, <1>2, <1>3
      <3> DEFINE a == pending[u][v]
                 b == returned[u][v]
      <3>4. a \in Nat /\ b \in Nat /\ a > 0
        BY <3>3
      <3> HIDE DEF a, b
      <3>5. \A x \in {b, b + 1} : /\ (a - 1) + x <= a + b
                                 /\ a - 1 <= a /\ a - 1 \in Nat /\ x \in Nat
        BY <3>4
      <3>6. QED BY <3>1, <3>2, <3>5 DEF a, b
    <2>2. CASE u # s \/ v # t
      <3>1. pending'[u][v] = pending[u][v] /\ returned'[u][v] = returned[u][v]
        BY <2>2, <1>6, <1>7, <1>8
      <3>2. QED BY <3>1, <1>3
    <2>3. QED BY <2>1, <2>2
  <1>11. DataTypeOK'
    BY <1>1, <1>9 DEF IInv, DataTypeOK
  <1>12. OnlyTargets' /\ LevelsKnown'
    BY <1>1 DEF IInv, OnlyTargets, LevelsKnown, SourceLevelOK, TargetLevelOK
  <1>13. TasksBlock'
    <2>1. \A u, v \in Osts : pending'[u][v] + returned'[u][v] > 0 =>
             pending[u][v] + returned[u][v] > 0
      BY <1>3, <1>10
    <2>2. QED BY <1>1, <2>1 DEF IInv, TasksBlock, Outstanding
  <1>14. OneToOne'
    <2>1. \A u, v \in Osts : pending[u][v] + returned[u][v] > 0 =>
             /\ pending[u][v] + returned[u][v] = 1
             /\ \A x \in Osts : /\ x # v => pending[u][x] + returned[u][x] = 0
                                /\ x # u => pending[x][v] + returned[x][v] = 0
      BY DEF IInv, OneToOne, Outstanding
    <2>2. ASSUME NEW u \in Osts, NEW v \in Osts,
                 pending'[u][v] + returned'[u][v] > 0
          PROVE  /\ pending'[u][v] + returned'[u][v] = 1
                 /\ \A x \in Osts : /\ x # v => pending'[u][x] + returned'[u][x] = 0
                                    /\ x # u => pending'[x][v] + returned'[x][v] = 0
      <3>1. /\ pending[u][v] + returned[u][v] = 1
            /\ \A x \in Osts : /\ x # v => pending[u][x] + returned[u][x] = 0
                               /\ x # u => pending[x][v] + returned[x][v] = 0
        BY <1>3, <1>10, <2>1, <2>2
      <3>2. QED BY <1>3, <1>10, <2>2, <3>1
    <2>3. QED BY <2>2 DEF OneToOne, Outstanding
  <1>15. QED BY <1>10, <1>11, <1>12, <1>13, <1>14 DEF IInv

-----------------------------------------------------------------------------
RespectsStep ==
    \A s, t \in Osts :
       pending'[s][t] > pending[s][t] =>
          /\ SourceLevelOK(level, s) /\ TargetLevelOK(level, t)
          /\ TargetThreshold <= SourceThreshold => s # t

(* Every step keeps the invariant, and only a push adds a task.            *)
LEMMA Step == IInv /\ [Next]_vars => IInv' /\ RespectsStep
  <1> SUFFICES ASSUME IInv, [Next]_vars PROVE IInv' /\ RespectsStep
    OBVIOUS
  <1>1. \A s, t \in Osts : pending[s][t] \in Nat
    BY OutstandingNat DEF IInv
  <1>2. ASSUME UNCHANGED pending PROVE RespectsStep
    BY <1>1, <1>2 DEF RespectsStep
  <1>3. ASSUME NEW o \in Osts, NEW k \in DOMAIN TargetList, PushTask(o, k)
        PROVE  IInv' /\ RespectsStep
    <2>1. /\ IInv'
          /\ SourceLevelOK(level, o) /\ TargetLevelOK(level, TargetList[k])
          /\ \A s, u \in Osts :
                s # o \/ u # TargetList[k] => pending'[s][u] = pending[s][u]
      BY <1>3, PushInv
    <2>2. TargetList[k] \in Osts /\ level \in [Osts -> Levels]
      BY TargetsAreOsts DEF IInv, DataTypeOK
    <2>3. ASSUME TargetThreshold <= SourceThreshold, o = TargetList[k] PROVE FALSE
      <3>1. level[o] \in Nat
        BY <2>1, <2>2 DEF SourceLevelOK
      <3>2. QED BY <2>1, <2>3, <3>1 DEF SourceLevelOK, TargetLevelOK
    <2>4. ASSUME NEW s \in Osts, NEW t \in Osts, pending'[s][t] > pending[s][t]
          PROVE  s = o /\ t = TargetList[k]
      BY <1>1, <2>1, <2>4
    <2>5. QED BY <2>1, <2>3, <2>4 DEF RespectsStep
  <1>4. ASSUME \/ BeginRound \/ EndRound \/ ResultsDone \/ NotDue
               \/ \E o \in Osts : SkipSource(o) \/ NoTargetReady(o)
        PROVE  IInv' /\ RespectsStep
    BY <1>2, <1>4, Unchanged
       DEF BeginRound, EndRound, ResultsDone, NotDue, SkipSource, NoTargetReady, Dies
  <1>5. ASSUME NEW s \in Osts, NEW t \in Osts, PopResult(s, t)
        PROVE  IInv' /\ RespectsStep
    <2>1. CASE srcState[s] \in InUse /\ tgtState[t] \in InUse
      BY <1>2, <1>5, <2>1, TaskDone DEF PopResult
    <2>2. CASE ~(srcState[s] \in InUse /\ tgtState[t] \in InUse)
      BY <1>2, <1>5, <2>2, Unchanged DEF PopResult, Dies
    <2>3. QED BY <2>1, <2>2
  <1>6. ASSUME NEW lev \in [Osts -> Levels], UpdateFillLevels(lev)
        PROVE  IInv' /\ RespectsStep
    BY <1>2, <1>6, UpdateInv DEF UpdateFillLevels, Dies
  <1>7. ASSUME NEW loaded, NEW order, ProcessInputFiles(loaded, order)
        PROVE  IInv' /\ RespectsStep
    BY <1>2, <1>7, InputInv DEF ProcessInputFiles, Dies
  <1>8. ASSUME DeallocateEmptyCaches PROVE IInv' /\ RespectsStep
    BY <1>2, <1>8, DeallocInv DEF DeallocateEmptyCaches, Dies
  <1>9. ASSUME NEW s \in Osts, NEW t \in Osts, Return(s, t) \/ Lose(s, t)
        PROVE  IInv' /\ RespectsStep
    <2>1. IInv' /\ \A u, v \in Osts : pending'[u][v] <= pending[u][v]
      BY <1>9, EnvironmentInv
    <2>2. \A u, v \in Osts : pending'[u][v] \in Nat
      BY <2>1 DEF IInv, DataTypeOK, Pairs
    <2>3. QED BY <1>1, <2>1, <2>2 DEF RespectsStep
  <1>10. CASE UNCHANGED vars
    BY <1>2, <1>10, Unchanged DEF vars
  <1>11. QED
    BY <1>3, <1>4, <1>5, <1>6, <1>7, <1>8, <1>9, <1>10
       DEF Next, Schedule, Results, Timers, Environment

(* No OST is in two migration tasks at a time, on either side, whatever    *)
(* the order of the results, the fill levels that are reported while tasks *)
(* are under way, and the tasks that get lost.                             *)
THEOREM MigratesOneToOne == Spec => []OneToOne
  <1>1. IInv => OneToOne
    BY DEF IInv
  <1>2. QED BY <1>1, InitInv, Step, PTL DEF Spec

(* A task is pushed only for a source above its threshold and a target     *)
(* below its own, by the last known fill levels.                           *)
THEOREM PushesWithinThresholds == Spec => RespectsThresholds
  <1>1. IInv /\ [Next]_vars => [RespectsStep]_vars
    BY Step
  <1>2. Spec => [][RespectsStep]_vars
    BY <1>1, InitInv, Step, PTL DEF Spec
  <1>3. QED BY <1>2 DEF RespectsThresholds, RespectsStep
=============================================================================
