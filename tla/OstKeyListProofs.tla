--------------------------- MODULE OstKeyListProofs ---------------------------
(***************************************************************************)
(* Theorems about OstMigration that depend on the key list: the scheduler  *)
(* walks exactly the keys of the state dictionary, which are those of the  *)
(* cache dictionary, so it meets no missing key and overlooks no cache.    *)
(***************************************************************************)
EXTENDS OstMigrationProofs, SequenceTheorems, FiniteSetTheorems

(***************************************************************************)
(* Induction over the natural numbers, as a fact about sets of them.       *)
(***************************************************************************)
LessThan == {p \in Nat \X Nat : p[1] < p[2]}

LEMMA LeastNumber ==
    ASSUME NEW T, T \subseteq Nat, NEW z \in T
    PROVE  \E x \in T : \A y \in T : x <= y
  <1>1. IsWellFoundedOn(LessThan, Nat)
    BY NatLessThanWellFounded DEF OpToRel, LessThan
  <1>2. PICK x \in T : \A y \in T : <<y, x>> \notin LessThan
    BY <1>1, WFMin
  <1>3. \A y \in T : ~(y < x)
    BY <1>2 DEF LessThan
  <1>4. QED BY <1>2, <1>3

LEMMA Induction ==
    ASSUME NEW T, 0 \in T, \A n \in Nat : n \in T => n + 1 \in T
    PROVE  Nat \subseteq T
  <1> SUFFICES ASSUME NEW z \in Nat, z \notin T PROVE FALSE
    OBVIOUS
  <1> DEFINE U == {n \in Nat : n \notin T}
  <1>1. PICK x \in U : \A y \in U : x <= y
    <2>1. z \in U /\ U \subseteq Nat
      OBVIOUS
    <2> HIDE DEF U
    <2>2. QED BY <2>1, LeastNumber
  <1>2. x \in Nat /\ x # 0 /\ x - 1 \notin U
    BY <1>1
  <1>3. x - 1 \in Nat /\ x - 1 \in T
    BY <1>2
  <1>4. QED BY <1>1, <1>2, <1>3

(***************************************************************************)
(* What Remaining computes.                                                *)
(***************************************************************************)
Table(keys, freed, f, m) ==
    /\ f \in [0 .. m -> Seq(Osts)]
    /\ f[0] = << >>
    /\ \A n \in 1 .. m :
          f[n] = IF keys[n] \in freed THEN f[n - 1] ELSE Append(f[n - 1], keys[n])

LEMMA TableExists ==
    ASSUME NEW keys \in Seq(Osts), NEW freed
    PROVE  \E f : Table(keys, freed, f, Len(keys))
  <1> DEFINE T == {m \in Nat : m <= Len(keys) => \E f : Table(keys, freed, f, m)}
  <1>1. 0 \in T
    <2> DEFINE f == [n \in 0 .. 0 |-> << >>]
    <2>1. Table(keys, freed, f, 0)
      BY DEF Table
    <2>2. QED BY <2>1
  <1>2. ASSUME NEW m \in Nat, m \in T, m + 1 <= Len(keys)
        PROVE  \E f : Table(keys, freed, f, m + 1)
    <2>1. PICK f : Table(keys, freed, f, m)
      BY <1>2
    <2>2. keys[m + 1] \in Osts
      BY <1>2, ElementOfSeq
    <2> DEFINE last == IF keys[m + 1] \in freed THEN f[m] ELSE Append(f[m], keys[m + 1])
               g == [n \in 0 .. m + 1 |-> IF n <= m THEN f[n] ELSE last]
    <2>3. f[m] \in Seq(Osts)
      BY <2>1 DEF Table
    <2>4. last \in Seq(Osts)
      BY <2>2, <2>3
    <2> HIDE DEF last
    <2>5. g \in [0 .. m + 1 -> Seq(Osts)] /\ g[0] = << >>
      BY <2>1, <2>4 DEF Table
    <2>6. /\ g[m + 1] = last
          /\ \A n \in 0 .. m : g[n] = f[n]
      OBVIOUS
    <2> HIDE DEF g
    <2>7. ASSUME NEW n \in 1 .. m + 1
          PROVE  g[n] = IF keys[n] \in freed THEN g[n - 1] ELSE Append(g[n - 1], keys[n])
      <3>1. CASE n = m + 1
        BY <3>1, <2>6 DEF last
      <3>2. CASE n \in 1 .. m
        <4>1. n - 1 \in 0 .. m
          BY <3>2
        <4>2. QED BY <3>2, <4>1, <2>1, <2>6 DEF Table
      <3>3. QED BY <3>1, <3>2
    <2>8. QED BY <2>5, <2>7 DEF Table
  <1>3. \A m \in Nat : m \in T => m + 1 \in T
    BY <1>2
  <1> HIDE DEF T
  <1>4. Len(keys) \in T
    BY <1>1, <1>3, Induction
  <1>5. QED BY <1>4 DEF T

LEMMA RemainingIsLast ==
    ASSUME NEW keys \in Seq(Osts), NEW freed
    PROVE  \E f : /\ Table(keys, freed, f, Len(keys))
                  /\ Remaining(keys, freed) = f[Len(keys)]
  <1> DEFINE Body(f) ==
               [n \in 0 .. Len(keys) |->
                  IF n = 0 THEN << >>
                  ELSE IF keys[n] \in freed THEN f[n - 1] ELSE Append(f[n - 1], keys[n])]
             kept == CHOOSE f : f = Body(f)
  <1>1. PICK f : Table(keys, freed, f, Len(keys))
    BY TableExists
  <1>2. f = Body(f)
    <2>1. f = [n \in 0 .. Len(keys) |-> f[n]]
      BY <1>1 DEF Table
    <2>2. \A n \in 0 .. Len(keys) :
             f[n] = IF n = 0 THEN << >>
                    ELSE IF keys[n] \in freed THEN f[n - 1] ELSE Append(f[n - 1], keys[n])
      <3>1. \A n \in 0 .. Len(keys) : n # 0 => n \in 1 .. Len(keys)
        OBVIOUS
      <3>2. QED BY <1>1, <3>1 DEF Table
    <2>3. QED BY <2>1, <2>2
  <1>3. kept = Body(kept)
    BY <1>2
  <1>4. Remaining(keys, freed) = kept[Len(keys)]
    BY DEF Remaining
  <1> HIDE DEF kept
  <1>5. /\ kept[0] = << >>
        /\ \A n \in 1 .. Len(keys) :
              kept[n] = IF keys[n] \in freed THEN kept[n - 1] ELSE Append(kept[n - 1], keys[n])
    <2>1. /\ 0 \in 0 .. Len(keys)
          /\ \A n \in 1 .. Len(keys) : n \in 0 .. Len(keys) /\ n # 0
      OBVIOUS
    <2>2. QED BY <1>3, <2>1
  <1> DEFINE T == {n \in Nat : n <= Len(keys) => kept[n] = f[n]}
  <1>6. 0 \in T
    BY <1>1, <1>5 DEF Table
  <1>7. ASSUME NEW n \in Nat, n \in T, n + 1 <= Len(keys)
        PROVE  kept[n + 1] = f[n + 1]
    <2>1. kept[n] = f[n] /\ n + 1 \in 1 .. Len(keys) /\ (n + 1) - 1 = n
      BY <1>7
    <2>2. QED BY <2>1, <1>1, <1>5 DEF Table
  <1>8. \A n \in Nat : n \in T => n + 1 \in T
    BY <1>7
  <1> HIDE DEF T
  <1>9. Len(keys) \in T
    BY <1>6, <1>8, Induction
  <1>10. QED BY <1>1, <1>4, <1>9 DEF T

NoDuplicates(s) == \A j, k \in DOMAIN s : s[j] = s[k] => j = k

LEMMA RemainingFacts ==
    ASSUME NEW keys \in Seq(Osts), NEW freed
    PROVE  /\ Remaining(keys, freed) \in Seq(Osts)
           /\ \A o : (\E k \in DOMAIN Remaining(keys, freed) : Remaining(keys, freed)[k] = o)
                     <=> o \notin freed /\ \E k \in DOMAIN keys : keys[k] = o
           /\ NoDuplicates(keys) => NoDuplicates(Remaining(keys, freed))
  <1>1. PICK f : /\ Table(keys, freed, f, Len(keys))
                 /\ Remaining(keys, freed) = f[Len(keys)]
    BY RemainingIsLast
  <1> DEFINE Holds(n) ==
               /\ f[n] \in Seq(Osts)
               /\ \A o : (\E k \in 1 .. Len(f[n]) : f[n][k] = o)
                         <=> o \notin freed /\ \E k \in 1 .. n : keys[k] = o
               /\ NoDuplicates(keys) =>
                     \A j, k \in 1 .. Len(f[n]) : f[n][j] = f[n][k] => j = k
             T == {n \in Nat : n <= Len(keys) => Holds(n)}
  <1>2. 0 \in T
    <2>1. f[0] = << >> /\ Len(<< >>) = 0 /\ << >> \in Seq(Osts)
      BY <1>1 DEF Table
    <2>2. Holds(0)
      BY <2>1
    <2>3. QED BY <2>2
  <1>3. ASSUME NEW n \in Nat, n \in T, n + 1 <= Len(keys)
        PROVE  Holds(n + 1)
    <2>1. Holds(n)
      BY <1>3
    <2>2. f[n + 1] = IF keys[n + 1] \in freed THEN f[n] ELSE Append(f[n], keys[n + 1])
      <3>1. n + 1 \in 1 .. Len(keys) /\ (n + 1) - 1 = n
        BY <1>3
      <3>2. QED BY <3>1, <1>1 DEF Table
    <2>3. keys[n + 1] \in Osts /\ \A k \in 1 .. n + 1 : k \in 1 .. n \/ k = n + 1
      BY <1>3, ElementOfSeq
    <2>4. CASE keys[n + 1] \in freed
      BY <2>1, <2>2, <2>3, <2>4
    <2>5. CASE keys[n + 1] \notin freed
      <3> DEFINE s == f[n]
                 e == keys[n + 1]
                 r == f[n + 1]
      <3>1. /\ r = Append(s, e) /\ r \in Seq(Osts) /\ Len(r) = Len(s) + 1
            /\ Len(s) \in Nat
            /\ r[Len(s) + 1] = e /\ \A k \in 1 .. Len(s) : r[k] = s[k]
        BY <2>1, <2>2, <2>3, <2>5, AppendProperties
      <3> HIDE DEF s, e, r
      <3>2. \A k \in 1 .. Len(r) : k \in 1 .. Len(s) \/ k = Len(s) + 1
        BY <3>1
      <3>2a. Len(s) + 1 \in 1 .. Len(r) /\ \A k \in 1 .. Len(s) : k \in 1 .. Len(r)
        BY <3>1
      <3>3. \A o : (\E k \in 1 .. Len(r) : r[k] = o) <=>
                   o = e \/ \E k \in 1 .. Len(s) : s[k] = o
        BY <3>1, <3>2, <3>2a
      <3>4. \A o : (\E k \in 1 .. n + 1 : keys[k] = o) <=>
                   o = e \/ \E k \in 1 .. n : keys[k] = o
        <4>1. n + 1 \in 1 .. n + 1 /\ \A k \in 1 .. n : k \in 1 .. n + 1
          OBVIOUS
        <4>2. QED BY <2>3, <4>1 DEF e
      <3>5. \A o : (\E k \in 1 .. Len(r) : r[k] = o) <=>
                   o \notin freed /\ \E k \in 1 .. n + 1 : keys[k] = o
        BY <2>1, <2>5, <3>3, <3>4, Zenon DEF s, e
      <3>6. ASSUME NoDuplicates(keys), NEW j \in 1 .. Len(r), NEW k \in 1 .. Len(r),
                   r[j] = r[k]
            PROVE  j = k
        <4>1. \A i \in 1 .. Len(s) : s[i] # e
          <5>1. ASSUME NEW i \in 1 .. Len(s), s[i] = e PROVE FALSE
            <6>1. PICK h \in 1 .. n : keys[h] = e
              BY <2>1, <5>1 DEF s
            <6>2. h \in DOMAIN keys /\ n + 1 \in DOMAIN keys
              BY <1>3
            <6>3. h = n + 1
              BY <3>6, <6>1, <6>2 DEF NoDuplicates, e
            <6>4. QED BY <6>3
          <5>2. QED BY <5>1
        <4>2. \A h, i \in 1 .. Len(s) : s[h] = s[i] => h = i
          BY <2>1, <3>6 DEF s
        <4>3. QED BY <3>1, <3>2, <3>6, <4>1, <4>2
      <3>7. QED BY <3>1, <3>5, <3>6 DEF r
    <2>6. QED BY <2>4, <2>5
  <1> HIDE DEF Holds
  <1>4. \A n \in Nat : n \in T => n + 1 \in T
    BY <1>3
  <1> HIDE DEF T
  <1>5. Len(keys) \in T
    BY <1>2, <1>4, Induction
  <1>6. Holds(Len(keys))
    BY <1>5 DEF T
  <1> DEFINE r == Remaining(keys, freed)
  <1>7. r = f[Len(keys)]
    BY <1>1
  <1> HIDE DEF r
  <1>8. /\ r \in Seq(Osts)
        /\ \A o : (\E k \in 1 .. Len(r) : r[k] = o)
                  <=> o \notin freed /\ \E k \in 1 .. Len(keys) : keys[k] = o
        /\ NoDuplicates(keys) => \A j, k \in 1 .. Len(r) : r[j] = r[k] => j = k
    BY <1>6, <1>7 DEF Holds
  <1>9. DOMAIN r = 1 .. Len(r) /\ DOMAIN keys = 1 .. Len(keys)
    BY <1>8
  <1>10. QED BY <1>8, <1>9 DEF NoDuplicates, r

(***************************************************************************)
(* New keys: every one of them once.                                       *)
(***************************************************************************)
LEMMA OrderFacts ==
    ASSUME NEW S, S \subseteq Osts, NEW order \in Orders(S)
    PROVE  /\ order \in Seq(Osts)
           /\ \A o : (\E k \in DOMAIN order : order[k] = o) <=> o \in S
           /\ NoDuplicates(order)
  <1> DEFINE n == Cardinality(S)
  <1>1. IsFiniteSet(S) /\ n \in Nat
    BY OstsAssumption, FS_Subset, FS_CardinalityType
  <1>2. order \in [1 .. n -> S] /\ \A o \in S : \E k \in DOMAIN order : order[k] = o
    BY DEF Orders
  <1> HIDE DEF n
  <1>3. order \in Surjection(1 .. n, S)
    BY <1>2 DEF Surjection
  <1>4. IsFiniteSet(1 .. n) /\ Cardinality(1 .. n) = n
    BY <1>1, FS_Interval
  <1>5. order \in Injection(1 .. n, S)
    BY <1>3, <1>4, FS_SurjSameCardinalityImpliesInj DEF n
  <1>6. NoDuplicates(order)
    BY <1>2, <1>5 DEF Injection, IsInjective, NoDuplicates
  <1>7. order \in Seq(Osts)
    BY <1>1, <1>2
  <1>8. QED BY <1>2, <1>6, <1>7

-----------------------------------------------------------------------------
(***************************************************************************)
(* The invariant of the key list, on top of the one of the OST states: a   *)
(* cache, a source state and a place in the list come and go together, and *)
(* an OST is in use only while a task for it is under way.                 *)
(***************************************************************************)
USE TargetListAssumption, LevelsAssumption, BoundAssumption

USE DEF ostVars, schedVars, taskVars

InKeyList(o) == \E k \in DOMAIN keyList : keyList[k] = o

KeysMatch ==
    /\ \A o \in Osts : /\ o \in caches <=> srcState[o] # "absent"
                       /\ o \in caches <=> InKeyList(o)
                       /\ files[o] > 0 => o \in caches
    /\ NoDuplicates(keyList)

KInv == IInv /\ TypeOK /\ KeysMatch /\ NeverInconsistent /\ BlockedOnlyByTasks

LEMMA InitKInv == Init => KInv
  <1> SUFFICES ASSUME Init PROVE KInv
    OBVIOUS
  <1>1. IInv
    BY InitInv
  <1>2. /\ caches = {} /\ files = [o \in Osts |-> 0] /\ keyList = << >>
        /\ nextSrc = 0 /\ nextTgt = 0 /\ checked = 0
        /\ pc \in {"missing", "files"}
        /\ srcState = [o \in Osts |-> "absent"]
        /\ tgtState = [o \in Osts |-> IF o \in TargetOsts
                                      THEN UpdatedTarget(level, o, "absent")
                                      ELSE "absent"]
    BY DEF Init
  <1>3. TypeOK
    <2>1. Len(TargetList) \in Nat /\ << >> \in Seq(Osts)
      OBVIOUS
    <2>2. QED
      BY <1>1, <1>2, <2>1 DEF IInv, DataTypeOK, TypeOK, Steps, Dead
  <1>4. KeysMatch
    BY <1>2 DEF KeysMatch, InKeyList, NoDuplicates
  <1>5. NeverInconsistent
    BY <1>2 DEF NeverInconsistent
  <1>6. BlockedOnlyByTasks
    <2>1. \A o \in Osts : UpdatedTarget(level, o, "absent") \notin InUse
      BY DEF UpdatedTarget, Opened, Closed, InUse
    <2>2. QED BY <1>2, <2>1 DEF BlockedOnlyByTasks, BlockedByTasks, InUse
  <1>7. QED BY <1>1, <1>3, <1>4, <1>5, <1>6 DEF KInv

(***************************************************************************)
(* Types.                                                                  *)
(***************************************************************************)
LEMMA TypeStep ==
    ASSUME KInv, [Next]_vars, IInv'
    PROVE  TypeOK'
  <1> USE DEF Steps, Dead
  <1>1. /\ level' \in [Osts -> Levels]
        /\ srcState' \in [Osts -> States] /\ tgtState' \in [Osts -> States]
        /\ pending' \in Pairs /\ returned' \in Pairs
    BY DEF IInv, DataTypeOK
  <1>2. /\ pc \in Steps \union Dead /\ caches \subseteq Osts
        /\ files \in [Osts -> Nat] /\ keyList \in Seq(Osts)
        /\ nextSrc \in Nat /\ nextTgt \in 0 .. Len(TargetList) /\ checked \in Nat
        /\ Len(TargetList) \in Nat
    BY DEF KInv, TypeOK
  <1> DEFINE Rest == /\ pc' \in Steps \union Dead /\ caches' \subseteq Osts
                     /\ files' \in [Osts -> Nat] /\ keyList' \in Seq(Osts)
                     /\ nextSrc' \in Nat /\ nextTgt' \in 0 .. Len(TargetList)
                     /\ checked' \in Nat
  <1>a. Rest => TypeOK'
    BY <1>1 DEF TypeOK
  <1>3. CASE \/ BeginRound \/ EndRound \/ ResultsDone \/ NotDue
             \/ \E s, t \in Osts : PopResult(s, t) \/ Return(s, t) \/ Lose(s, t)
             \/ UNCHANGED vars
    BY <1>a, <1>2, <1>3
       DEF BeginRound, EndRound, ResultsDone, NotDue, PopResult, Return, Lose,
           Dies, vars
  <1>4. CASE \E o \in Osts : SkipSource(o) \/ NoTargetReady(o)
    BY <1>a, <1>2, <1>4 DEF SkipSource, NoTargetReady, Dies
  <1>5. ASSUME NEW o \in Osts, NEW k \in DOMAIN TargetList, PushTask(o, k)
        PROVE  TypeOK'
    <2>1. k \in ReadyTargets /\ files[o] > 0
      BY <1>5 DEF PushTask, Schedulable
    <2>2. k \in nextTgt + 1 .. Len(TargetList)
      BY <2>1 DEF ReadyTargets
    <2>3. k \in Nat /\ k <= Len(TargetList) /\ k - nextTgt \in Nat
      BY <1>2, <2>2
    <2>4. files[o] - 1 \in Nat
      BY <1>2, <2>1
    <2>5. /\ files' = [files EXCEPT ![o] = files[o] - 1] /\ nextSrc' = nextSrc + 1
          /\ nextTgt' = IF k = Len(TargetList) THEN 0 ELSE k
          /\ checked' = checked + (k - nextTgt)
          /\ UNCHANGED <<pc, caches, keyList>>
      BY <1>5 DEF PushTask
    <2>6. files' \in [Osts -> Nat]
      BY <1>2, <2>4, <2>5
    <2>7. nextTgt' \in 0 .. Len(TargetList)
      BY <1>2, <2>5
    <2>8. checked' \in Nat /\ nextSrc' \in Nat
      BY <1>2, <2>3, <2>5
    <2>9. QED BY <1>a, <1>2, <2>5, <2>6, <2>7, <2>8
  <1>6. CASE \E lev \in [Osts -> Levels] : UpdateFillLevels(lev)
    BY <1>a, <1>2, <1>6 DEF UpdateFillLevels, Dies
  <1>7. ASSUME NEW loaded \in Loads, NEW order \in Orders(NewSources(loaded)),
               ProcessInputFiles(loaded, order)
        PROVE  TypeOK'
    <2>1. order \in Seq(Osts)
      BY OrderFacts DEF NewSources
    <2>2. loaded \in [Osts -> 0 .. MaxFiles] /\ MaxFiles \in Nat
      BY DEF Loads
    <2>3. keyList \o order \in Seq(Osts)
      BY <1>2, <2>1
    <2>4. [o \in Osts |-> files[o] + loaded[o]] \in [Osts -> Nat]
      BY <1>2, <2>2
    <2>5. QED BY <1>a, <1>2, <1>7, <2>3, <2>4 DEF ProcessInputFiles, Dies
  <1>8. CASE DeallocateEmptyCaches
    <2>1. \A freed : Remaining(keyList, freed) \in Seq(Osts)
      BY <1>2, RemainingFacts
    <2>2. QED BY <1>a, <1>2, <1>8, <2>1 DEF DeallocateEmptyCaches, Dies
  <1>9. QED
    BY <1>3, <1>4, <1>5, <1>6, <1>7, <1>8
       DEF Next, Schedule, Results, Timers, Environment

(***************************************************************************)
(* The key list.                                                           *)
(***************************************************************************)
LEMMA KeysKept ==
    ASSUME KInv, UNCHANGED <<caches, keyList>>,
           \A o \in Osts : /\ srcState'[o] = "absent" <=> srcState[o] = "absent"
                           /\ files'[o] > 0 => files[o] > 0
    PROVE  KeysMatch'
  BY DEF KInv, KeysMatch, InKeyList, NoDuplicates

LEMMA InputKeys ==
    ASSUME KInv, NEW loaded \in Loads, NEW order \in Orders(NewSources(loaded)),
           ProcessInputFiles(loaded, order)
    PROVE  KeysMatch'
  <1> DEFINE new == NewSources(loaded)
  <1>1. CASE \E o \in new : level[o] = NotListed
    <2>1. UNCHANGED <<ostVars, schedVars>>
      BY <1>1 DEF ProcessInputFiles, Dies
    <2>2. QED BY <2>1, KeysKept
  <1>2. CASE ~ \E o \in new : level[o] = NotListed
    <2>1. /\ caches' = caches \union {o \in Osts : loaded[o] > 0}
          /\ files' = [o \in Osts |-> files[o] + loaded[o]]
          /\ srcState' = [o \in Osts |-> IF o \in new THEN UpdatedSource(level, o)
                                                      ELSE srcState[o]]
          /\ keyList' = keyList \o order
      BY <1>2 DEF ProcessInputFiles
    <2>2. /\ keyList \in Seq(Osts) /\ caches \subseteq Osts
          /\ files \in [Osts -> Nat] /\ loaded \in [Osts -> 0 .. MaxFiles]
          /\ srcState \in [Osts -> States]
      BY DEF KInv, TypeOK, Loads
    <2>3. /\ order \in Seq(Osts) /\ NoDuplicates(order)
          /\ \A o : (\E k \in DOMAIN order : order[k] = o) <=> o \in new
      <3>1. new \subseteq Osts
        BY DEF NewSources
      <3> HIDE DEF new
      <3>2. order \in Orders(new)
        BY DEF new
      <3>3. QED BY <3>1, <3>2, OrderFacts
    <2>4. \A o \in Osts : o \in new <=> loaded[o] > 0 /\ srcState[o] = "absent"
      BY DEF NewSources, Sources
    <2>5. \A o \in Osts : UpdatedSource(level, o) # "absent"
      BY <2>2, StateFacts DEF UpdatedSource, OSTState
    <2> HIDE DEF new
    <2>6. \A o \in Osts : /\ o \in caches <=> srcState[o] # "absent"
                          /\ o \in caches <=> InKeyList(o)
                          /\ files[o] > 0 => o \in caches
      BY DEF KInv, KeysMatch
    <2>7. \A o \in Osts : o \in caches' <=> o \in caches \/ o \in new
      BY <2>1, <2>4, <2>6
    <2>8. /\ DOMAIN keyList = 1 .. Len(keyList) /\ DOMAIN order = 1 .. Len(order)
          /\ DOMAIN keyList' = 1 .. Len(keyList) + Len(order)
          /\ Len(keyList) \in Nat /\ Len(order) \in Nat
          /\ \A k \in 1 .. Len(keyList) : keyList'[k] = keyList[k]
          /\ \A k \in 1 .. Len(order) : keyList'[Len(keyList) + k] = order[k]
      BY <2>1, <2>2, <2>3, ConcatProperties
    <2>9. \A k \in DOMAIN keyList' : \/ k \in DOMAIN keyList
                                     \/ \E j \in DOMAIN order : k = Len(keyList) + j
      <3>1. ASSUME NEW k \in DOMAIN keyList', k \notin DOMAIN keyList
            PROVE  k - Len(keyList) \in DOMAIN order /\ k = Len(keyList) + (k - Len(keyList))
        BY <3>1, <2>8
      <3>2. QED BY <3>1
    <2>10. /\ \A k \in DOMAIN keyList : k \in DOMAIN keyList'
           /\ \A k \in DOMAIN order : Len(keyList) + k \in DOMAIN keyList'
      BY <2>8
    <2>11. \A o \in Osts : InKeyList(o)' <=> InKeyList(o) \/ o \in new
      <3>1. ASSUME NEW o \in Osts, NEW k \in DOMAIN keyList', keyList'[k] = o
            PROVE  InKeyList(o) \/ o \in new
        BY <3>1, <2>3, <2>8, <2>9 DEF InKeyList
      <3>2. ASSUME NEW o \in Osts, InKeyList(o) \/ o \in new
            PROVE  \E k \in DOMAIN keyList' : keyList'[k] = o
        BY <3>2, <2>3, <2>8, <2>10 DEF InKeyList
      <3>3. QED BY <3>1, <3>2 DEF InKeyList
    <2>12. \A o \in Osts : /\ o \in caches' <=> srcState'[o] # "absent"
                           /\ o \in caches' <=> InKeyList(o)'
                           /\ files'[o] > 0 => o \in caches'
      <3>1. \A o \in Osts : o \in caches' <=> srcState'[o] # "absent"
        BY <2>1, <2>4, <2>5, <2>6, <2>7
      <3>2. \A o \in Osts : files'[o] > 0 => o \in caches'
        BY <2>1, <2>2, <2>6
      <3>3. QED BY <3>1, <3>2, <2>6, <2>7, <2>11
    <2>13. NoDuplicates(keyList)'
      <3>1. /\ \A j, k \in DOMAIN keyList : keyList[j] = keyList[k] => j = k
            /\ \A j, k \in DOMAIN order : order[j] = order[k] => j = k
        BY <2>3 DEF KInv, KeysMatch, NoDuplicates
      <3>2. \A j \in DOMAIN keyList, k \in DOMAIN order : keyList[j] # order[k]
        <4>1. ASSUME NEW j \in DOMAIN keyList, NEW k \in DOMAIN order,
                     keyList[j] = order[k]
              PROVE  FALSE
          <5>1. order[k] \in new /\ order[k] \in Osts
            <6>1. order[k] \in new
              BY <4>1, <2>3
            <6>2. new \subseteq Osts
              BY DEF new, NewSources
            <6>3. QED BY <6>1, <6>2
          <5>2. InKeyList(order[k])
            BY <4>1 DEF InKeyList
          <5>3. QED BY <5>1, <5>2, <2>4, <2>6
        <4>2. QED BY <4>1
      <3>3. ASSUME NEW j \in DOMAIN keyList', NEW k \in DOMAIN keyList',
                   keyList'[j] = keyList'[k]
            PROVE  j = k
        <4>1. CASE j \in DOMAIN keyList /\ k \in DOMAIN keyList
          BY <3>1, <3>3, <4>1, <2>8
        <4>2. CASE j \in DOMAIN keyList /\ k \notin DOMAIN keyList
          <5>1. PICK h \in DOMAIN order : k = Len(keyList) + h
            BY <4>2, <2>9
          <5>2. keyList[j] = order[h]
            BY <3>3, <4>2, <5>1, <2>8
          <5>3. QED BY <3>2, <4>2, <5>2
        <4>3. CASE j \notin DOMAIN keyList /\ k \in DOMAIN keyList
          <5>1. PICK h \in DOMAIN order : j = Len(keyList) + h
            BY <4>3, <2>9
          <5>2. keyList[k] = order[h]
            BY <3>3, <4>3, <5>1, <2>8
          <5>3. QED BY <3>2, <4>3, <5>2
        <4>4. CASE j \notin DOMAIN keyList /\ k \notin DOMAIN keyList
          <5>1. PICK h \in DOMAIN order : j = Len(keyList) + h
            BY <4>4, <2>9
          <5>2. PICK i \in DOMAIN order : k = Len(keyList) + i
            BY <4>4, <2>9
          <5>3. order[h] = order[i]
            BY <3>3, <5>1, <5>2, <2>8
          <5>4. QED BY <3>1, <5>1, <5>2, <5>3
        <4>5. QED BY <4>1, <4>2, <4>3, <4>4
      <3>4. QED BY <3>3 DEF NoDuplicates
    <2>14. QED BY <2>12, <2>13 DEF KeysMatch
  <1>3. QED BY <1>1, <1>2

LEMMA DeallocKeys ==
    ASSUME KInv, DeallocateEmptyCaches
    PROVE  KeysMatch'
  <1> DEFINE empty == {o \in caches : files[o] = 0}
             freed == {o \in empty : srcState[o] \in {"READY", "LOCKED"}}
  <1>1. CASE \E o \in empty : srcState[o] = "absent"
    <2>1. UNCHANGED <<ostVars, schedVars>>
      BY <1>1 DEF DeallocateEmptyCaches, Dies
    <2>2. QED BY <2>1, KeysKept
  <1>2. CASE ~ \E o \in empty : srcState[o] = "absent"
    <2>1. /\ caches' = caches \ freed
          /\ srcState' = [o \in Osts |-> IF o \in freed THEN "absent" ELSE srcState[o]]
          /\ keyList' = Remaining(keyList, freed)
          /\ files' = files
      BY <1>2 DEF DeallocateEmptyCaches
    <2>2. \A o \in freed : files[o] = 0
      OBVIOUS
    <2> HIDE DEF freed
    <2>3. keyList \in Seq(Osts)
      BY DEF KInv, TypeOK
    <2>4. \A o : (\E k \in DOMAIN keyList' : keyList'[k] = o)
                 <=> o \notin freed /\ \E k \in DOMAIN keyList : keyList[k] = o
      BY <2>1, <2>3, RemainingFacts
    <2>5. NoDuplicates(keyList')
      BY <2>1, <2>3, RemainingFacts DEF KInv, KeysMatch
    <2>6. QED BY <2>1, <2>2, <2>4, <2>5 DEF KInv, KeysMatch, InKeyList
  <1>3. QED BY <1>1, <1>2

LEMMA KeysStep ==
    ASSUME KInv, [Next]_vars
    PROVE  KeysMatch'
  <1>1. /\ srcState \in [Osts -> States] /\ files \in [Osts -> Nat]
        /\ \A o \in Osts : files[o] > 0 => srcState[o] # "absent"
    BY DEF KInv, TypeOK, KeysMatch
  <1>2. CASE \/ BeginRound \/ EndRound \/ ResultsDone \/ NotDue
             \/ \E o \in Osts : SkipSource(o) \/ NoTargetReady(o)
             \/ \E s, t \in Osts : Return(s, t) \/ Lose(s, t)
             \/ UNCHANGED vars
    <2>1. UNCHANGED <<caches, keyList, srcState, files>>
      BY <1>2 DEF BeginRound, EndRound, ResultsDone, NotDue, SkipSource, NoTargetReady,
                  Return, Lose, Dies, vars
    <2>2. QED BY <2>1, KeysKept
  <1>3. ASSUME NEW o \in Osts, NEW k \in DOMAIN TargetList, PushTask(o, k)
        PROVE  KeysMatch'
    <2>1. /\ srcState[o] = "READY" /\ UNCHANGED <<caches, keyList>>
          /\ srcState' = [srcState EXCEPT ![o] = "BLOCKED"]
          /\ files' = [files EXCEPT ![o] = files[o] - 1]
      BY <1>3 DEF PushTask, Schedulable
    <2>2. QED BY <1>1, <2>1, KeysKept
  <1>4. ASSUME NEW s \in Osts, NEW t \in Osts, PopResult(s, t)
        PROVE  KeysMatch'
    <2>1. CASE srcState[s] \in InUse /\ tgtState[t] \in InUse
      <3>1. /\ srcState[s] # "absent" /\ Released(srcState[s]) # "absent"
            /\ srcState' = [srcState EXCEPT ![s] = Released(srcState[s])]
            /\ UNCHANGED <<caches, keyList, files>>
        BY <1>4, <2>1 DEF PopResult, InUse, Released
      <3>2. QED BY <1>1, <3>1, KeysKept
    <2>2. CASE ~(srcState[s] \in InUse /\ tgtState[t] \in InUse)
      <3>1. UNCHANGED <<caches, keyList, srcState, files>>
        BY <1>4, <2>2 DEF PopResult, Dies
      <3>2. QED BY <3>1, KeysKept
    <2>3. QED BY <2>1, <2>2
  <1>5. ASSUME NEW lev \in [Osts -> Levels], UpdateFillLevels(lev)
        PROVE  KeysMatch'
    <2>1. CASE \E o \in Sources \union TargetOsts : lev[o] = NotListed
      <3>1. UNCHANGED <<caches, keyList, srcState, files>>
        BY <1>5, <2>1 DEF UpdateFillLevels, Dies
      <3>2. QED BY <3>1, KeysKept
    <2>2. CASE ~ \E o \in Sources \union TargetOsts : lev[o] = NotListed
      <3>1. /\ srcState' = [o \in Osts |-> IF o \in Sources THEN UpdatedSource(lev, o)
                                                            ELSE "absent"]
            /\ UNCHANGED <<caches, keyList, files>>
        BY <1>5, <2>2 DEF UpdateFillLevels
      <3>2. \A o \in Osts : UpdatedSource(lev, o) # "absent"
        BY <1>1, StateFacts DEF UpdatedSource, OSTState
      <3>3. \A o \in Osts : o \in Sources <=> srcState[o] # "absent"
        BY DEF Sources
      <3>4. QED BY <3>1, <3>2, <3>3, KeysKept
    <2>3. QED BY <2>1, <2>2
  <1>6. QED
    BY <1>2, <1>3, <1>4, <1>5, InputKeys, DeallocKeys
       DEF Next, Schedule, Results, Timers, Environment

(***************************************************************************)
(* The generator does not die of its own state.                            *)
(***************************************************************************)
LEMMA ConsistentStep ==
    ASSUME KInv, [Next]_vars
    PROVE  NeverInconsistent'
  <1>1. \A o \in Osts : /\ o \in caches <=> srcState[o] # "absent"
                        /\ o \in caches <=> InKeyList(o)
    BY DEF KInv, KeysMatch
  <1>2. /\ pc # "inconsistent" /\ caches \subseteq Osts
        /\ keyList \in Seq(Osts) /\ nextSrc \in Nat
    BY DEF KInv, TypeOK, NeverInconsistent
  <1>3. ASSUME NEW o \in Osts, SkipSource(o) PROVE NeverInconsistent'
    <2>1. o = keyList[nextSrc + 1] /\ nextSrc < Len(keyList)
      BY <1>2, <1>3 DEF SkipSource, Visits, RoundOver
    <2>2. nextSrc + 1 \in DOMAIN keyList
      BY <1>2, <2>1
    <2>3. InKeyList(o)
      BY <2>1, <2>2 DEF InKeyList
    <2>4. ~KeyMissing(o)
      BY <1>1, <2>3 DEF KeyMissing
    <2>5. QED BY <1>2, <1>3, <2>4 DEF SkipSource, NeverInconsistent
  <1>4. ASSUME NEW s \in Osts, NEW t \in Osts, PopResult(s, t)
        PROVE  NeverInconsistent'
    <2>1. pending[s][t] \in Nat /\ returned[s][t] \in Nat /\ returned[s][t] > 0
      BY <1>4, OutstandingNat DEF KInv, IInv, PopResult
    <2>2. srcState[s] \in InUse /\ tgtState[t] \in InUse
      BY <2>1 DEF KInv, IInv, TasksBlock, Outstanding
    <2>3. QED BY <1>2, <1>4, <2>2 DEF PopResult, NeverInconsistent
  <1>5. CASE DeallocateEmptyCaches
    <2>1. \A o \in caches : srcState[o] # "absent"
      BY <1>1, <1>2
    <2>2. QED BY <1>5, <2>1 DEF DeallocateEmptyCaches, NeverInconsistent
  <1>6. CASE \/ \E o \in Osts : \/ NoTargetReady(o)
                                \/ \E k \in DOMAIN TargetList : PushTask(o, k)
             \/ \E s, t \in Osts : Return(s, t) \/ Lose(s, t)
             \/ UNCHANGED vars
    BY <1>2, <1>6 DEF NoTargetReady, PushTask, Return, Lose, vars, NeverInconsistent
  <1>7. CASE \/ BeginRound \/ EndRound \/ ResultsDone \/ NotDue
             \/ \E lev \in [Osts -> Levels] : UpdateFillLevels(lev)
             \/ \E loaded \in Loads : \E order \in Orders(NewSources(loaded)) :
                   ProcessInputFiles(loaded, order)
    BY <1>7 DEF BeginRound, EndRound, ResultsDone, NotDue, UpdateFillLevels,
                ProcessInputFiles, Dies, NeverInconsistent
  <1>8. QED
    BY <1>3, <1>4, <1>5, <1>6, <1>7 DEF Next, Schedule, Results, Timers, Environment

(***************************************************************************)
(* An OST in use has its task.                                             *)
(***************************************************************************)
LEMMA BlockedKept ==
    ASSUME BlockedByTasks,
           \A o \in Osts : /\ srcState'[o] \in InUse => srcState[o] \in InUse
                           /\ tgtState'[o] \in InUse => tgtState[o] \in InUse,
           \A s, t \in Osts : Outstanding(s, t) > 0 => Outstanding(s, t)' > 0
    PROVE  BlockedByTasks'
  BY DEF BlockedByTasks

LEMMA BlockedStep ==
    ASSUME KInv, [Next]_vars
    PROVE  BlockedOnlyByTasks'
  <1> SUFFICES ASSUME BlockedByTasks, ~TasksMayBeLost PROVE BlockedByTasks'
    BY DEF KInv, BlockedOnlyByTasks
  <1>1. /\ srcState \in [Osts -> States] /\ tgtState \in [Osts -> States]
        /\ pending \in [Osts -> [Osts -> Nat]] /\ returned \in [Osts -> [Osts -> Nat]]
        /\ \A s, t \in Osts : pending[s][t] \in Nat /\ returned[s][t] \in Nat
    BY OutstandingNat DEF KInv, IInv, DataTypeOK, Pairs
  <1>2. CASE \/ BeginRound \/ EndRound \/ ResultsDone \/ NotDue
             \/ \E o \in Osts : SkipSource(o) \/ NoTargetReady(o)
             \/ UNCHANGED vars
    <2>1. UNCHANGED <<srcState, tgtState, pending, returned>>
      BY <1>2 DEF BeginRound, EndRound, ResultsDone, NotDue, SkipSource, NoTargetReady,
                  Dies, vars
    <2>2. QED BY <2>1, BlockedKept DEF Outstanding
  <1>3. ASSUME NEW o \in Osts, NEW k \in DOMAIN TargetList, PushTask(o, k)
        PROVE  BlockedByTasks'
    <2>1. PICK t \in Osts : t = TargetList[k]
      BY TargetsAreOsts
    <2>2. /\ srcState' = [srcState EXCEPT ![o] = "BLOCKED"]
          /\ tgtState' = [tgtState EXCEPT ![t] = "BLOCKED"]
          /\ pending' = [pending EXCEPT ![o][t] = pending[o][t] + 1]
          /\ returned' = returned
      BY <1>3, <2>1 DEF PushTask
    <2>3. /\ pending'[o][t] = pending[o][t] + 1
          /\ \A s, u \in Osts : s # o \/ u # t => pending'[s][u] = pending[s][u]
      <3> DEFINE more == [pending EXCEPT ![o][t] = pending[o][t] + 1]
      <3>1. /\ more[o][t] = pending[o][t] + 1
            /\ \A s, u \in Osts : s # o \/ u # t => more[s][u] = pending[s][u]
        BY <1>1, ExceptAt
      <3>2. pending' = more
        BY <2>2
      <3> HIDE DEF more
      <3>3. QED BY <3>1, <3>2
    <2>4. /\ Outstanding(o, t)' > 0
          /\ \A s, u \in Osts : Outstanding(s, u) > 0 => Outstanding(s, u)' > 0
      <3>1. /\ pending'[o][t] + returned'[o][t] > 0
            /\ \A s, u \in Osts : s # o \/ u # t =>
                  pending'[s][u] + returned'[s][u] = pending[s][u] + returned[s][u]
        <4>1. \A a, b \in Nat : (a + 1) + b > 0
          OBVIOUS
        <4>2. pending[o][t] \in Nat /\ returned[o][t] \in Nat /\ returned' = returned
          BY <1>1, <2>2
        <4>3. pending'[o][t] + returned'[o][t] > 0
          BY <2>3, <4>1, <4>2, Zenon
        <4>4. QED BY <2>3, <4>2, <4>3, Zenon
      <3>2. QED BY <3>1 DEF Outstanding
    <2>5. /\ \A s \in Osts : s # o => srcState'[s] = srcState[s]
          /\ \A s \in Osts : s # t => tgtState'[s] = tgtState[s]
      BY <1>1, <2>2
    <2>6. QED BY <2>4, <2>5 DEF BlockedByTasks
  <1>4. ASSUME NEW s \in Osts, NEW t \in Osts, PopResult(s, t)
        PROVE  BlockedByTasks'
    <2>1. srcState[s] \in InUse /\ tgtState[t] \in InUse /\ returned[s][t] > 0
      <3>1. returned[s][t] > 0
        BY <1>4 DEF PopResult
      <3>2. Outstanding(s, t) > 0
        BY <1>1, <3>1 DEF Outstanding
      <3>3. QED BY <3>1, <3>2 DEF KInv, IInv, TasksBlock
    <2>2. /\ srcState' = [srcState EXCEPT ![s] = Released(srcState[s])]
          /\ tgtState' = [tgtState EXCEPT ![t] = Released(tgtState[t])]
          /\ returned' = [returned EXCEPT ![s][t] = returned[s][t] - 1]
          /\ pending' = pending
      BY <1>4, <2>1 DEF PopResult
    <2>3. \A u, v \in Osts : u # s \/ v # t => returned'[u][v] = returned[u][v]
      <3> DEFINE less == [returned EXCEPT ![s][t] = returned[s][t] - 1]
      <3>1. \A u, v \in Osts : u # s \/ v # t => less[u][v] = returned[u][v]
        BY <1>1, ExceptAt
      <3>2. returned' = less
        BY <2>2
      <3> HIDE DEF less
      <3>3. QED BY <3>1, <3>2
    <2>4. \A u, v \in Osts : u # s \/ v # t => Outstanding(u, v)' = Outstanding(u, v)
      BY <2>2, <2>3 DEF Outstanding
    <2>5. /\ \A o \in Osts : srcState'[o] \in InUse => o # s /\ srcState[o] \in InUse
          /\ \A o \in Osts : tgtState'[o] \in InUse => o # t /\ tgtState[o] \in InUse
      BY <1>1, <2>2 DEF Released, InUse
    <2>6. QED BY <2>4, <2>5 DEF BlockedByTasks
  <1>5. ASSUME NEW s \in Osts, NEW t \in Osts, Return(s, t)
        PROVE  BlockedByTasks'
    <2> DEFINE less == [pending EXCEPT ![s][t] = pending[s][t] - 1]
               more == [returned EXCEPT ![s][t] = returned[s][t] + 1]
    <2>1. /\ less[s][t] = pending[s][t] - 1
          /\ \A u, v \in Osts : u # s \/ v # t => less[u][v] = pending[u][v]
      BY <1>1, ExceptAt
    <2>1a. /\ more[s][t] = returned[s][t] + 1
           /\ \A u, v \in Osts : u # s \/ v # t => more[u][v] = returned[u][v]
      BY <1>1, ExceptAt
    <2>2. /\ pending' = less /\ returned' = more
          /\ UNCHANGED <<srcState, tgtState>>
      BY <1>5 DEF Return
    <2> HIDE DEF less, more
    <2>3. ASSUME NEW u \in Osts, NEW v \in Osts
          PROVE  Outstanding(u, v)' = Outstanding(u, v)
      <3>1. CASE u = s /\ v = t
        <4>1. pending'[s][t] + returned'[s][t] = pending[s][t] + returned[s][t]
          <5>1. \A a, b \in Nat : (a - 1) + (b + 1) = a + b
            OBVIOUS
          <5>2. pending'[s][t] = pending[s][t] - 1 /\ returned'[s][t] = returned[s][t] + 1
            BY <2>1, <2>1a, <2>2
          <5>3. pending[s][t] \in Nat /\ returned[s][t] \in Nat
            BY <1>1
          <5>4. QED BY <5>1, <5>2, <5>3, Zenon
        <4>2. QED BY <3>1, <4>1 DEF Outstanding
      <3>2. CASE u # s \/ v # t
        BY <3>2, <2>1, <2>1a, <2>2 DEF Outstanding
      <3>3. QED BY <3>1, <3>2
    <2>4. QED BY <2>2, <2>3, BlockedKept
  <1>6. CASE \E s, t \in Osts : Lose(s, t)
    BY <1>6 DEF Lose
  <1>7. ASSUME NEW lev \in [Osts -> Levels], UpdateFillLevels(lev)
        PROVE  BlockedByTasks'
    <2>1. CASE \E o \in Sources \union TargetOsts : lev[o] = NotListed
      BY <1>7, <2>1, BlockedKept DEF UpdateFillLevels, Dies, Outstanding
    <2>2. CASE ~ \E o \in Sources \union TargetOsts : lev[o] = NotListed
      <3>1. /\ srcState' = [o \in Osts |-> IF o \in Sources THEN UpdatedSource(lev, o)
                                                            ELSE "absent"]
            /\ tgtState' = [o \in Osts |-> IF o \in TargetOsts
                                           THEN UpdatedTarget(lev, o, tgtState[o])
                                           ELSE "absent"]
            /\ UNCHANGED <<pending, returned>>
        BY <1>7, <2>2 DEF UpdateFillLevels
      <3>2. \A o \in Osts :
               /\ UpdatedSource(lev, o) \in InUse => srcState[o] \in InUse
               /\ UpdatedTarget(lev, o, tgtState[o]) \in InUse => tgtState[o] \in InUse
        BY <1>1 DEF UpdatedSource, UpdatedTarget, Opened, Closed, InUse, States, OSTState
      <3>3. "absent" \notin InUse
        BY DEF InUse
      <3>4. \A o \in Osts : /\ srcState'[o] \in InUse => srcState[o] \in InUse
                            /\ tgtState'[o] \in InUse => tgtState[o] \in InUse
        BY <3>1, <3>2, <3>3
      <3>5. QED BY <3>1, <3>4, BlockedKept DEF Outstanding
    <2>3. QED BY <2>1, <2>2
  <1>8. ASSUME NEW loaded, NEW order, ProcessInputFiles(loaded, order)
        PROVE  BlockedByTasks'
    <2>1. CASE \E o \in NewSources(loaded) : level[o] = NotListed
      BY <1>8, <2>1, BlockedKept DEF ProcessInputFiles, Dies, Outstanding
    <2>2. CASE ~ \E o \in NewSources(loaded) : level[o] = NotListed
      <3>1. /\ srcState' = [o \in Osts |-> IF o \in NewSources(loaded)
                                           THEN UpdatedSource(level, o) ELSE srcState[o]]
            /\ UNCHANGED <<tgtState, pending, returned>>
        BY <1>8, <2>2 DEF ProcessInputFiles
      <3>2. \A o \in Osts : UpdatedSource(level, o) \in InUse => srcState[o] \in InUse
        BY <1>1 DEF UpdatedSource, Opened, Closed, InUse, States, OSTState
      <3>3. \A o \in Osts : srcState'[o] \in InUse => srcState[o] \in InUse
        BY <3>1, <3>2
      <3>4. QED BY <3>1, <3>3, BlockedKept DEF Outstanding
    <2>3. QED BY <2>1, <2>2
  <1>9. CASE DeallocateEmptyCaches
    <2>1. /\ \A o \in Osts : srcState'[o] \in {srcState[o], "absent"}
          /\ UNCHANGED <<tgtState, pending, returned>>
      <3> DEFINE empty == {o \in caches : files[o] = 0}
                 freed == {o \in empty : srcState[o] \in {"READY", "LOCKED"}}
      <3>1. CASE \E o \in empty : srcState[o] = "absent"
        BY <1>9, <3>1 DEF DeallocateEmptyCaches, Dies
      <3>2. CASE ~ \E o \in empty : srcState[o] = "absent"
        <4>1. /\ srcState' = [o \in Osts |-> IF o \in freed THEN "absent"
                                                            ELSE srcState[o]]
              /\ UNCHANGED <<tgtState, pending, returned>>
          BY <1>9, <3>2 DEF DeallocateEmptyCaches
        <4> HIDE DEF freed
        <4>2. QED BY <4>1
      <3>3. QED BY <3>1, <3>2
    <2>2. \A o \in Osts : srcState'[o] \in InUse => srcState[o] \in InUse
      BY <2>1 DEF InUse
    <2>3. QED BY <2>1, <2>2, BlockedKept DEF Outstanding
  <1>10. QED
    BY <1>2, <1>3, <1>4, <1>5, <1>6, <1>7, <1>8, <1>9
       DEF Next, Schedule, Results, Timers, Environment

-----------------------------------------------------------------------------
LEMMA KStep == KInv /\ [Next]_vars => KInv'
  <1> SUFFICES ASSUME KInv, [Next]_vars PROVE KInv'
    OBVIOUS
  <1>1. IInv'
    BY Step DEF KInv
  <1>2. TypeOK' /\ KeysMatch' /\ NeverInconsistent' /\ BlockedOnlyByTasks'
    BY <1>1, TypeStep, KeysStep, ConsistentStep, BlockedStep
  <1>3. QED BY <1>1, <1>2 DEF KInv

LEMMA KInvariant == Spec => []KInv
  BY InitKInv, KStep, PTL DEF Spec

(* Every variable keeps its type: the target index never passes the length *)
(* of ost_target_list, so the test for equality that resets it is never    *)
(* skipped, and no cache has a negative length.  (The source index is past *)
(* the end of its list after a deallocation: it is a natural number.)      *)
THEOREM TypesHold == Spec => []TypeOK
  <1>1. KInv => TypeOK
    BY DEF KInv
  <1>2. QED BY <1>1, KInvariant, PTL

(* run() never raises 'Inconsistency in OST state dictionaries' and looks  *)
(* no missing key up, whatever the order in which caches are filled and    *)
(* freed, results come and fill levels change.                             *)
THEOREM NeverDiesOfItsState == Spec => []NeverInconsistent
  <1>1. KInv => NeverInconsistent
    BY DEF KInv
  <1>2. QED BY <1>1, KInvariant, PTL

(* Every OST that has files is in the list the scheduler walks, once.      *)
THEOREM SchedulesEveryFile == Spec => []EveryFileScheduled
  <1>1. KInv => EveryFileScheduled
    BY DEF KInv, KeysMatch, InKeyList, NoDuplicates, EveryFileScheduled
  <1>2. QED BY <1>1, KInvariant, PTL

(* Unless tasks get lost, every OST that is out of the schedule has a task *)
(* that is still to come back and to release it.                           *)
THEOREM OnlyTasksBlock == Spec => []BlockedOnlyByTasks
  <1>1. KInv => BlockedOnlyByTasks
    BY DEF KInv
  <1>2. QED BY <1>1, KInvariant, PTL
=============================================================================
