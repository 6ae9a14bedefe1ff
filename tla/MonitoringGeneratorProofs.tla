---------------------- MODULE MonitoringGeneratorProofs ----------------------
(***************************************************************************)
(* Theorems about MonitoringGenerator for every set of OSTs, every         *)
(* selection, every size of the pipes and every measure interval.          *)
(***************************************************************************)
EXTENDS MonitoringGenerator, SequenceTheorems, TLAPS

(***************************************************************************)
(* The inductive invariant.  The lock: who is in its critical section      *)
(* holds it, unless the generator was killed there, so the master pops     *)
(* nothing that empty() has just seen.                                     *)
(***************************************************************************)
Critical == {"clear", "get", "check", "put"}

LockInv ==
    /\ at \in Critical => owner = "generator"
    /\ main = "locked" <=> owner = "master"
    /\ at = "get" => pipe # << >>

(***************************************************************************)
(* The refill: what fill() has still to put is not in the queue, if the    *)
(* feeder thread was not late.                                             *)
(***************************************************************************)
Queue == pipe \o buffer

Distinct(s) == \A j, k \in DOMAIN s : s[j] = s[k] => j = k

RefillInv ==
    ~late => /\ Distinct(Queue)
             /\ at # "not empty"
             /\ at = "check" => pipe = << >> /\ buffer = << >>
             /\ at = "put" => \A k \in DOMAIN Queue : Queue[k] \notin todo

(***************************************************************************)
(* The sleep: a generator that was told to end falls asleep once more at   *)
(* most, and not at all when it was asleep.                                *)
(***************************************************************************)
SleepInv ==
    /\ at = "asleep" => left > 0
    /\ at \in {"sleep", "asleep"} => slept + left <= MeasureInterval
    /\ slept <= MeasureInterval
    /\ runFlag <=> signalled = "no"
    /\ signalled # "no" => main \in {"waiting", "join", "exit", "down"}
    /\ signalled = "no" => slept = 0
    /\ signalled = "asleep" =>
          /\ ~doSleep
          /\ at \notin Critical \union {"acquire"}
          /\ at = "asleep" => slept = 0
          /\ slept <= 1
    /\ signalled = "awake" =>
          /\ at \in Critical \union {"acquire"} => slept = 0

GInv == TypeOK /\ LockInv /\ RefillInv /\ SleepInv

USE DEF genVars, queueVars, masterVars, histVars

-----------------------------------------------------------------------------
(***************************************************************************)
(* What the steps do to the queue: its pipe and its buffer as one sequence.*)
(***************************************************************************)
LEMMA Concat ==
    ASSUME NEW p \in Seq(Osts), NEW b \in Seq(Osts), NEW r, r = p \o b
    PROVE  /\ r \in Seq(Osts) /\ Len(r) = Len(p) + Len(b)
           /\ \A k \in 1 .. Len(p) + Len(b) :
                 r[k] = IF k <= Len(p) THEN p[k] ELSE b[k - Len(p)]
  BY ConcatProperties

LEMMA HeadAndTail ==
    ASSUME NEW s \in Seq(Osts), s # << >>
    PROVE  /\ << Head(s) >> \in Seq(Osts) /\ Tail(s) \in Seq(Osts)
           /\ << Head(s) >> \o Tail(s) = s
  <1>1. /\ Head(s) \in Osts /\ Tail(s) \in Seq(Osts) /\ Len(Tail(s)) = Len(s) - 1
        /\ \A k \in 1 .. Len(Tail(s)) : Tail(s)[k] = s[k + 1]
        /\ Len(s) \in Nat /\ Len(s) > 0 /\ Head(s) = s[1]
    BY HeadTailProperties, EmptySeq, LenProperties
  <1> DEFINE h == << Head(s) >>
             t == Tail(s)
             r == h \o t
  <1>2. h \in Seq(Osts) /\ Len(h) = 1 /\ h[1] = s[1]
    BY <1>1
  <1>3. t \in Seq(Osts) /\ Len(t) = Len(s) - 1 /\ \A k \in 1 .. Len(t) : t[k] = s[k + 1]
    BY <1>1
  <1> HIDE DEF h, t
  <1>4. /\ r \in Seq(Osts) /\ Len(r) = Len(h) + Len(t)
        /\ \A k \in 1 .. Len(h) + Len(t) : r[k] = IF k <= Len(h) THEN h[k] ELSE t[k - Len(h)]
    <2>1. r = h \o t
      OBVIOUS
    <2> HIDE DEF r
    <2>2. QED BY <1>2, <1>3, <2>1, Concat
  <1> HIDE DEF r
  <1>5. Len(r) = Len(s)
    BY <1>1, <1>2, <1>3, <1>4
  <1>6. ASSUME NEW k \in 1 .. Len(r) PROVE r[k] = s[k]
    <2>1. CASE k = 1
      BY <2>1, <1>1, <1>2, <1>3, <1>4
    <2>2. CASE k > 1
      <3>1. k - 1 \in 1 .. Len(t) /\ (k - 1) + 1 = k
        BY <2>2, <1>1, <1>3, <1>5
      <3>2. r[k] = t[k - 1]
        BY <2>2, <1>1, <1>2, <1>3, <1>4, <1>5
      <3>3. QED BY <3>1, <3>2, <1>3
    <2>3. QED BY <2>1, <2>2, <1>1, <1>5
  <1>7. r = s
    BY <1>4, <1>5, <1>6, SeqEqual
  <1>8. QED BY <1>2, <1>3, <1>7 DEF h, t, r

LEMMA FeedQueue ==
    ASSUME NEW p \in Seq(Osts), NEW b \in Seq(Osts), b # << >>
    PROVE  Append(p, Head(b)) \o Tail(b) = p \o b
  <1>1. Head(b) \in Osts
    BY HeadTailProperties
  <1>2. Append(p, Head(b)) = p \o << Head(b) >>
    BY <1>1, AppendIsConcat
  <1>3. QED BY <1>2, HeadAndTail, ConcatAssociative

LEMMA PopQueue ==
    ASSUME NEW p \in Seq(Osts), NEW b \in Seq(Osts), p # << >>, Distinct(p \o b)
    PROVE  /\ Distinct(Tail(p) \o b)
           /\ \A k \in DOMAIN (Tail(p) \o b) :
                 \E j \in DOMAIN (p \o b) : (Tail(p) \o b)[k] = (p \o b)[j]
  <1> DEFINE h == << Head(p) >>
             s == Tail(p) \o b
             r == p \o b
  <1>1. h \in Seq(Osts) /\ Len(h) = 1 /\ s \in Seq(Osts)
    BY HeadAndTail, ConcatProperties
  <1>2. r = h \o s /\ r \in Seq(Osts) /\ Distinct(r)
    BY HeadAndTail, ConcatAssociative, ConcatProperties
  <1> HIDE DEF h, s, r
  <1>3. /\ Len(r) = 1 + Len(s) /\ Len(s) \in Nat
        /\ \A k \in 1 .. 1 + Len(s) : r[k] = IF k <= 1 THEN h[k] ELSE s[k - 1]
    <2>1. Len(s) \in Nat
      BY <1>1, LenProperties
    <2>2. /\ Len(r) = Len(h) + Len(s)
          /\ \A k \in 1 .. Len(h) + Len(s) :
                r[k] = IF k <= Len(h) THEN h[k] ELSE s[k - Len(h)]
      <3>1. h \in Seq(Osts) /\ s \in Seq(Osts) /\ r = h \o s
        BY <1>1, <1>2
      <3>2. QED BY <3>1, Concat
    <2>3. QED BY <1>1, <2>1, <2>2
  <1>4. ASSUME NEW k \in 1 .. Len(s) PROVE k + 1 \in 1 .. Len(r) /\ r[k + 1] = s[k]
    <2>1. k + 1 \in 1 .. 1 + Len(s) /\ ~(k + 1 <= 1) /\ (k + 1) - 1 = k
      BY <1>3
    <2>2. QED BY <2>1, <1>3
  <1>5. DOMAIN s = 1 .. Len(s) /\ DOMAIN r = 1 .. Len(r)
    BY <1>1, <1>2
  <1>6. Distinct(s)
    <2>1. ASSUME NEW j \in 1 .. Len(s), NEW k \in 1 .. Len(s), s[j] = s[k]
          PROVE  j = k
      <3>1. j + 1 = k + 1
        <4>1. /\ j + 1 \in DOMAIN r /\ k + 1 \in DOMAIN r
              /\ r[j + 1] = r[k + 1]
          BY <2>1, <1>4, <1>5
        <4>2. QED BY <4>1, <1>2 DEF Distinct
      <3>2. QED BY <3>1
    <2>2. QED BY <2>1, <1>5 DEF Distinct
  <1>7. \A k \in DOMAIN s : \E j \in DOMAIN r : s[k] = r[j]
    BY <1>4, <1>5
  <1>8. QED BY <1>6, <1>7 DEF s, r

LEMMA PutQueue ==
    ASSUME NEW p \in Seq(Osts), NEW b \in Seq(Osts), NEW o \in Osts,
           Distinct(p \o b), \A k \in DOMAIN (p \o b) : (p \o b)[k] # o
    PROVE  /\ Distinct(p \o Append(b, o))
           /\ \A k \in DOMAIN (p \o Append(b, o)) :
                 \/ (p \o Append(b, o))[k] = o
                 \/ \E j \in DOMAIN (p \o b) : (p \o Append(b, o))[k] = (p \o b)[j]
  <1> DEFINE r == p \o b
             s == p \o Append(b, o)
  <1>1. r \in Seq(Osts) /\ s = Append(r, o)
    BY ConcatProperties, AppendIsConcat, ConcatAssociative
  <1>2. Distinct(r) /\ \A k \in DOMAIN r : r[k] # o
    OBVIOUS
  <1> HIDE DEF s, r
  <1>3. /\ s \in Seq(Osts) /\ Len(s) = Len(r) + 1 /\ Len(r) \in Nat
        /\ s[Len(r) + 1] = o /\ \A k \in 1 .. Len(r) : s[k] = r[k]
    BY <1>1, AppendProperties
  <1>4. DOMAIN s = 1 .. Len(s) /\ DOMAIN r = 1 .. Len(r)
    BY <1>1, <1>3
  <1>5. \A k \in 1 .. Len(s) : k \in 1 .. Len(r) \/ k = Len(r) + 1
    BY <1>3
  <1>6. Distinct(s)
    BY <1>2, <1>3, <1>4, <1>5 DEF Distinct
  <1>7. \A k \in DOMAIN s : s[k] = o \/ \E j \in DOMAIN r : s[k] = r[j]
    BY <1>3, <1>4, <1>5
  <1>8. QED BY <1>6, <1>7 DEF s, r

LEMMA DropBuffer ==
    ASSUME NEW p \in Seq(Osts), NEW b \in Seq(Osts), Distinct(p \o b)
    PROVE  Distinct(p \o << >>)
  <1> DEFINE r == p \o b
  <1>1. p \o << >> = p
    BY ConcatEmptySeq
  <1>2. /\ r \in Seq(Osts) /\ Len(r) = Len(p) + Len(b)
        /\ Len(p) \in Nat /\ Len(b) \in Nat
        /\ \A k \in 1 .. Len(r) : r[k] = IF k <= Len(p) THEN p[k] ELSE b[k - Len(p)]
    BY ConcatProperties, LenProperties
  <1>3. Distinct(r)
    OBVIOUS
  <1> HIDE DEF r
  <1>4. \A k \in 1 .. Len(p) : k \in DOMAIN r /\ r[k] = p[k]
    BY <1>2
  <1>5. DOMAIN p = 1 .. Len(p)
    OBVIOUS
  <1>6. QED BY <1>1, <1>3, <1>4, <1>5 DEF Distinct

LEMMA EmptyQueue == << >> \o << >> = << >> /\ Distinct(<< >>) /\ DOMAIN << >> = {}
  BY ConcatEmptySeq, EmptySeq DEF Distinct

-----------------------------------------------------------------------------
LEMMA InitGInv == Init => GInv
  <1> SUFFICES ASSUME Init PROVE GInv
    OBVIOUS
  <1>1. TypeOK
    <2>1. << >> \in Seq(Osts) /\ Len(<< >>) = 0
      BY EmptySeq
    <2>2. PipeSize \in Nat /\ ResultPipeSize \in Nat /\ MeasureInterval \in Nat /\ Waits \in Nat
      BY SizesAssumption
    <2>3. /\ runFlag \in BOOLEAN /\ doSleep \in BOOLEAN
          /\ distribution \in BOOLEAN /\ late \in BOOLEAN
      BY Zenon DEF Init
    <2>4. QED BY <2>1, <2>2, <2>3 DEF Init, TypeOK
  <1>2. LockInv /\ SleepInv
    BY NobodyAssumption, SizesAssumption DEF Init, LockInv, SleepInv, Critical
  <1>3. RefillInv
    BY EmptyQueue DEF Init, RefillInv, Queue
  <1>4. QED BY <1>1, <1>2, <1>3 DEF GInv

(* The actions by what they touch.                                         *)
MasterStep ==
    \/ LockQueue \/ PopTask \/ SeeQueueEmpty \/ (\E o \in Osts : FinishTask(o))
    \/ StopDistribution \/ WaitForGenerator \/ Join \/ Exit

LEMMA NextSteps ==
    ASSUME [Next]_vars
    PROVE  \/ Generator \/ Feed \/ KillGenerator \/ LeaveLoop \/ MasterStep
           \/ UNCHANGED vars
  BY DEF Next, Serve, Stop, MasterStep

LEMMA QueueTypeStep ==
    ASSUME GInv, [Next]_vars
    PROVE  buffer' \in Seq(Osts) /\ pipe' \in Seq(Osts) /\ Len(pipe') <= PipeSize
  <1>1. /\ buffer \in Seq(Osts) /\ pipe \in Seq(Osts) /\ Len(pipe) <= PipeSize
        /\ PipeSize \in Nat /\ Len(pipe) \in Nat /\ << >> \in Seq(Osts)
    BY SizesAssumption, LenProperties, EmptySeq DEF GInv, TypeOK
  <1>2. CASE ClearGet \/ PopTask
    <2>1. pipe # << >> /\ pipe' = Tail(pipe) /\ buffer' = buffer
      BY <1>2 DEF ClearGet, Stays, PopTask, Unlocks, MasterOnly
    <2>2. Tail(pipe) \in Seq(Osts) /\ Len(Tail(pipe)) = Len(pipe) - 1
      BY <1>1, <2>1, HeadTailProperties
    <2>3. QED BY <1>1, <2>1, <2>2
  <1>3. ASSUME NEW o \in Osts, Put(o)
        PROVE  buffer' \in Seq(Osts) /\ pipe' \in Seq(Osts) /\ Len(pipe') <= PipeSize
    <2>1. buffer' = Append(buffer, o) /\ pipe' = pipe
      BY <1>3 DEF Put
    <2>2. Append(buffer, o) \in Seq(Osts)
      BY <1>1, AppendProperties
    <2>3. QED BY <1>1, <2>1, <2>2
  <1>4. CASE Feed
    <2>1. /\ buffer # << >> /\ Len(pipe) < PipeSize
          /\ pipe' = Append(pipe, Head(buffer)) /\ buffer' = Tail(buffer)
      BY <1>4 DEF Feed
    <2>2. Head(buffer) \in Osts /\ Tail(buffer) \in Seq(Osts)
      BY <1>1, <2>1, HeadTailProperties
    <2>3. pipe' \in Seq(Osts) /\ Len(pipe') = Len(pipe) + 1
      BY <1>1, <2>1, <2>2, AppendProperties
    <2>4. QED BY <1>1, <2>1, <2>2, <2>3
  <1>5. CASE Generator /\ ~ClearGet /\ ~ \E o \in Osts : Put(o)
    <2>1. pipe' = pipe /\ buffer' \in {buffer, << >>}
      BY <1>5
         DEF Generator, Goes, Ends, Stays, Finish, CreateTasks, Acquire, ClearMore,
             ClearDone, FillFails, FillBegins, BeginSleep, SleepSecond, SleepEnds
    <2>2. QED BY <1>1, <2>1
  <1>6. CASE KillGenerator \/ LeaveLoop \/ (MasterStep /\ ~PopTask) \/ UNCHANGED vars
    <2>1. pipe' = pipe /\ buffer' \in {buffer, << >>}
      BY <1>6
         DEF KillGenerator, LeaveLoop, MasterStep, LockQueue, SeeQueueEmpty, Unlocks,
             MasterOnly, FinishTask, StopDistribution, WaitForGenerator, Join, Exit, vars
    <2>2. QED BY <1>1, <2>1
  <1>7. QED BY <1>2, <1>3, <1>4, <1>5, <1>6, NextSteps

LEMMA FlagTypeStep ==
    ASSUME GInv, [Next]_vars
    PROVE  /\ runFlag' \in BOOLEAN /\ doSleep' \in BOOLEAN
           /\ distribution' \in BOOLEAN /\ late' \in BOOLEAN
  <1>1. /\ runFlag \in BOOLEAN /\ doSleep \in BOOLEAN
        /\ distribution \in BOOLEAN /\ late \in BOOLEAN
    BY DEF GInv, TypeOK
  <1>2. CASE BeginSleep
    <2>1. doSleep' \in BOOLEAN /\ UNCHANGED <<runFlag, late, distribution>>
      BY <1>2 DEF BeginSleep, Goes
    <2>2. QED BY <1>1, <2>1, Zenon
  <1>3. CASE ClearDone
    <2>1. late' = (buffer # << >>) /\ UNCHANGED <<runFlag, doSleep, distribution>>
      BY <1>3 DEF ClearDone, Goes, Stays
    <2>2. QED BY <1>1, <2>1, Zenon
  <1>4. CASE Generator /\ ~BeginSleep /\ ~ClearDone
    <2>1. UNCHANGED <<runFlag, doSleep, late, distribution>>
      BY <1>4
         DEF Generator, Goes, Ends, Stays, Finish, CreateTasks, Acquire, ClearMore,
             ClearGet, FillFails, FillBegins, Put, SleepSecond, SleepEnds
    <2>2. QED BY <1>1, <2>1, Zenon
  <1>5. CASE LeaveLoop
    <2>1. UNCHANGED <<late, distribution>>
      BY <1>5 DEF LeaveLoop
    <2>2. runFlag' \in {FALSE, runFlag} /\ doSleep' \in {FALSE, doSleep}
      BY <1>5, Zenon DEF LeaveLoop, HandleTerminate
    <2>3. QED BY <1>1, <2>1, <2>2, Zenon
  <1>6. CASE SeeQueueEmpty \/ StopDistribution
    <2>1. UNCHANGED <<runFlag, doSleep, late>>
      BY <1>6 DEF SeeQueueEmpty, StopDistribution, Unlocks, MasterOnly
    <2>2. distribution' \in BOOLEAN
      BY <1>6, Zenon DEF SeeQueueEmpty, StopDistribution
    <2>3. QED BY <1>1, <2>1, <2>2, Zenon
  <1>7. CASE \/ Feed \/ KillGenerator \/ UNCHANGED vars
             \/ MasterStep /\ ~SeeQueueEmpty /\ ~StopDistribution
    <2>1. UNCHANGED <<runFlag, doSleep, late, distribution>>
      BY <1>7
         DEF Feed, KillGenerator, vars, MasterStep, LockQueue, PopTask, Unlocks,
             MasterOnly, FinishTask, WaitForGenerator, Join, Exit
    <2>2. QED BY <1>1, <2>1, Zenon
  <1>8. QED BY <1>2, <1>3, <1>4, <1>5, <1>6, <1>7, NextSteps

LEMMA TypeStep ==
    ASSUME GInv, [Next]_vars
    PROVE  TypeOK'
  <1> DEFINE
        GenTypes == /\ at \in {"top", "acquire", "clear", "get", "check", "put", "sleep",
                               "asleep"} \union Ended
                    /\ selected \in Selections /\ todo \subseteq Osts
                    /\ left \in 0 .. MeasureInterval
        OtherTypes == /\ owner \in {Nobody, "generator", "master"}
                      /\ signalled \in {"no", "awake", "asleep"} /\ slept \in Nat
        MasterTypes == /\ main \in {"loop", "locked", "waiting", "join", "exit", "down"}
                       /\ waits \in 0 .. Waits
                       /\ assigned \subseteq Osts /\ unread \in 0 .. ResultPipeSize + 1
  <1> USE DEF Ended
  <1>1. GenTypes /\ OtherTypes /\ MasterTypes
    BY DEF GInv, TypeOK
  <1>2. /\ MeasureInterval \in Nat /\ Waits \in Nat /\ ResultPipeSize \in Nat
    BY SizesAssumption
  <1>2a. /\ left \in 0 .. MeasureInterval /\ slept \in Nat
         /\ waits \in 0 .. Waits /\ unread \in 0 .. ResultPipeSize + 1
    BY <1>1
  <1>3. SUFFICES GenTypes' /\ OtherTypes' /\ MasterTypes'
    BY QueueTypeStep, FlagTypeStep DEF TypeOK
  <1>4. CASE Generator
    <2> USE DEF Goes, Stays, Ends
    <2>1. UNCHANGED masterVars /\ owner' \in {owner, "generator", Nobody}
          /\ UNCHANGED <<selected, signalled>>
      BY <1>4
         DEF Generator, Finish, CreateTasks, Acquire, ClearMore, ClearGet,
             ClearDone, FillFails, FillBegins, Put, BeginSleep, SleepSecond, SleepEnds
    <2>2. CASE \/ Finish \/ Acquire \/ ClearMore \/ ClearGet \/ ClearDone
               \/ FillFails \/ FillBegins \/ \E o \in Osts : Put(o)
      <3>1. at' \in {"clear", "get", "check", "put"} \union Ended
        BY <2>2
           DEF Finish, Acquire, ClearMore, ClearGet, ClearDone, FillFails, FillBegins, Put
      <3>2. UNCHANGED <<left, slept>> /\ todo' \subseteq todo
        BY <2>2
           DEF Finish, Acquire, ClearMore, ClearGet, ClearDone, FillFails, FillBegins, Put
      <3>3. QED BY <1>1, <2>1, <3>1, <3>2
    <2>3. ASSUME NEW available \in SUBSET Osts, CreateTasks(available)
          PROVE  GenTypes' /\ OtherTypes' /\ MasterTypes'
      <3>1. IndexSet(available) \subseteq Osts
        BY <1>1, SelectionsAssumption DEF IndexSet
      <3>2. /\ at' \in {"acquire", "failed"} /\ UNCHANGED <<left, slept>>
            /\ todo' \in {todo, IndexSet(available)}
        BY <2>3 DEF CreateTasks
      <3>3. QED BY <1>1, <2>1, <3>1, <3>2
    <2>4. CASE BeginSleep \/ SleepEnds
      <3>1. /\ at' \in {"sleep", "top"} /\ left' \in {0, MeasureInterval}
            /\ UNCHANGED <<todo, slept>>
        BY <2>4 DEF BeginSleep, SleepEnds
      <3>2. left' \in 0 .. MeasureInterval
        BY <1>2, <3>1
      <3>3. QED BY <1>1, <2>1, <3>1, <3>2
    <2>5. CASE SleepSecond
      <3>1. at = "asleep" => left > 0
        BY DEF GInv, SleepInv
      <3>2. /\ at' \in {"sleep", "asleep"} /\ UNCHANGED todo
            /\ \/ left' = left
               \/ left' = left - 1 /\ at = "asleep"
            /\ slept' \in {0, slept, slept + 1}
        BY <2>5 DEF SleepSecond
      <3>3. left' \in 0 .. MeasureInterval /\ slept' \in Nat
        BY <1>2, <1>2a, <3>1, <3>2
      <3>4. QED BY <1>1, <2>1, <3>2, <3>3
    <2>6. QED BY <1>4, <2>2, <2>3, <2>4, <2>5 DEF Generator
  <1>5. CASE Feed \/ KillGenerator \/ UNCHANGED vars
    <2>1. /\ at' \in {at, "killed"}
          /\ UNCHANGED <<selected, todo, left, owner, masterVars, signalled, slept>>
      BY <1>5 DEF Feed, KillGenerator, vars
    <2>2. QED BY <1>1, <2>1
  <1>6. CASE LeaveLoop
    <2>1. /\ main' \in {"waiting", "exit"} /\ signalled' \in {signalled, "awake", "asleep"}
          /\ UNCHANGED <<at, selected, todo, left, owner, waits, assigned, unread, slept>>
      BY <1>6 DEF LeaveLoop, HandleTerminate
    <2>2. QED BY <1>1, <2>1
  <1>7. CASE MasterStep
    <2>1. UNCHANGED <<genVars, histVars>> /\ owner' \in {owner, "master", Nobody}
          /\ main' \in {main, "loop", "locked", "join", "exit", "down"}
      BY <1>7
         DEF MasterStep, LockQueue, PopTask, SeeQueueEmpty, Unlocks, MasterOnly, FinishTask,
             StopDistribution, WaitForGenerator, Join, Exit
    <2>2. CASE PopTask
      <3>1. Head(pipe) \in Osts
        BY <2>2, HeadTailProperties DEF PopTask, GInv, TypeOK
      <3>2. assigned' = assigned \union {Head(pipe)} /\ UNCHANGED <<waits, unread>>
        BY <2>2 DEF PopTask, Unlocks, MasterOnly
      <3>3. QED BY <1>1, <2>1, <3>1, <3>2
    <2>3. ASSUME NEW o \in Osts, FinishTask(o)
          PROVE  GenTypes' /\ OtherTypes' /\ MasterTypes'
      <3>1. /\ assigned' = assigned \ {o} /\ waits' = waits
            /\ unread' = IF unread > ResultPipeSize THEN unread ELSE unread + 1
        BY <2>3 DEF FinishTask, MasterOnly
      <3>2. unread' \in 0 .. ResultPipeSize + 1
        BY <1>2, <1>2a, <3>1
      <3>3. QED BY <1>1, <2>1, <3>1, <3>2
    <2>4. CASE WaitForGenerator
      <3>1. /\ waits' = waits \/ (waits' = waits - 1 /\ waits > 0)
            /\ UNCHANGED <<assigned, unread>>
        BY <2>4 DEF WaitForGenerator
      <3>2. waits' \in 0 .. Waits
        BY <1>2, <1>2a, <3>1
      <3>3. QED BY <1>1, <2>1, <3>1, <3>2
    <2>5. CASE LockQueue \/ SeeQueueEmpty \/ StopDistribution \/ Join \/ Exit
      <3>1. UNCHANGED <<waits, assigned, unread>>
        BY <2>5 DEF LockQueue, SeeQueueEmpty, StopDistribution, Join, Exit, Unlocks, MasterOnly
      <3>2. QED BY <1>1, <2>1, <3>1
    <2>6. QED BY <1>7, <2>2, <2>3, <2>4, <2>5 DEF MasterStep
  <1>8. QED BY <1>4, <1>5, <1>6, <1>7, NextSteps

(* The lock, and what keeps get() from waiting.                            *)
LEMMA LockStep ==
    ASSUME GInv, [Next]_vars
    PROVE  LockInv'
  <1> USE NobodyAssumption DEF LockInv, Critical
  <1>1. LockInv /\ pipe \in Seq(Osts)
    BY DEF GInv, TypeOK
  <1>2. CASE Generator
    BY <1>1, <1>2
       DEF Generator, Goes, Ends, Stays, Finish, CreateTasks, Acquire, ClearMore, ClearGet,
           ClearDone, FillFails, FillBegins, Put, BeginSleep, SleepSecond, SleepEnds
  <1>3. CASE Feed
    <2>1. Append(pipe, Head(buffer)) # << >>
      <3>1. buffer \in Seq(Osts) /\ buffer # << >>
        BY <1>3 DEF Feed, GInv, TypeOK
      <3>2. Head(buffer) \in Osts
        BY <3>1, HeadTailProperties
      <3>3. QED BY <1>1, <3>2, AppendProperties, EmptySeq
    <2>2. QED BY <1>1, <1>3, <2>1 DEF Feed
  <1>4. CASE KillGenerator \/ LeaveLoop
    BY <1>1, <1>4 DEF KillGenerator, LeaveLoop
  <1>5. CASE MasterStep
    BY <1>1, <1>5
       DEF MasterStep, LockQueue, PopTask, SeeQueueEmpty, Unlocks, MasterOnly, FinishTask,
           StopDistribution, WaitForGenerator, Join, Exit
  <1>6. CASE UNCHANGED vars
    BY <1>1, <1>6 DEF vars
  <1>7. QED BY <1>2, <1>3, <1>4, <1>5, <1>6, NextSteps

(***************************************************************************)
(* The refill.                                                             *)
(***************************************************************************)
LEMMA QueueKept ==
    ASSUME RefillInv, Queue' = Queue, UNCHANGED <<late, todo>>,
           ~late => /\ at' # "not empty"
                    /\ at' = "check" => pipe' = << >> /\ buffer' = << >>
                    /\ at' = "put" => at = "put"
    PROVE  RefillInv'
  BY DEF RefillInv

LEMMA BufferDropped ==
    ASSUME GInv, UNCHANGED <<late, pipe>>, buffer' = << >>,
           at' \in {"finished", "failed", "killed"}
    PROVE  RefillInv'
  <1>1. ~late => Distinct(pipe \o << >>)
    BY DropBuffer DEF GInv, RefillInv, Queue, TypeOK
  <1>2. Queue' = pipe \o << >>
    BY DEF Queue
  <1>3. QED BY <1>1, <1>2 DEF RefillInv

LEMMA ItemTaken ==
    ASSUME GInv, UNCHANGED <<late, todo, buffer>>, pipe # << >>, pipe' = Tail(pipe),
           at' = "clear" \/ UNCHANGED at
    PROVE  RefillInv'
  <1> SUFFICES ASSUME ~late PROVE RefillInv'
    BY DEF RefillInv
  <1>1. pipe \in Seq(Osts) /\ buffer \in Seq(Osts) /\ Distinct(pipe \o buffer)
    BY DEF GInv, RefillInv, Queue, TypeOK
  <1>2. /\ Distinct(Tail(pipe) \o buffer)
        /\ \A k \in DOMAIN (Tail(pipe) \o buffer) :
              \E j \in DOMAIN (pipe \o buffer) : (Tail(pipe) \o buffer)[k] = (pipe \o buffer)[j]
    BY <1>1, PopQueue
  <1>3. Queue' = Tail(pipe) \o buffer /\ Queue = pipe \o buffer
    BY DEF Queue
  <1>4. Distinct(Queue) /\ at # "not empty" /\ at # "check"
    BY DEF GInv, RefillInv
  <1>5. at = "put" => \A k \in DOMAIN Queue : Queue[k] \notin todo
    BY DEF GInv, RefillInv
  <1>6. at = "put" => \A k \in DOMAIN Queue' : Queue'[k] \notin todo
    BY <1>2, <1>3, <1>5
  <1>7. Distinct(Queue')
    BY <1>2, <1>3
  <1>8. QED BY <1>4, <1>6, <1>7 DEF RefillInv

LEMMA RefillStep ==
    ASSUME GInv, [Next]_vars
    PROVE  RefillInv'
  <1>1. RefillInv /\ LockInv /\ pipe \in Seq(Osts) /\ buffer \in Seq(Osts)
    BY DEF GInv, TypeOK
  <1>2. CASE Generator
    <2>1. CASE Acquire \/ ClearMore \/ BeginSleep \/ SleepSecond \/ SleepEnds
      <3>1. Queue' = Queue /\ UNCHANGED <<late, todo>>
        BY <2>1 DEF Acquire, ClearMore, BeginSleep, SleepSecond, SleepEnds, Stays, Queue
      <3>2. at' \notin {"not empty", "check", "put"}
        BY <2>1 DEF Acquire, ClearMore, BeginSleep, SleepSecond, SleepEnds, Goes
      <3>3. QED BY <1>1, <3>1, <3>2, QueueKept
    <2>2. CASE Finish
      BY <2>2, BufferDropped DEF Finish, Ends, Goes
    <2>3. ASSUME NEW available \in SUBSET Osts, CreateTasks(available)
          PROVE  RefillInv'
      <3>1. CASE SelectionFound(available)
        BY <1>1, <2>3, <3>1 DEF CreateTasks, Goes, Stays, RefillInv, Queue
      <3>2. CASE ~SelectionFound(available)
        BY <2>3, <3>2, BufferDropped DEF CreateTasks, Ends, Goes
      <3>3. QED BY <3>1, <3>2
    <2>4. CASE ClearGet
      BY <2>4, ItemTaken DEF ClearGet, Goes, Stays
    <2>5. CASE ClearDone
      <3>1. /\ pipe' = << >> /\ at' = "check" /\ late' = (buffer # << >>)
            /\ buffer' = buffer
        BY <2>5 DEF ClearDone, Goes
      <3>2. buffer = << >> => Queue' = << >>
        BY <3>1, EmptyQueue DEF Queue
      <3>3. QED BY <3>1, <3>2, EmptyQueue DEF RefillInv
    <2>6. CASE FillFails
      <3>1. late /\ late' = late
        BY <1>1, <2>6 DEF FillFails, Ends, Goes, RefillInv
      <3>2. QED BY <3>1 DEF RefillInv
    <2>7. CASE FillBegins
      <3>1. at = "check" /\ at' = "put" /\ UNCHANGED <<pipe, buffer, late>>
        BY <2>7 DEF FillBegins, Goes
      <3>2. ~late => Queue' = << >>
        BY <1>1, <3>1, EmptyQueue DEF RefillInv, Queue
      <3>3. QED BY <3>1, <3>2, EmptyQueue DEF RefillInv
    <2>8. ASSUME NEW o \in Osts, Put(o) PROVE RefillInv'
      <3> SUFFICES ASSUME ~late PROVE RefillInv'
        BY <2>8 DEF Put, RefillInv
      <3>1. /\ at = "put" /\ at' = "put" /\ o \in todo /\ todo' = todo \ {o}
            /\ pipe' = pipe /\ buffer' = Append(buffer, o)
        BY <2>8 DEF Put, Goes
      <3>2. /\ Distinct(pipe \o buffer)
            /\ \A k \in DOMAIN (pipe \o buffer) : (pipe \o buffer)[k] \notin todo
        BY <1>1, <3>1 DEF RefillInv, Queue
      <3>3. /\ Distinct(pipe \o Append(buffer, o))
            /\ \A k \in DOMAIN (pipe \o Append(buffer, o)) :
                  \/ (pipe \o Append(buffer, o))[k] = o
                  \/ \E j \in DOMAIN (pipe \o buffer) :
                        (pipe \o Append(buffer, o))[k] = (pipe \o buffer)[j]
        <4>1. \A k \in DOMAIN (pipe \o buffer) : (pipe \o buffer)[k] # o
          BY <3>1, <3>2
        <4>2. QED BY <1>1, <3>2, <4>1, PutQueue
      <3>4. Queue' = pipe \o Append(buffer, o)
        BY <3>1 DEF Queue
      <3> DEFINE r == pipe \o Append(buffer, o)
      <3>5. \A k \in DOMAIN r : r[k] \notin todo'
        BY <3>1, <3>2, <3>3
      <3>6. Distinct(r) /\ Queue' = r
        BY <3>3, <3>4
      <3> HIDE DEF r
      <3>7. QED BY <3>1, <3>5, <3>6 DEF RefillInv
    <2>9. QED
      BY <1>2, <2>1, <2>2, <2>3, <2>4, <2>5, <2>6, <2>7, <2>8 DEF Generator
  <1>3. CASE Feed
    <2>1. Queue' = Queue
      BY <1>1, <1>3, FeedQueue DEF Feed, Queue
    <2>2. /\ UNCHANGED <<late, todo, at>> /\ buffer # << >>
      BY <1>3 DEF Feed
    <2>3. QED BY <1>1, <2>1, <2>2, QueueKept DEF RefillInv
  <1>4. CASE KillGenerator
    BY <1>4, BufferDropped DEF KillGenerator
  <1>5. CASE LeaveLoop \/ UNCHANGED vars
    <2>1. Queue' = Queue /\ UNCHANGED <<late, todo, at, pipe, buffer>>
      BY <1>5 DEF LeaveLoop, vars, Queue
    <2>2. QED BY <1>1, <2>1, QueueKept DEF RefillInv
  <1>6. CASE PopTask
    BY <1>6, ItemTaken DEF PopTask, Unlocks, MasterOnly
  <1>7. CASE MasterStep /\ ~PopTask
    <2>1. Queue' = Queue /\ UNCHANGED <<late, todo, at, pipe, buffer>>
      BY <1>7
         DEF MasterStep, LockQueue, SeeQueueEmpty, Unlocks, MasterOnly, FinishTask,
             StopDistribution, WaitForGenerator, Join, Exit, Queue
    <2>2. QED BY <1>1, <2>1, QueueKept DEF RefillInv
  <1>8. QED BY <1>2, <1>3, <1>4, <1>5, <1>6, <1>7, NextSteps

(***************************************************************************)
(* The sleep.                                                              *)
(***************************************************************************)
LEMMA SleepStep ==
    ASSUME GInv, [Next]_vars
    PROVE  SleepInv'
  <1> USE SizesAssumption DEF Critical
  <1>1. /\ SleepInv /\ slept \in Nat /\ left \in 0 .. MeasureInterval
        /\ signalled \in {"no", "awake", "asleep"}
        /\ runFlag \in BOOLEAN /\ doSleep \in BOOLEAN
    BY DEF GInv, TypeOK
  <1>2. CASE Generator
    <2> USE DEF Goes, Stays, Ends
    <2>1. CASE Finish \/ FillFails
      <3>1. /\ UNCHANGED <<left, runFlag, doSleep, signalled, slept, main>>
            /\ at' \in {"finished", "not empty"}
        BY <2>1 DEF Finish, FillFails
      <3>2. QED BY <1>1, <3>1 DEF SleepInv
    <2>1a. ASSUME NEW available \in SUBSET Osts, CreateTasks(available)
           PROVE  SleepInv'
      <3>1. /\ UNCHANGED <<left, runFlag, doSleep, signalled, slept, main>>
            /\ at' \in {"acquire", "failed"}
            /\ runFlag
        BY <2>1a DEF CreateTasks
      <3>2. signalled = "no"
        BY <1>1, <3>1 DEF SleepInv
      <3>3. QED BY <1>1, <3>1, <3>2 DEF SleepInv
    <2>2. CASE Acquire \/ ClearMore \/ ClearGet \/ ClearDone \/ FillBegins
               \/ \E o \in Osts : Put(o)
      BY <1>1, <2>2 DEF SleepInv, Acquire, ClearMore, ClearGet, ClearDone, FillBegins, Put
    <2>3. CASE BeginSleep
      BY <1>1, <2>3 DEF SleepInv, BeginSleep, Interruptable
    <2>4. CASE SleepSecond
      BY <1>1, <2>4 DEF SleepInv, SleepSecond, Interruptable
    <2>5. CASE SleepEnds
      BY <1>1, <2>5 DEF SleepInv, SleepEnds, Interruptable
    <2>6. QED BY <1>2, <2>1, <2>1a, <2>2, <2>3, <2>4, <2>5 DEF Generator
  <1>3. CASE Feed \/ KillGenerator
    BY <1>1, <1>3 DEF SleepInv, Feed, KillGenerator, IsAlive
  <1>4. CASE LeaveLoop
    <2>1. main = "loop" /\ UNCHANGED <<at, left, slept>>
      BY <1>4 DEF LeaveLoop
    <2>2. signalled = "no" /\ slept = 0
      BY <1>1, <2>1 DEF SleepInv
    <2>3. CASE IsAlive
      <3>1. /\ main' = "waiting" /\ ~runFlag' /\ ~doSleep'
            /\ signalled' = IF at \in {"sleep", "asleep"} THEN "asleep" ELSE "awake"
        BY <1>4, <2>3 DEF LeaveLoop, HandleTerminate
      <3>2. QED BY <1>1, <2>1, <2>2, <3>1 DEF SleepInv
    <2>4. CASE ~IsAlive
      <3>1. main' = "exit" /\ UNCHANGED <<runFlag, doSleep, signalled>>
        BY <1>4, <2>4 DEF LeaveLoop
      <3>2. QED BY <1>1, <2>1, <2>2, <3>1 DEF SleepInv
    <2>5. QED BY <2>3, <2>4
  <1>5. CASE MasterStep
    <2>1. /\ UNCHANGED <<at, left, runFlag, doSleep, signalled, slept>>
          /\ main \in {"waiting", "join", "exit", "down"} =>
                main' \in {"waiting", "join", "exit", "down"}
      BY <1>5
         DEF MasterStep, LockQueue, PopTask, SeeQueueEmpty, Unlocks, MasterOnly, FinishTask,
             StopDistribution, WaitForGenerator, Join, Exit
    <2>2. QED BY <1>1, <2>1 DEF SleepInv
  <1>6. CASE UNCHANGED vars
    BY <1>1, <1>6 DEF SleepInv, vars
  <1>7. QED BY <1>2, <1>3, <1>4, <1>5, <1>6, NextSteps

LEMMA GInvariant == Spec => []GInv
  <1>1. GInv /\ [Next]_vars => GInv'
    BY TypeStep, LockStep, RefillStep, SleepStep DEF GInv
  <1>2. QED BY <1>1, InitGInv, PTL DEF Spec

-----------------------------------------------------------------------------
(* The get() of clear() finds an item whenever empty() has seen one,       *)
(* although master and feeder thread work on the queue at the same time.   *)
THEOREM ClearingNeverBlocks == Spec => []ClearNeverBlocks
  <1>1. GInv => ClearNeverBlocks
    BY DEF GInv, LockInv, ClearNeverBlocks
  <1>2. QED BY <1>1, GInvariant, PTL

(* After a refill that met no late feeder thread no OST is queued twice,   *)
(* and fill() finds the queue empty.                                       *)
THEOREM RefillsCleanly == Spec => []CleanRefill
  <1>1. GInv => CleanRefill
    BY DEF GInv, RefillInv, CleanRefill, Queue, Distinct
  <1>2. QED BY <1>1, GInvariant, PTL

(* Told to end in its sleep, the generator sleeps one second more at most; *)
(* told so awake, one measure interval at most.                            *)
THEOREM SleepIsInterrupted == Spec => []SleepsNoLonger
  <1>1. GInv => SleepsNoLonger
    BY SizesAssumption DEF GInv, TypeOK, SleepInv, SleepsNoLonger
  <1>2. QED BY <1>1, GInvariant, PTL
=============================================================================
