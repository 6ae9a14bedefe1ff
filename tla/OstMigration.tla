---------------------------- MODULE OstMigration ----------------------------
(***************************************************************************)
(* The generator of the Lustre OST migration                               *)
(* (task/generator/lustre_ost_migration_task_generator.py): one loop that  *)
(* pairs source OSTs, which have files to move away, with target OSTs, and *)
(* pushes at most one task for each.  The rest of the system is the        *)
(* environment: it returns a pushed task's tid "source:target" sooner or   *)
(* later, in any order, or never.                                          *)
(***************************************************************************)
EXTENDS Naturals, Sequences, FiniteSets

CONSTANTS
    Osts,               \* OST indexes that input files may name
    TargetList,         \* ost_target_list, in its order
    Levels,             \* fill levels the file system may report
    NotListed,          \* the "level" of an OST the file system doesn't list
    SourceThreshold,    \* ost_fill_level_threshold_source
    TargetThreshold,    \* ost_fill_level_threshold_target
    TasksMayBeLost,     \* the system may lose a task
    MaxFiles            \* bound of the model on the files of one OST cache

TargetOsts == {TargetList[k] : k \in DOMAIN TargetList}

ASSUME TargetListAssumption ==
    /\ TargetList \in Seq(Osts)
    /\ \A j, k \in DOMAIN TargetList : TargetList[j] = TargetList[k] => j = k
ASSUME LevelsAssumption ==
    /\ NotListed \notin Nat
    /\ Levels \subseteq Nat \union {NotListed}
    /\ SourceThreshold \in Nat /\ TargetThreshold \in Nat
ASSUME OstsAssumption == IsFiniteSet(Osts)
ASSUME BoundAssumption == TasksMayBeLost \in BOOLEAN /\ MaxFiles \in Nat

VARIABLES
    pc,         \* where the loop of run() is
    level,      \* ost_fill_level_dict
    caches,     \* the keys of ost_cache_dict
    files,      \* files[o]: length of o's cache
    srcState,   \* ost_source_state_dict
    tgtState,   \* ost_target_state_dict
    keyList,    \* source_ost_key_list
    nextSrc,    \* next_source_ost_key_index
    nextTgt,    \* next_target_ost_key_index
    checked,    \* counter_checked_target_osts
    pending,    \* pending[s][t]: tasks "s:t" pushed and not yet returned
    returned    \* returned[s][t]: tids "s:t" in the result queue

schedVars == <<keyList, nextSrc, nextTgt, checked>>
ostVars   == <<level, caches, files, srcState, tgtState>>
taskVars  == <<pending, returned>>
vars == <<pc, ostVars, schedVars, taskVars>>

(* "absent" stands for a key that is not in the dictionary.                *)
OSTState == {"READY", "LOCKED", "BLOCKED", "PENDING_LOCK"}
States   == OSTState \union {"absent"}
InUse    == {"BLOCKED", "PENDING_LOCK"}

Steps == {"start", "schedule", "results", "fill", "files", "caches"}
Dead  == {"missing", "inconsistent"}    \* why an exception ended the generator

Pairs == [Osts -> [Osts -> Nat]]

TypeOK ==
    /\ pc \in Steps \union Dead
    /\ level \in [Osts -> Levels]
    /\ caches \subseteq Osts
    /\ files \in [Osts -> Nat]
    /\ srcState \in [Osts -> States]
    /\ tgtState \in [Osts -> States]
    /\ keyList \in Seq(Osts)
    /\ nextSrc \in Nat
    /\ nextTgt \in 0 .. Len(TargetList)
    /\ checked \in Nat
    /\ pending \in Pairs
    /\ returned \in Pairs

(* _update_ost_state_dict: a state after the fill level was looked at, and *)
(* after a task has finished.                                              *)
Opened(s) == CASE s = "LOCKED" -> "READY"
               [] s = "absent" -> "READY"
               [] OTHER        -> s
(* Faulty variant: a task that is under way hides the closed OST.          *)
ClosedUnlessBlocked(s) == IF s \in {"READY", "absent"} THEN "LOCKED" ELSE s

Closed(s) == CASE s = "READY"   -> "LOCKED"
               [] s = "BLOCKED" -> "PENDING_LOCK"
               [] s = "absent"  -> "LOCKED"
               [] OTHER         -> s
(* Faulty variant: an OST whose lock is pending is never released.         *)
ReleasedOrPending(s) == IF s = "BLOCKED" THEN "READY" ELSE s

Released(s) == IF s = "BLOCKED" THEN "READY" ELSE "LOCKED"

SourceLevelOK(lev, o) == lev[o] # NotListed /\ lev[o] > SourceThreshold
TargetLevelOK(lev, o) == lev[o] # NotListed /\ lev[o] < TargetThreshold

UpdatedSource(lev, o) ==
    IF SourceLevelOK(lev, o) THEN Opened(srcState[o]) ELSE Closed(srcState[o])
UpdatedTarget(lev, o, s) ==
    IF TargetLevelOK(lev, o) THEN Opened(s) ELSE Closed(s)

NoPairs == [s \in Osts |-> [t \in Osts |-> 0]]

Dies(reason) == pc' = reason /\ UNCHANGED <<ostVars, schedVars, taskVars>>

Init ==
    /\ level \in [Osts -> Levels]
    /\ caches = {} /\ files = [o \in Osts |-> 0]
    /\ srcState = [o \in Osts |-> "absent"]
    /\ tgtState = [o \in Osts |-> IF o \in TargetOsts
                                  THEN UpdatedTarget(level, o, "absent")
                                  ELSE "absent"]
    /\ keyList = << >> /\ nextSrc = 0 /\ nextTgt = 0 /\ checked = 0
    /\ pending = NoPairs /\ returned = NoPairs
    /\ pc = IF \E o \in TargetOsts : level[o] = NotListed THEN "missing" ELSE "files"

(***************************************************************************)
(* The scheduling loop.                                                    *)
(***************************************************************************)
(* Faulty variant: the source list is walked only once.                    *)
BeginRoundOnce ==
    /\ pc = "start"
    /\ pc' = "schedule"
    /\ checked' = 0
    /\ UNCHANGED <<keyList, nextSrc, nextTgt, ostVars, taskVars>>

BeginRound ==
    /\ pc = "start"
    /\ pc' = "schedule"
    /\ checked' = 0
    /\ nextSrc' = IF nextSrc >= Len(keyList) THEN 0 ELSE nextSrc
    /\ UNCHANGED <<keyList, nextTgt, ostVars, taskVars>>

RoundOver == nextSrc >= Len(keyList) \/ checked = Len(TargetList)

EndRound ==
    /\ pc = "schedule" /\ RoundOver
    /\ pc' = "results"
    /\ UNCHANGED <<ostVars, schedVars, taskVars>>

(* The next source of the key list.                                        *)
Visits(o) ==
    /\ pc = "schedule" /\ ~RoundOver
    /\ o = keyList[nextSrc + 1]

Schedulable(o) == srcState[o] = "READY" /\ o \in caches /\ files[o] > 0

(* Reading the state or the cache of a source that has none: KeyError.     *)
KeyMissing(o) == srcState[o] = "absent" \/ (srcState[o] = "READY" /\ o \notin caches)

SkipSource(o) ==
    /\ Visits(o) /\ ~Schedulable(o)
    /\ IF KeyMissing(o)
       THEN Dies("inconsistent")
       ELSE /\ nextSrc' = nextSrc + 1
            /\ UNCHANGED <<pc, keyList, nextTgt, checked, ostVars, taskVars>>

ReadyTargets ==
    {k \in nextTgt + 1 .. Len(TargetList) : tgtState[TargetList[k]] = "READY"}

(* The rest of the target list has no READY target: it starts over, for    *)
(* the next source.                                                        *)
NoTargetReady(o) ==
    /\ Visits(o) /\ Schedulable(o)
    /\ ReadyTargets = {}
    /\ nextSrc' = nextSrc + 1
    /\ nextTgt' = 0
    /\ checked' = checked + (Len(TargetList) - nextTgt)
    /\ UNCHANGED <<pc, keyList, ostVars, taskVars>>

(* Faulty variant: the target stays READY.                                 *)
PushTaskTargetReady(o, k) ==
    LET t == TargetList[k]
    IN  /\ Visits(o) /\ Schedulable(o)
        /\ k \in ReadyTargets /\ \A j \in ReadyTargets : k <= j
        /\ files' = [files EXCEPT ![o] = @ - 1]
        /\ pending' = [pending EXCEPT ![o][t] = @ + 1]
        /\ srcState' = [srcState EXCEPT ![o] = "BLOCKED"]
        /\ nextSrc' = nextSrc + 1
        /\ nextTgt' = IF k = Len(TargetList) THEN 0 ELSE k
        /\ checked' = checked + (k - nextTgt)
        /\ UNCHANGED <<pc, level, caches, keyList, tgtState, returned>>

(* Faulty variant: the target index runs over the end of the list.         *)
PushTaskNoWrap(o, k) ==
    LET t == TargetList[k]
    IN  /\ Visits(o) /\ Schedulable(o)
        /\ k \in ReadyTargets /\ \A j \in ReadyTargets : k <= j
        /\ files' = [files EXCEPT ![o] = @ - 1]
        /\ pending' = [pending EXCEPT ![o][t] = @ + 1]
        /\ srcState' = [srcState EXCEPT ![o] = "BLOCKED"]
        /\ tgtState' = [tgtState EXCEPT ![t] = "BLOCKED"]
        /\ nextSrc' = nextSrc + 1
        /\ nextTgt' = k + 1
        /\ checked' = checked + (k - nextTgt)
        /\ UNCHANGED <<pc, level, caches, keyList, returned>>

(* The first READY target from nextTgt on: push one task for the pair.     *)
PushTask(o, k) ==
    LET t == TargetList[k]
    IN  /\ Visits(o) /\ Schedulable(o)
        /\ k \in ReadyTargets /\ \A j \in ReadyTargets : k <= j
        /\ files' = [files EXCEPT ![o] = @ - 1]
        /\ pending' = [pending EXCEPT ![o][t] = @ + 1]
        /\ srcState' = [srcState EXCEPT ![o] = "BLOCKED"]
        /\ tgtState' = [tgtState EXCEPT ![t] = "BLOCKED"]
        /\ nextSrc' = nextSrc + 1
        /\ nextTgt' = IF k = Len(TargetList) THEN 0 ELSE k
        /\ checked' = checked + (k - nextTgt)
        /\ UNCHANGED <<pc, level, caches, keyList, returned>>

(***************************************************************************)
(* The results, in the order in which they come.                           *)
(***************************************************************************)
PopResult(s, t) ==
    /\ pc = "results" /\ returned[s][t] > 0
    /\ IF srcState[s] \in InUse /\ tgtState[t] \in InUse
       THEN /\ returned' = [returned EXCEPT ![s][t] = @ - 1]
            /\ srcState' = [srcState EXCEPT ![s] = Released(@)]
            /\ tgtState' = [tgtState EXCEPT ![t] = Released(@)]
            /\ UNCHANGED <<pc, level, caches, files, schedVars, pending>>
       ELSE Dies("inconsistent")

(* The result queue is, or only looks, empty.                              *)
ResultsDone ==
    /\ pc = "results"
    /\ pc' = "fill"
    /\ UNCHANGED <<ostVars, schedVars, taskVars>>

(***************************************************************************)
(* The three timers; each may be due or not.                               *)
(***************************************************************************)
NotDue ==
    /\ pc \in {"fill", "files", "caches"}
    /\ pc' = CASE pc = "fill" -> "files" [] pc = "files" -> "caches"
               [] pc = "caches" -> "start"
    /\ UNCHANGED <<ostVars, schedVars, taskVars>>

Sources == {o \in Osts : srcState[o] # "absent"}

UpdateFillLevels(lev) ==
    /\ pc = "fill"
    /\ IF \E o \in Sources \union TargetOsts : lev[o] = NotListed
       THEN Dies("missing")
       ELSE /\ pc' = "files"
            /\ level' = lev
            /\ srcState' = [o \in Osts |-> IF o \in Sources THEN UpdatedSource(lev, o)
                                                            ELSE "absent"]
            /\ tgtState' = [o \in Osts |-> IF o \in TargetOsts
                                           THEN UpdatedTarget(lev, o, tgtState[o])
                                           ELSE "absent"]
            /\ UNCHANGED <<caches, files, schedVars, taskVars>>

(* New input files with loaded[o] lines for each OST; they are renamed     *)
(* before an OST that isn't listed raises.  The new keys get the order in  *)
(* which the files named them.                                             *)
Orders(S) ==
    {order \in [1 .. Cardinality(S) -> S] : \A o \in S : \E k \in DOMAIN order : order[k] = o}

NewSources(loaded) == {o \in Osts : loaded[o] > 0} \ Sources

(* Faulty variant: new sources are not put into the key list.              *)
ProcessInputFilesUnlisted(loaded, order) ==
    LET new == NewSources(loaded)
    IN  /\ pc = "files"
        /\ order \in Orders(new)
        /\ IF \E o \in new : level[o] = NotListed
           THEN Dies("missing")
           ELSE /\ pc' = "caches"
                /\ caches' = caches \union {o \in Osts : loaded[o] > 0}
                /\ files' = [o \in Osts |-> files[o] + loaded[o]]
                /\ srcState' = [o \in Osts |-> IF o \in new THEN UpdatedSource(level, o)
                                                            ELSE srcState[o]]
                /\ UNCHANGED <<level, tgtState, schedVars, taskVars>>

ProcessInputFiles(loaded, order) ==
    LET new == NewSources(loaded)
    IN  /\ pc = "files"
        /\ order \in Orders(new)
        /\ IF \E o \in new : level[o] = NotListed
           THEN Dies("missing")
           ELSE /\ pc' = "caches"
                /\ caches' = caches \union {o \in Osts : loaded[o] > 0}
                /\ files' = [o \in Osts |-> files[o] + loaded[o]]
                /\ srcState' = [o \in Osts |-> IF o \in new THEN UpdatedSource(level, o)
                                                            ELSE srcState[o]]
                /\ keyList' = keyList \o order
                /\ UNCHANGED <<level, tgtState, nextSrc, nextTgt, checked, taskVars>>

(* The keys of the dictionary without the freed ones, in their order.      *)
Remaining(keys, freed) ==
    LET kept[n \in 0 .. Len(keys)] ==
          IF n = 0 THEN << >>
          ELSE IF keys[n] \in freed THEN kept[n - 1] ELSE Append(kept[n - 1], keys[n])
    IN  kept[Len(keys)]

(* Faulty variant: a source with a task under way is freed, too.           *)
DeallocateBlockedCaches ==
    LET freed == {o \in caches : files[o] = 0}
    IN  /\ pc = "caches"
        /\ IF \E o \in freed : srcState[o] = "absent"
           THEN Dies("inconsistent")
           ELSE /\ pc' = "start"
                /\ caches' = caches \ freed
                /\ srcState' = [o \in Osts |-> IF o \in freed THEN "absent"
                                                              ELSE srcState[o]]
                /\ keyList' = Remaining(keyList, freed)
                /\ UNCHANGED <<level, files, tgtState, nextSrc, nextTgt, checked>>
                /\ UNCHANGED taskVars

DeallocateEmptyCaches ==
    LET empty == {o \in caches : files[o] = 0}
        freed == {o \in empty : srcState[o] \in {"READY", "LOCKED"}}
    IN  /\ pc = "caches"
        /\ IF \E o \in empty : srcState[o] = "absent"
           THEN Dies("inconsistent")
           ELSE /\ pc' = "start"
                /\ caches' = caches \ freed
                /\ srcState' = [o \in Osts |-> IF o \in freed THEN "absent"
                                                              ELSE srcState[o]]
                /\ keyList' = Remaining(keyList, freed)
                /\ UNCHANGED <<level, files, tgtState, nextSrc, nextTgt, checked>>
                /\ UNCHANGED taskVars

(***************************************************************************)
(* The environment: master, controllers and workers.                       *)
(***************************************************************************)
Return(s, t) ==
    /\ pending[s][t] > 0
    /\ pending' = [pending EXCEPT ![s][t] = @ - 1]
    /\ returned' = [returned EXCEPT ![s][t] = @ + 1]
    /\ UNCHANGED <<pc, ostVars, schedVars>>

Lose(s, t) ==
    /\ TasksMayBeLost
    /\ pending[s][t] > 0
    /\ pending' = [pending EXCEPT ![s][t] = @ - 1]
    /\ UNCHANGED <<pc, ostVars, schedVars, returned>>

(* Input files are bounded for model checking.                             *)
Loads == {l \in [Osts -> 0 .. MaxFiles] : \A o \in Osts : files[o] + l[o] <= MaxFiles}

Schedule ==
    \/ BeginRound \/ EndRound
    \/ \E o \in Osts : \/ SkipSource(o) \/ NoTargetReady(o)
                       \/ \E k \in DOMAIN TargetList : PushTask(o, k)

Results == ResultsDone \/ \E s, t \in Osts : PopResult(s, t)

Timers ==
    \/ NotDue
    \/ \E lev \in [Osts -> Levels] : UpdateFillLevels(lev)
    \/ \E loaded \in Loads :
          \E order \in Orders(NewSources(loaded)) : ProcessInputFiles(loaded, order)
    \/ DeallocateEmptyCaches

Environment == \E s, t \in Osts : Return(s, t) \/ Lose(s, t)

Next == Schedule \/ Results \/ Timers \/ Environment

Spec == Init /\ [][Next]_vars

(***************************************************************************)
(* The generator keeps looping, its fill level timer keeps being due, it   *)
(* does not miss a result for ever, and a task that isn't lost comes back. *)
(***************************************************************************)
FairSpec ==
    /\ Spec
    /\ WF_vars(Schedule \/ Results \/ Timers)
    /\ SF_vars(\E lev \in [Osts -> Levels] : UpdateFillLevels(lev))
    /\ SF_vars(\E s, t \in Osts : PopResult(s, t))
    /\ WF_vars(\E s, t \in Osts : Return(s, t))

-----------------------------------------------------------------------------
Outstanding(s, t) == pending[s][t] + returned[s][t]

(* "the file migration does a 1-to-1 mapping between source to target      *)
(* OSTs": no OST is in two tasks at a time, on either side.                *)
OneToOne ==
    \A s, t \in Osts :
       Outstanding(s, t) > 0 =>
          /\ Outstanding(s, t) = 1
          /\ \A o \in Osts : /\ o # t => Outstanding(s, o) = 0
                             /\ o # s => Outstanding(o, t) = 0

(* The generator never dies of a state it has made itself: neither of the  *)
(* 'Inconsistency in OST state dictionaries' nor of a missing key.         *)
NeverInconsistent == pc # "inconsistent"

(* An OST is kept out of the schedule only while a task for it is under    *)
(* way: unless tasks get lost, none is blocked for ever.                   *)
BlockedByTasks ==
    \A o \in Osts :
       /\ srcState[o] \in InUse => \E t \in Osts : Outstanding(o, t) > 0
       /\ tgtState[o] \in InUse => \E s \in Osts : Outstanding(s, o) > 0

BlockedOnlyByTasks == TasksMayBeLost \/ BlockedByTasks

(* A task is pushed only for a source above and a target below its         *)
(* threshold, by the last fill levels, whatever happened while they were   *)
(* blocked; so no OST is migrated to itself unless the thresholds overlap. *)
RespectsThresholds ==
    [][\A s, t \in Osts :
          pending'[s][t] > pending[s][t] =>
             /\ SourceLevelOK(level, s) /\ TargetLevelOK(level, t)
             /\ TargetThreshold <= SourceThreshold => s # t]_vars

(* No input is forgotten: every OST that has files is in the key list that *)
(* the scheduler walks, and nothing is in it twice.                        *)
EveryFileScheduled ==
    pc \notin Dead =>
       /\ \A o \in Osts : files[o] > 0 => \E k \in DOMAIN keyList : keyList[k] = o
       /\ \A j, k \in DOMAIN keyList : keyList[j] = keyList[k] => j = k

(* What lets a migration come to its end: no more input and, from some     *)
(* time on, no OST blocked by a task that got lost, none that vanishes and *)
(* none outside its threshold.                                             *)
QuietInTheEnd ==
    /\ <>[][\A o \in Osts : files'[o] <= files[o]]_files
    /\ <>[](/\ BlockedByTasks
            /\ pc # "missing"
            /\ \A o \in Osts : SourceLevelOK(level, o)
            /\ \A o \in TargetOsts : TargetLevelOK(level, o))

(* Then every file that was loaded gets its task, although the source and  *)
(* the target index advance independently of each other, and although an   *)
(* OST locked on the way is unlocked only by a later fill level.           *)
CachesDrained == QuietInTheEnd => <>[](\A o \in Osts : files[o] = 0)
=============================================================================
