--------------------------- MODULE PidControlProofs ---------------------------
(***************************************************************************)
(* Theorems about PidControl: as long as no two starts overlap, any number *)
(* of crashes, reused PIDs and late unlock()s leave one process at a time, *)
(* and the PID file names it.                                              *)
(***************************************************************************)
EXTENDS PidControl, TLAPS

(* A start holds the file that the path names, and nobody else is in it.   *)
OneStarts == \A p, q \in Pids : at[p] \in Starting /\ at[q] \in Starting => p = q

Opened ==
    \A p \in Pids :
       /\ fd[p] # NoFile => at[p] \in {"opened", "locked", "read", "reread"}
       /\ at[p] \in {"opened", "locked"}
          => path = fd[p] /\ path # NoFile /\ content[path] = Empty

(* The file read by lock() is that of the path unless it was removed; and  *)
(* nobody removes the one that a live process has written.                 *)
Reading ==
    \A p \in Pids :
       /\ at[p] \in {"read", "reread"} => fd[p] # NoFile
       /\ at[p] = "read" => path \in {NoFile, fd[p]}
       /\ at[p] = "reread" /\ content[fd[p]] = p => path = fd[p]

(* What lock() knows of the path while it decides.                         *)
Created == \A p \in Pids : at[p] = "create" => path = NoFile
Checked ==
    \A p \in Pids :
       at[p] \in {"check", "remove"} /\ path # NoFile
       => /\ seen[p] \in Pids /\ content[path] = seen[p]
          /\ at[p] = "remove" => at[seen[p]] \in {"none", "other"}

(* Who runs, or is about to remove the file, is the one it names.          *)
Named ==
    \A p \in Pids :
       at[p] \in {"running", "unlink"} => path # NoFile /\ content[path] = p

PInv == TypeOK /\ OneStarts /\ Opened /\ Reading /\ Created /\ Checked /\ Named

LEMMA PInvInitially == Init => PInv
  BY NamesAssumption, NoFileAssumption
     DEF Init, PInv, TypeOK, OneStarts, Opened, Reading, Created, Checked, Named,
         Starting, Ending

(* No step of a start, of unlock() or of a crash breaks it.                *)
LEMMA PInvStep ==
    ASSUME ~Overlapping
    PROVE  PInv /\ [Next]_vars => PInv'
  <1> SUFFICES ASSUME PInv, [Next]_vars PROVE PInv'
    OBVIOUS
  <1> USE NamesAssumption
      DEF PInv, TypeOK, OneStarts, Opened, Reading, Created, Checked, Named,
          Starting, Ending, Goes
  <1>1. ASSUME NEW p \in Pids, Start(p) PROVE PInv'
    BY <1>1 DEF Start
  <1>2. ASSUME NEW p \in Pids, OtherProgram(p) PROVE PInv'
    BY <1>2 DEF OtherProgram
  <1>3. ASSUME NEW p \in Pids, Crash(p) PROVE PInv'
    BY <1>3 DEF Crash
  <1>4. ASSUME NEW p \in Pids, LookForFile(p) PROVE PInv'
    BY <1>4 DEF LookForFile
  <1>16. ASSUME NEW p \in Pids, FindFile(p) PROVE PInv'
    BY <1>16 DEF FindFile
  <1>17. ASSUME NEW p \in Pids, OpenFile(p) PROVE PInv'
    BY <1>17 DEF OpenFile
  <1>5. ASSUME NEW p \in Pids, ReadPid(p) PROVE PInv'
    BY <1>5 DEF ReadPid
  <1>6. ASSUME NEW p \in Pids, CheckProcess(p) PROVE PInv'
    BY <1>6 DEF CheckProcess, Exists
  <1>7. ASSUME NEW p \in Pids, RemoveStale(p) PROVE PInv'
    BY <1>7 DEF RemoveStale
  <1>8. ASSUME NEW p \in Pids, CreateFile(p) PROVE PInv'
    BY <1>8, NoFileAssumption DEF CreateFile, InUse, Inodes
  <1>9. ASSUME NEW p \in Pids, LockFile(p) PROVE PInv'
    BY <1>9 DEF LockFile
  <1>10. ASSUME NEW p \in Pids, WritePid(p) PROVE PInv'
    BY <1>10 DEF WritePid
  <1>11. ASSUME NEW p \in Pids, EndRun(p) PROVE PInv'
    BY <1>11 DEF EndRun
  <1>12. ASSUME NEW p \in Pids, Unlock(p) PROVE PInv'
    BY <1>12 DEF Unlock
  <1>13. ASSUME NEW p \in Pids, Unlink(p) PROVE PInv'
    BY <1>13 DEF Unlink
  <1>14. CASE UNCHANGED vars
    BY <1>14 DEF vars
  <1>15. QED
    BY <1>1, <1>2, <1>3, <1>4, <1>5, <1>6, <1>7, <1>8, <1>9, <1>10, <1>11,
       <1>12, <1>13, <1>14, <1>16, <1>17 DEF Next

LEMMA PInvariant ==
    ASSUME ~Overlapping
    PROVE  Spec => []PInv
  <1>1. QED BY PInvInitially, PInvStep, PTL DEF Spec

-----------------------------------------------------------------------------
(* The PID file names the running process until that ends: a later start   *)
(* that is refused, fails or crashes, and an unlock() that comes late,     *)
(* leave it alone.                                                         *)
THEOREM RunnerKeepsItsFile ==
    ASSUME ~Overlapping
    PROVE  Spec => []FileNamesRunner
  <1>1. PInv => FileNamesRunner
    BY DEF PInv, Named, FileNamesRunner
  <1>2. QED BY <1>1, PInvariant, PTL

(* So no second process of the program runs on the same PID file.          *)
THEOREM OnlyOneRuns ==
    ASSUME ~Overlapping
    PROVE  Spec => []OnlyOne
  <1>1. PInv => OnlyOne
    BY DEF PInv, Named, OnlyOne
  <1>2. QED BY <1>1, PInvariant, PTL
=============================================================================
