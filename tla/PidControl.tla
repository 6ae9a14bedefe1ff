----------------------------- MODULE PidControl -----------------------------
(***************************************************************************)
(* ctrl/pid_control.py: the PID file that master, controller and database  *)
(* proxy take at their start.  The program is started any number of times, *)
(* crashes, and the system uses a PID again, for this program or another.  *)
(* Each access to the file system is a step; a file that was removed while *)
(* it is open lives on without a name.                                     *)
(***************************************************************************)
EXTENDS Naturals, FiniteSets

CONSTANTS
    Pids,           \* process ids
    NoFile,         \* the path names no file
    Empty,          \* the content of a file not yet written
    NoPid,          \* read_pid_from_file() without a file: -1
    Overlapping     \* a start may begin before another one has come through

ASSUME NamesAssumption == {Empty, NoPid} \intersect Pids = {} /\ Empty # NoPid
ASSUME NoFileAssumption == NoFile \notin Nat
ASSUME OverlappingAssumption == Overlapping \in BOOLEAN /\ IsFiniteSet(Pids)

(* One more than can be open at a time.                                    *)
Inodes == 0 .. Cardinality(Pids)

VARIABLES
    at,         \* at[p]: "none", "other" for another program, or where p is
    path,       \* the inode that the path of the PID file names
    content,    \* content[i]: the PID in inode i
    fd,         \* fd[p]: the inode p has open
    seen        \* seen[p]: pid_from_file

vars == <<at, path, content, fd, seen>>

Starting == {"isfile", "find", "open", "read", "check", "remove", "create",
             "opened", "locked"}
Ending == {"unlock", "reopen", "reread", "unlink"}

TypeOK ==
    /\ at \in [Pids -> Starting \union Ending \union {"none", "other", "running"}]
    /\ path \in Inodes \union {NoFile}
    /\ content \in [Inodes -> Pids \union {Empty}]
    /\ fd \in [Pids -> Inodes \union {NoFile}]
    /\ seen \in [Pids -> Pids \union {NoPid}]

Init ==
    /\ at = [p \in Pids |-> "none"]
    /\ path = NoFile
    /\ content = [i \in Inodes |-> Empty]
    /\ fd = [p \in Pids |-> NoFile]
    /\ seen = [p \in Pids |-> NoPid]

Goes(p, from, to) == at[p] = from /\ at' = [at EXCEPT ![p] = to]

Start(p) ==
    /\ Overlapping \/ \A q \in Pids : at[q] \notin Starting
    /\ Goes(p, "none", "isfile")
    /\ seen' = [seen EXCEPT ![p] = NoPid]
    /\ UNCHANGED <<path, content, fd>>

OtherProgram(p) ==
    /\ Goes(p, "none", "other") \/ Goes(p, "other", "none")
    /\ UNCHANGED <<path, content, fd, seen>>

(***************************************************************************)
(* lock().  An exception or a False leads to the end of the with block.    *)
(***************************************************************************)
LookForFile(p) ==
    /\ Goes(p, "isfile", IF path = NoFile THEN "create" ELSE "find")
    /\ UNCHANGED <<path, content, fd, seen>>

(* read_pid_from_file() looks again; unlock() calls it as well.            *)
FindFile(p) ==
    /\ \/ Goes(p, "find", IF path = NoFile THEN "check" ELSE "open")
       \/ Goes(p, "unlock", IF path = NoFile THEN "none" ELSE "reopen")
    /\ UNCHANGED <<path, content, fd, seen>>

(* A file that is gone meanwhile is an error.                              *)
OpenFile(p) ==
    /\ \/ Goes(p, "open", IF path = NoFile THEN "unlock" ELSE "read")
       \/ Goes(p, "reopen", IF path = NoFile THEN "none" ELSE "reread")
    /\ fd' = [fd EXCEPT ![p] = path]
    /\ UNCHANGED <<path, content, seen>>

(* An empty file, and a file with the own PID, are errors.                 *)
ReadPid(p) ==
    LET read == content[fd[p]] IN
    /\ Goes(p, "read", IF read \in {Empty, p} THEN "unlock" ELSE "check")
    /\ seen' = [seen EXCEPT ![p] = IF read = Empty THEN NoPid ELSE read]
    /\ fd' = [fd EXCEPT ![p] = NoFile]
    /\ UNCHANGED <<path, content>>

Exists(pid) == pid # NoPid /\ at[pid] # "none"

(* Faulty variant: the file is always taken for one of a crashed process.  *)
CheckNothing(p) ==
    /\ Goes(p, "check", "remove")
    /\ UNCHANGED <<path, content, fd, seen>>

CheckProcess(p) ==
    /\ Goes(p, "check", IF Exists(seen[p]) THEN "unlock" ELSE "remove")
    /\ UNCHANGED <<path, content, fd, seen>>

(* Removing a file that is gone is an error.                               *)
RemoveStale(p) ==
    /\ Goes(p, "remove", IF path = NoFile THEN "unlock" ELSE "create")
    /\ path' = NoFile
    /\ UNCHANGED <<content, fd, seen>>

InUse(i) == path = i \/ \E p \in Pids : fd[p] = i

(* open() for writing truncates what is there.                             *)
CreateFile(p) ==
    /\ Goes(p, "create", "opened")
    /\ \E i \in Inodes :
          /\ IF path = NoFile THEN ~InUse(i) ELSE i = path
          /\ path' = i
          /\ fd' = [fd EXCEPT ![p] = i]
          /\ content' = [content EXCEPT ![i] = Empty]
    /\ UNCHANGED seen

LockFile(p) ==
    /\ \A q \in Pids : at[q] = "locked" => fd[q] # fd[p]
    /\ Goes(p, "opened", "locked")
    /\ UNCHANGED <<path, content, fd, seen>>

(* The buffer is written when the file is closed.                          *)
WritePid(p) ==
    /\ Goes(p, "locked", "running")
    /\ content' = [content EXCEPT ![fd[p]] = p]
    /\ fd' = [fd EXCEPT ![p] = NoFile]
    /\ UNCHANGED <<path, seen>>

(***************************************************************************)
(* unlock(), at the end of the with block, however it ends.                *)
(***************************************************************************)
EndRun(p) ==
    /\ Goes(p, "running", "unlock")
    /\ UNCHANGED <<path, content, fd, seen>>

(* Faulty variant: the file is removed, whoever has written it.            *)
UnlockAnyway(p) ==
    /\ Goes(p, "reread", "unlink")
    /\ fd' = [fd EXCEPT ![p] = NoFile]
    /\ UNCHANGED <<path, content, seen>>

Unlock(p) ==
    /\ Goes(p, "reread", IF content[fd[p]] = p THEN "unlink" ELSE "none")
    /\ fd' = [fd EXCEPT ![p] = NoFile]
    /\ UNCHANGED <<path, content, seen>>

Unlink(p) ==
    /\ Goes(p, "unlink", "none")
    /\ path' = NoFile
    /\ UNCHANGED <<content, fd, seen>>

Crash(p) ==
    /\ at[p] \notin {"none", "other"}
    /\ at' = [at EXCEPT ![p] = "none"]
    /\ fd' = [fd EXCEPT ![p] = NoFile]
    /\ UNCHANGED <<path, content, seen>>

Next ==
    \E p \in Pids :
       \/ Start(p) \/ OtherProgram(p) \/ Crash(p)
       \/ LookForFile(p) \/ FindFile(p) \/ OpenFile(p) \/ ReadPid(p)
       \/ CheckProcess(p) \/ RemoveStale(p)
       \/ CreateFile(p) \/ LockFile(p) \/ WritePid(p)
       \/ EndRun(p) \/ Unlock(p) \/ Unlink(p)

Spec == Init /\ [][Next]_vars

-----------------------------------------------------------------------------
(* "Path to pid file for running just one master process" (README).        *)
OnlyOne == \A p, q \in Pids : at[p] = "running" /\ at[q] = "running" => p = q

(* The PID file names the process that runs, and stays until it ends: who  *)
(* is refused, or fails, or ends meanwhile doesn't take it away.           *)
FileNamesRunner ==
    \A p \in Pids : at[p] = "running" => path # NoFile /\ content[path] = p
=============================================================================
