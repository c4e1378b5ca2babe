---------------------------- MODULE LogRotation ----------------------------
(***************************************************************************)
(* The log of ascend-docker-cli and ascend-docker-destroy (both are built  *)
(* with cli/src/logger.c).  Every container that is set up or torn down    *)
(* runs such a process; each line it logs is one call of Logger, which     *)
(* creates the log if it is missing, rotates it if it is too long and      *)
(* appends the line.  Nothing locks the two files: the calls of different  *)
(* processes interleave at every system call.                              *)
(*                                                                         *)
(* A file is an inode; "cur" and "old" are what the two names refer to.  A *)
(* process that has the log open writes to the inode it opened, whatever   *)
(* became of its name.                                                     *)
(***************************************************************************)
EXTENDS Naturals, Sequences, FiniteSets

CONSTANTS
  Procs,      \* processes that log
  Inodes,     \* inodes of the file system
  None,       \* a name that refers to no file, a process with no open file
  MaxSize,    \* FILE_MAX_SIZE, in lines
  MaxLines,   \* bound: calls of Logger per process
  MaxFaults   \* bound: calls that end early

ASSUME LogAssumption ==
  /\ IsFiniteSet(Procs)
  /\ IsFiniteSet(Inodes)
  /\ None \notin Inodes
  /\ Cardinality(Inodes) >= Cardinality(Procs) + 2
  /\ MaxSize \in Nat /\ MaxLines \in Nat /\ MaxFaults \in Nat

\* The k-th line of a process.
Line == [by : Procs, no : Nat]

VARIABLES
  pc,        \* the next system call of each process
  fd,        \* the log a process has open for appending
  cur,       \* docker-runtime-log.log
  old,       \* docker-runtime-log.log.1
  file,      \* the content of each inode
  called,    \* number of calls of Logger each process has begun
  faults,    \* number of calls that ended early
  written,   \* history: the lines written, in order
  overlap    \* history: whether two calls were ever under way at once

names   == <<cur, old>>
history == <<written, overlap>>
vars    == <<pc, fd, names, file, called, faults, history>>

\* GetLogSize, LogLoop, and LogFileProcess with WriteLogInfo.
SizeSteps == {"access", "creat", "resolve", "measure"}
LoopSteps == {"unlink", "rename", "chmod", "access again", "creat again"}
LineSteps == {"resolve again", "open", "write"}
Steps == SizeSteps \cup LoopSteps \cup LineSteps

TypeOK ==
  /\ pc \in [Procs -> {"idle"} \cup Steps]
  /\ fd \in [Procs -> Inodes \cup {None}]
  /\ cur \in Inodes \cup {None} /\ old \in Inodes \cup {None}
  /\ file \in [Inodes -> Seq(Line)]
  /\ called \in [Procs -> Nat]
  /\ faults \in Nat
  /\ written \in Seq(Line)
  /\ overlap \in BOOLEAN
  /\ \A p \in Procs : pc[p] = "write" <=> fd[p] # None

Init ==
  /\ pc = [p \in Procs |-> "idle"]
  /\ fd = [p \in Procs |-> None]
  /\ cur = None /\ old = None
  /\ file = [i \in Inodes |-> <<>>]
  /\ called = [p \in Procs |-> 0]
  /\ faults = 0
  /\ written = <<>>
  /\ overlap = FALSE

-----------------------------------------------------------------------------
Goto(p, step) == pc' = [pc EXCEPT ![p] = step]

At(p, step, next) == pc[p] = step /\ Goto(p, next)

\* The call of Logger ends without the line: no error is reported.
Return(p, step) == At(p, step, "idle")

\* Logger is called with the next line.
Call(p) ==
  /\ At(p, "idle", "access")
  /\ called[p] < MaxLines
  /\ called' = [called EXCEPT ![p] = @ + 1]
  /\ overlap' = (overlap \/ \E q \in Procs \ {p} : pc[q] # "idle")
  /\ UNCHANGED <<fd, names, file, faults, written>>

\* Mutant: the file is created without being asked for.
ExistsUnasked(p, step, creat, after) ==
  /\ At(p, step, creat)
  /\ UNCHANGED <<fd, names, file, called, faults, history>>

\* CreateLog asks whether the file exists, then creates it; it is called
\* before the log is measured and after it was renamed.
Exists(p, step, creat, after) ==
  /\ At(p, step, IF cur = None THEN creat ELSE after)
  /\ UNCHANGED <<fd, names, file, called, faults, history>>

\* Inodes no name and no process refers to.
FreeInodes == Inodes \ ({cur, old} \cup {fd[p] : p \in Procs})

\* A file by the name of the log, an empty one if there was none.
MakeCur ==
  IF cur # None
  THEN UNCHANGED <<cur, file>>
  ELSE \E i \in FreeInodes : cur' = i /\ file' = [file EXCEPT ![i] = <<>>]

\* creat(2) truncates a file that another process has made in the meantime,
\* with the lines that are in it.
Creat(p, step, after) ==
  /\ At(p, step, after)
  /\ IF cur = None
     THEN MakeCur
     ELSE file' = [file EXCEPT ![cur] = <<>>] /\ UNCHANGED cur
  /\ UNCHANGED <<fd, old, called, faults, history>>

\* realpath of the log, which fails while it is being rotated.
Resolve(p, step, after) ==
  /\ At(p, step, IF cur = None THEN "idle" ELSE after)
  /\ UNCHANGED <<fd, names, file, called, faults, history>>

\* The length of the file by the name of the log, 0 if it cannot be opened.
Length == IF cur = None THEN 0 ELSE Len(file[cur])

\* Mutant: the length of the rotated log is taken.
MeasureOld(p) ==
  /\ At(p, "measure",
        IF old # None /\ Len(file[old]) > MaxSize THEN "unlink" ELSE "resolve again")
  /\ UNCHANGED <<fd, names, file, called, faults, history>>

\* GetLogSizeProcess, and the decision of LogConvertStorage.
Measure(p) ==
  /\ At(p, "measure", IF Length > MaxSize THEN "unlink" ELSE "resolve again")
  /\ UNCHANGED <<fd, names, file, called, faults, history>>

\* LogLoop: access and unlink of the rotated log.
Unlink(p) ==
  /\ At(p, "unlink", "rename")
  /\ old' = None
  /\ UNCHANGED <<fd, cur, file, called, faults, history>>

\* Mutant: the rotated log is a second name of the log.
RenameLinks(p) ==
  /\ At(p, "rename", IF cur = None THEN "idle" ELSE "chmod")
  /\ old' = IF cur = None THEN old ELSE cur
  /\ UNCHANGED <<fd, cur, file, called, faults, history>>

\* rename(2) takes whatever is the log by now.
Rename(p) ==
  /\ At(p, "rename", IF cur = None THEN "idle" ELSE "chmod")
  /\ old' = IF cur = None THEN old ELSE cur
  /\ cur' = None
  /\ UNCHANGED <<fd, file, called, faults, history>>

\* chmod of the rotated log, which another process may have removed.
Chmod(p) ==
  /\ At(p, "chmod", IF old = None THEN "idle" ELSE "access again")
  /\ UNCHANGED <<fd, names, file, called, faults, history>>

\* Mutant: fopen with "r+" creates no file.
OpenExisting(p) ==
  /\ At(p, "open", "write")
  /\ fd' = [fd EXCEPT ![p] = cur]
  /\ UNCHANGED <<names, file, called, faults, history>>

\* fopen with "a+" creates the log if it is gone again.
Open(p) ==
  /\ At(p, "open", "write")
  /\ MakeCur
  /\ fd' = [fd EXCEPT ![p] = cur']
  /\ UNCHANGED <<old, called, faults, history>>

\* fwrite and fclose: one line, at the end of the file that was opened.
Write(p) ==
  LET line == [by |-> p, no |-> called[p]] IN
  /\ At(p, "write", "idle")
  /\ file' = [file EXCEPT ![fd[p]] = Append(@, line)]
  /\ fd' = [fd EXCEPT ![p] = None]
  /\ written' = Append(written, line)
  /\ UNCHANGED <<names, called, faults, overlap>>

\* The call ends early: a system call or a check fails, a file vanishes
\* between two looks of CheckExistsFile, the process is killed.
Fault(p) ==
  /\ pc[p] # "idle"
  /\ faults < MaxFaults
  /\ faults' = faults + 1
  /\ Goto(p, "idle")
  /\ fd' = [fd EXCEPT ![p] = None]
  /\ UNCHANGED <<names, file, called, history>>

GetLogSize(p) ==
  \/ Exists(p, "access", "creat", "resolve")
  \/ Creat(p, "creat", "resolve")
  \/ Resolve(p, "resolve", "measure")
  \/ Measure(p)

LogLoop(p) ==
  \/ Unlink(p)
  \/ Rename(p)
  \/ Chmod(p)
  \/ Exists(p, "access again", "creat again", "resolve again")
  \/ Creat(p, "creat again", "resolve again")

WriteLine(p) ==
  \/ Resolve(p, "resolve again", "open")
  \/ Open(p)
  \/ Write(p)

Next ==
  \E p \in Procs :
    Call(p) \/ GetLogSize(p) \/ LogLoop(p) \/ WriteLine(p) \/ Fault(p)

Spec == Init /\ [][Next]_vars

-----------------------------------------------------------------------------
(* Properties.                                                             *)

Content(i) == IF i = None THEN <<>> ELSE file[i]

\* What an operator reads: the rotated log, then the log.
Record == Content(old) \o Content(cur)

\* No file grows beyond the limit by more than one line per process: the
\* size check of utils.c:260 leaves log files out because "the rotation
\* protects them", and it does although nobody checks the size of the file
\* that is finally written to.
SizeBounded ==
  \A i \in Inodes : Len(file[i]) <= MaxSize + Cardinality(Procs)

\* The lines of one process stand in the record in the order they were
\* logged, none twice, however the calls of others rotate the log between
\* and under its own.
LinesInOrder ==
  \A a, b \in DOMAIN Record :
    a < b /\ Record[a].by = Record[b].by => Record[a].no < Record[b].no

IsSuffix(s, t) ==
  /\ Len(s) <= Len(t)
  /\ s = SubSeq(t, Len(t) - Len(s) + 1, Len(t))

\* As long as no two calls were ever under way at once, the record holds the
\* last lines written, with no gap, and always more than MaxSize of them if
\* there were so many: also when processes were killed between the steps of
\* a rotation.
SequentialKeepsRecent ==
  ~ overlap =>
    /\ IsSuffix(Record, written)
    /\ Len(Record) >= IF Len(written) <= MaxSize THEN Len(written) ELSE MaxSize + 1

-----------------------------------------------------------------------------
(* The inductive invariant behind SizeBounded.                             *)

\* Where a process has decided to write without measuring the log again.
Decided == {"chmod", "access again", "creat again", "resolve again", "open"}

\* The processes that may write their line to inode i as it is.
Pending(i) ==
  {p \in Procs : \/ fd[p] = i
                 \/ cur = i /\ pc[p] \in Decided}

\* While a file is over the limit no process becomes pending: one that
\* measures it goes on to a rotation, after which the file is no longer cur.
Fits(i) ==
  Len(file[i]) > MaxSize =>
    Len(file[i]) + Cardinality(Pending(i)) <= MaxSize + Cardinality(Procs)

\* Inductive: types, and room for every line that is still to come.
IInv == TypeOK /\ \A i \in Inodes : Fits(i)
=============================================================================
