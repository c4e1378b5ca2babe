------------------------- MODULE LogRotationProofs -------------------------
(***************************************************************************)
(* SizeBounded, LinesInOrder and SequentialKeepsRecent for every number of *)
(* processes, lines and inodes.                                            *)
(*                                                                         *)
(* Size: a file below the limit may be measured by everybody, so that all  *)
(* of them write to it later; a file over the limit only loses pending     *)
(* processes, and a line moves one from "pending" to "in the file".  The   *)
(* sum of the two is what IInv bounds.  Order: OrderInv.  No gaps: SeqInv. *)
(***************************************************************************)
EXTENDS LogRotation, FiniteSetTheorems, TLAPS

\* Sets of processes are finite, a smaller one has fewer members.
LEMMA ProcSets ==
  ASSUME NEW S \in SUBSET Procs, NEW R \in SUBSET S
  PROVE  Cardinality(R) \in Nat /\ Cardinality(S) \in Nat /\ Cardinality(R) <= Cardinality(S)
<1>1. IsFiniteSet(S)
  BY LogAssumption, FS_Subset
<1> QED BY <1>1, FS_Subset, FS_CardinalityType

LEMMA PendingProcs == \A i : Pending(i) \in SUBSET Procs
BY DEF Pending

\* A file that has not grown and has no new pending process fits, and so
\* does one below the limit.
LEMMA NoGrowth ==
  ASSUME TypeOK, TypeOK', NEW i \in Inodes, Fits(i),
         \/ Len(file'[i]) <= MaxSize
         \/ Len(file'[i]) <= Len(file[i]) /\ Pending(i)' \subseteq Pending(i)
  PROVE  Fits(i)'
<1>1. Len(file[i]) \in Nat /\ Len(file'[i]) \in Nat /\ MaxSize \in Nat
  BY LogAssumption DEF TypeOK
<1>2. CASE Len(file'[i]) <= MaxSize
  BY <1>1, <1>2 DEF Fits
<1>3. CASE Len(file'[i]) <= Len(file[i]) /\ Pending(i)' \subseteq Pending(i)
  <2>1. /\ Cardinality(Pending(i)') \in Nat /\ Cardinality(Pending(i)) \in Nat
        /\ Cardinality(Pending(i)') <= Cardinality(Pending(i))
    BY <1>3, ProcSets, PendingProcs
  <2>2. Cardinality(Procs) \in Nat
    BY ProcSets
  <2>3. Cardinality(Pending(i))' = Cardinality(Pending(i)')
    OBVIOUS
  <2> QED BY <1>1, <1>3, <2>1, <2>2, <2>3 DEF Fits
<1> QED BY <1>2, <1>3

\* The initial states satisfy the inductive invariant: every file is empty.
THEOREM InitIInv == Init => IInv
<1> SUFFICES ASSUME Init PROVE IInv
  OBVIOUS
<1>1. TypeOK
  <2>1. pc \in [Procs -> {"idle"} \cup Steps]
    BY DEF Init
  <2>2. fd \in [Procs -> Inodes \cup {None}] /\ cur \in Inodes \cup {None} /\ old \in Inodes \cup {None}
    BY DEF Init
  <2>3. file \in [Inodes -> Seq(Line)]
    BY DEF Init
  <2>4. called \in [Procs -> Nat] /\ faults \in Nat
    BY DEF Init
  <2>5. written \in Seq(Line)
    BY DEF Init
  <2>6. overlap \in BOOLEAN
    BY DEF Init
  <2>7. \A p \in Procs : pc[p] = "write" <=> fd[p] # None
    BY DEF Init
  <2> QED BY <2>1, <2>2, <2>3, <2>4, <2>5, <2>6, <2>7 DEF TypeOK
<1>2. ASSUME NEW i \in Inodes PROVE Fits(i)
  BY LogAssumption DEF Init, Fits
<1> QED BY <1>1, <1>2 DEF IInv

\* After MakeCur the log exists, and its content is a sequence of lines.
LEMMA MakeCurType ==
  ASSUME TypeOK, MakeCur
  PROVE  cur' \in Inodes /\ file' \in [Inodes -> Seq(Line)]
<1>1. CASE cur # None
  BY <1>1 DEF TypeOK, MakeCur
<1>2. CASE cur = None
  <2>1. PICK i \in Inodes : cur' = i /\ file' = [file EXCEPT ![i] = <<>>]
    BY <1>2 DEF MakeCur, FreeInodes
  <2>2. <<>> \in Seq(Line)
    OBVIOUS
  <2> QED BY <2>1, <2>2 DEF TypeOK
<1> QED BY <1>1, <1>2

\* A process that does not open or close the log goes on to any other step.
LEMMA MoveType ==
  ASSUME TypeOK, NEW p \in Procs, NEW step \in {"idle"} \cup Steps, step # "write",
         pc[p] # "write", pc' = [pc EXCEPT ![p] = step], UNCHANGED fd
  PROVE  /\ pc' \in [Procs -> {"idle"} \cup Steps]
         /\ fd' \in [Procs -> Inodes \cup {None}]
         /\ \A q \in Procs : pc'[q] = "write" <=> fd'[q] # None
BY DEF TypeOK

\* Creat leaves the types as they are, wherever it stands.
LEMMA CreatType ==
  ASSUME TypeOK, NEW p \in Procs, NEW step \in Steps, step # "write",
         NEW after \in Steps, after # "write", Creat(p, step, after)
  PROVE  TypeOK'
<1>1. /\ cur' \in Inodes /\ file' \in [Inodes -> Seq(Line)]
  <2>1. CASE cur = None
    BY <2>1, MakeCurType DEF Creat
  <2>2. CASE cur # None
    <3>1. <<>> \in Seq(Line)
      OBVIOUS
    <3> QED BY <2>2, <3>1 DEF Creat, TypeOK
  <2> QED BY <2>1, <2>2
<1>2. /\ pc' \in [Procs -> {"idle"} \cup Steps]
      /\ fd' \in [Procs -> Inodes \cup {None}]
      /\ \A q \in Procs : pc'[q] = "write" <=> fd'[q] # None
  BY MoveType DEF Creat, At, Goto
<1>3. UNCHANGED <<old, called, faults, written, overlap>>
  BY DEF Creat, history
<1> QED BY <1>1, <1>2, <1>3 DEF TypeOK

\* Every step keeps the variables in their types.
LEMMA StepTypeOK ==
  ASSUME TypeOK, NEW p \in Procs,
         Call(p) \/ GetLogSize(p) \/ LogLoop(p) \/ WriteLine(p) \/ Fault(p)
  PROVE  TypeOK'
<1> USE DEF TypeOK, At, Goto, Steps, SizeSteps, LoopSteps, LineSteps, names, history
<1>1. CASE Call(p)
  <2>1. called' \in [Procs -> Nat]
    <3>1. called \in [Procs -> Nat] /\ called' = [called EXCEPT ![p] = @ + 1]
      BY <1>1, Zenon DEF Call
    <3> QED BY ONLY <3>1
  <2>2. overlap' \in BOOLEAN
    <3>1. overlap' = (overlap \/ \E q \in Procs \ {p} : pc[q] # "idle")
      BY <1>1 DEF Call
    <3>2. (overlap \/ \E q \in Procs \ {p} : pc[q] # "idle") \in BOOLEAN
      OBVIOUS
    <3> QED BY ONLY <3>1, <3>2
  <2>3. /\ pc' \in [Procs -> {"idle"} \cup Steps]
        /\ fd' \in [Procs -> Inodes \cup {None}]
        /\ \A q \in Procs : pc'[q] = "write" <=> fd'[q] # None
    BY <1>1, MoveType DEF Call
  <2>4. UNCHANGED <<cur, old, file, faults, written>>
    BY <1>1 DEF Call
  <2> QED BY <2>1, <2>2, <2>3, <2>4
<1>2. CASE GetLogSize(p)
  <2>1. CASE Exists(p, "access", "creat", "resolve")
    BY <2>1 DEF Exists
  <2>2. CASE Creat(p, "creat", "resolve")
    BY <2>2, CreatType
  <2>3. CASE Resolve(p, "resolve", "measure")
    BY <2>3 DEF Resolve
  <2>4. CASE Measure(p)
    BY <2>4 DEF Measure
  <2> QED BY <1>2, <2>1, <2>2, <2>3, <2>4 DEF GetLogSize
<1>3. CASE LogLoop(p)
  <2>1. CASE Unlink(p)
    BY <2>1 DEF Unlink
  <2>2. CASE Rename(p)
    BY <2>2 DEF Rename
  <2>3. CASE Chmod(p)
    BY <2>3 DEF Chmod
  <2>4. CASE Exists(p, "access again", "creat again", "resolve again")
    BY <2>4 DEF Exists
  <2>5. CASE Creat(p, "creat again", "resolve again")
    BY <2>5, CreatType
  <2> QED BY <1>3, <2>1, <2>2, <2>3, <2>4, <2>5 DEF LogLoop
<1>4. CASE WriteLine(p)
  <2>1. CASE Resolve(p, "resolve again", "open")
    BY <2>1 DEF Resolve
  <2>2. CASE Open(p)
    <3>1. cur' \in Inodes /\ file' \in [Inodes -> Seq(Line)]
      BY <2>2, MakeCurType DEF Open
    <3>2. fd' = [fd EXCEPT ![p] = cur'] /\ pc' = [pc EXCEPT ![p] = "write"]
      BY <2>2 DEF Open
    <3>3. \A q \in Procs : pc'[q] = "write" <=> fd'[q] # None
      BY <3>1, <3>2, LogAssumption
    <3>4. UNCHANGED <<old, called, faults, written, overlap>>
      BY <2>2 DEF Open
    <3> QED BY <3>1, <3>2, <3>3, <3>4
  <2>3. CASE Write(p)
    <3> DEFINE line == [by |-> p, no |-> called[p]]
    <3>1. line \in Line
      BY DEF Line
    <3>2. fd[p] \in Inodes
      BY <2>3 DEF Write
    <3>3. file' = [file EXCEPT ![fd[p]] = Append(@, line)] /\ written' = Append(written, line)
      BY <2>3 DEF Write
    <3> HIDE DEF line
    <3>4. Append(file[fd[p]], line) \in Seq(Line) /\ Append(written, line) \in Seq(Line)
      <4>1. file[fd[p]] \in Seq(Line) /\ written \in Seq(Line)
        BY <3>2
      <4> QED BY ONLY <4>1, <3>1
    <3>5. file' \in [Inodes -> Seq(Line)] /\ written' \in Seq(Line)
      BY <3>2, <3>3, <3>4
    <3>6. fd' = [fd EXCEPT ![p] = None] /\ pc' = [pc EXCEPT ![p] = "idle"]
      BY <2>3 DEF Write
    <3>7. UNCHANGED <<cur, old, called, faults, overlap>>
      BY <2>3 DEF Write
    <3>9. \A q \in Procs : pc'[q] = "write" <=> fd'[q] # None
      BY <3>6
    <3> QED BY <3>5, <3>6, <3>7, <3>9
  <2> QED BY <1>4, <2>1, <2>2, <2>3 DEF WriteLine
<1>5. CASE Fault(p)
  <2>1. faults' \in Nat
    <3>1. faults \in Nat /\ faults' = faults + 1
      BY <1>5, Zenon DEF Fault
    <3> QED BY ONLY <3>1
  <2>2. fd' = [fd EXCEPT ![p] = None] /\ pc' = [pc EXCEPT ![p] = "idle"]
    BY <1>5 DEF Fault
  <2>3. UNCHANGED <<cur, old, file, called, written, overlap>>
    BY <1>5 DEF Fault
  <2>4. \A q \in Procs : pc'[q] = "write" <=> fd'[q] # None
    BY <2>2
  <2> QED BY <2>1, <2>2, <2>3, <2>4
<1> QED BY <1>1, <1>2, <1>3, <1>4, <1>5

\* Every step leaves each file with room for the lines still to come: a line
\* written takes a pending process away, and nothing else makes a file grow.
LEMMA StepFits ==
  ASSUME IInv, TypeOK', NEW p \in Procs, NEW i \in Inodes,
         Call(p) \/ GetLogSize(p) \/ LogLoop(p) \/ WriteLine(p) \/ Fault(p)
  PROVE  Fits(i)'
<1> DEFINE Still == file'[i] = file[i] /\ Pending(i)' \subseteq Pending(i)
<1> USE DEF At, Goto, names, history
<1>1. TypeOK /\ Fits(i)
  BY DEF IInv
<1>2. MaxSize \in Nat /\ Len(file[i]) \in Nat /\ Len(file'[i]) \in Nat
  BY <1>1, LogAssumption DEF TypeOK
<1>3. ASSUME Still PROVE Fits(i)'
  BY <1>1, <1>2, <1>3, NoGrowth
<1>4. ASSUME file'[i] = <<>> PROVE Fits(i)'
  <2>1. Len(file'[i]) <= MaxSize
    BY <1>2, <1>4
  <2> QED BY <1>1, <2>1, NoGrowth
<1>5. CASE Call(p)
  <2>1. Still
    BY <1>1, <1>5 DEF Call, Pending, Decided, TypeOK
  <2> QED BY <1>3, <2>1
<1>6. ASSUME NEW step, NEW creat, NEW after, Exists(p, step, creat, after),
             after \in Decided \/ creat \in Decided => step \in Decided
      PROVE  Fits(i)'
  <2>1. Still
    BY <1>1, <1>6 DEF Exists, Pending, Decided, TypeOK
  <2> QED BY <1>3, <2>1
<1>7. ASSUME NEW step, NEW after, Creat(p, step, after), after \in Decided => step \in Decided
      PROVE  Fits(i)'
  <2>1. CASE cur # None
    <3>1. CASE i = cur
      BY <1>1, <1>4, <1>7, <2>1, <3>1 DEF Creat, TypeOK
    <3>2. CASE i # cur
      <4>1. Still
        BY <1>1, <1>7, <2>1, <3>2 DEF Creat, Pending, Decided, TypeOK
      <4> QED BY <1>3, <4>1
    <3> QED BY <3>1, <3>2
  <2>2. CASE cur = None
    <3>1. PICK j \in FreeInodes : cur' = j /\ file' = [file EXCEPT ![j] = <<>>]
      BY <1>7, <2>2 DEF Creat, MakeCur
    <3>2. CASE i = j
      BY <1>1, <1>4, <3>1, <3>2 DEF TypeOK
    <3>3. CASE i # j
      <4>1. Still
        BY <1>1, <1>7, <3>1, <3>3 DEF Creat, Pending, TypeOK
      <4> QED BY <1>3, <4>1
    <3> QED BY <3>2, <3>3
  <2> QED BY <2>1, <2>2
<1>8. ASSUME NEW step, NEW after, Resolve(p, step, after), after \in Decided => step \in Decided
      PROVE  Fits(i)'
  <2>1. Still
    BY <1>1, <1>8 DEF Resolve, Pending, Decided, TypeOK
  <2> QED BY <1>3, <2>1
<1>9. CASE Measure(p)
  <2>1. file' = file
    BY <1>9 DEF Measure
  <2>2. CASE Len(file[i]) <= MaxSize
    <3>1. Len(file'[i]) <= MaxSize
      BY <2>1, <2>2
    <3> QED BY <1>1, <3>1, NoGrowth
  <2>3. CASE Len(file[i]) > MaxSize
    <3>1. Still
      BY <1>1, <1>2, <1>9, <2>1, <2>3, LogAssumption DEF Measure, Length, Pending, Decided, TypeOK
    <3> QED BY <1>3, <3>1
  <2> QED BY <1>2, <2>2, <2>3
<1>10. CASE Unlink(p) \/ Chmod(p)
  <2>1. Still
    BY <1>1, <1>10 DEF Unlink, Chmod, Pending, Decided, TypeOK
  <2> QED BY <1>3, <2>1
<1>11. CASE Rename(p)
  <2>1. Still
    BY <1>1, <1>11, LogAssumption DEF Rename, Pending, Decided, TypeOK
  <2> QED BY <1>3, <2>1
<1>12. CASE Open(p)
  <2>1. CASE cur # None
    <3>1. Still
      BY <1>1, <1>12, <2>1 DEF Open, MakeCur, Pending, Decided, TypeOK
    <3> QED BY <1>3, <3>1
  <2>2. CASE cur = None
    <3>1. PICK j \in FreeInodes : cur' = j /\ file' = [file EXCEPT ![j] = <<>>]
      BY <1>12, <2>2 DEF Open, MakeCur
    <3>2. CASE i = j
      BY <1>1, <1>4, <3>1, <3>2 DEF TypeOK
    <3>3. CASE i # j
      <4>1. Still
        BY <1>1, <1>12, <3>1, <3>3 DEF Open, Pending, TypeOK
      <4> QED BY <1>3, <4>1
    <3> QED BY <3>2, <3>3
  <2> QED BY <2>1, <2>2
<1>13. CASE Write(p)
  <2>1. Pending(i)' \subseteq Pending(i) \ {p}
    BY <1>1, <1>13, LogAssumption DEF Write, Pending, Decided, TypeOK
  <2>2. CASE i # fd[p]
    <3>1. Still
      BY <1>1, <1>13, <2>1, <2>2 DEF Write, TypeOK
    <3> QED BY <1>3, <3>1
  <2>3. CASE i = fd[p]
    <3>1. p \in Pending(i)
      BY <2>3 DEF Pending
    <3>2. Len(file'[i]) = Len(file[i]) + 1
      <4>1. file'[i] = Append(file[i], [by |-> p, no |-> called[p]])
        BY <1>1, <1>13, <2>3 DEF Write, TypeOK
      <4>2. file[i] \in Seq(Line) /\ [by |-> p, no |-> called[p]] \in Line
        BY <1>1 DEF TypeOK, Line
      <4> QED BY <4>1, <4>2
    <3>3. IsFiniteSet(Procs) /\ IsFiniteSet(Pending(i))
      BY LogAssumption, PendingProcs, FS_Subset
    <3>4. /\ Cardinality(Pending(i) \ {p}) = Cardinality(Pending(i)) - 1
          /\ Cardinality(Procs \ {p}) = Cardinality(Procs) - 1
      BY <3>1, <3>3, FS_RemoveElement
    <3>5. /\ Cardinality(Pending(i)') \in Nat
          /\ Cardinality(Pending(i)') <= Cardinality(Pending(i) \ {p})
      <4>1. Pending(i) \ {p} \in SUBSET Procs
        BY PendingProcs
      <4> QED BY <2>1, <4>1, ProcSets
    <3>6. Cardinality(Pending(i)') <= Cardinality(Procs \ {p})
      <4>1. Pending(i)' \subseteq Procs \ {p}
        BY <2>1, PendingProcs
      <4> QED BY <4>1, ProcSets
    <3>7. Cardinality(Procs) \in Nat /\ Cardinality(Pending(i)) \in Nat
      BY PendingProcs, ProcSets
    <3>8. Cardinality(Pending(i))' = Cardinality(Pending(i)')
      OBVIOUS
    <3> HIDE DEF At, Goto, names, history
    <3> QED BY <1>1, <1>2, <3>2, <3>4, <3>5, <3>6, <3>7, <3>8 DEF Fits
  <2> QED BY <2>2, <2>3
<1>14. CASE Fault(p)
  <2>1. Still
    BY <1>1, <1>14, LogAssumption DEF Fault, Pending, Decided, TypeOK
  <2> QED BY <1>3, <2>1
<1>15. CASE GetLogSize(p)
  BY <1>6, <1>7, <1>8, <1>9, <1>15 DEF GetLogSize, Decided
<1>16. CASE LogLoop(p)
  BY <1>6, <1>7, <1>10, <1>11, <1>16 DEF LogLoop, Decided
<1>17. CASE WriteLine(p)
  BY <1>8, <1>12, <1>13, <1>17 DEF WriteLine, Decided
<1> QED BY <1>5, <1>14, <1>15, <1>16, <1>17

\* IInv is an invariant for every number of processes, inodes and lines.
THEOREM LogInvariance == Spec => []IInv
<1>1. IInv /\ [Next]_vars => IInv'
  <2> SUFFICES ASSUME IInv, [Next]_vars PROVE IInv'
    OBVIOUS
  <2>1. CASE Next
    <3>1. PICK p \in Procs : Call(p) \/ GetLogSize(p) \/ LogLoop(p) \/ WriteLine(p) \/ Fault(p)
      BY <2>1 DEF Next
    <3>2. TypeOK'
      BY <3>1, StepTypeOK DEF IInv
    <3>3. ASSUME NEW i \in Inodes PROVE Fits(i)'
      BY <3>1, <3>2, StepFits
    <3> QED BY <3>2, <3>3 DEF IInv
  <2>2. CASE UNCHANGED vars
    BY <2>2 DEF vars, names, history, IInv, TypeOK, Fits, Pending
  <2> QED BY <2>1, <2>2
<1> QED BY InitIInv, <1>1, PTL DEF Spec

\* The variables of the logger have their types.
THEOREM LogTypeCorrect == Spec => []TypeOK
<1>1. IInv => TypeOK
  BY DEF IInv
<1> QED BY <1>1, LogInvariance, PTL

\* No log file is ever longer than the limit by more than one line of each
\* process, as utils.c:260 takes for granted of LogLoop: for any number of
\* processes whose calls interleave at every system call and end anywhere.
THEOREM FilesBounded == Spec => []SizeBounded
<1>1. IInv => SizeBounded
  <2> SUFFICES ASSUME IInv, NEW i \in Inodes
               PROVE  Len(file[i]) <= MaxSize + Cardinality(Procs)
    BY DEF SizeBounded
  <2>1. Len(file[i]) \in Nat /\ MaxSize \in Nat
    BY LogAssumption DEF IInv, TypeOK
  <2>2. Cardinality(Procs) \in Nat /\ Cardinality(Pending(i)) \in Nat
    BY PendingProcs, ProcSets
  <2> QED BY <2>1, <2>2 DEF IInv, Fits
<1> QED BY <1>1, LogInvariance, PTL

-----------------------------------------------------------------------------
(* LinesInOrder.  A line on its way is younger than all lines of its       *)
(* process; and if it goes to a file that is no longer the log, the log    *)
(* has no line of this process yet.                                        *)

Earlier(k, l) == k.by = l.by => k.no < l.no

InOrder(s) == \A a, b \in DOMAIN s : a < b => Earlier(s[a], s[b])

\* The lines of a file that are by process p come before its next one.
Past(i) ==
  \A a \in DOMAIN file[i], p \in Procs : file[i][a].by = p =>
    file[i][a].no <= called[p] /\ (pc[p] # "idle" => file[i][a].no < called[p])

\* The rotated log is the older file, also for the lines still to come.
OldFirst ==
  cur # None =>
    /\ cur # old
    /\ old # None => \A a \in DOMAIN file[old], b \in DOMAIN file[cur] :
                       Earlier(file[old][a], file[cur][b])
    /\ \A p \in Procs : fd[p] \notin {None, cur} =>
         \A b \in DOMAIN file[cur] : file[cur][b].by # p

OrderInv == OldFirst /\ \A i \in Inodes : InOrder(file[i]) /\ Past(i)

\* What a step does that writes no line: files are emptied or left alone, a
\* process that is called has the next number, and the log stays, goes, or is
\* made anew and empty.
Moves ==
  /\ \A i \in Inodes : file'[i] = file[i] \/ file'[i] = <<>>
  /\ \A q \in Procs : \/ called'[q] = called[q] /\ (pc[q] = "idle" => pc'[q] = "idle")
                      \/ called'[q] = called[q] + 1
  /\ \/ cur' = None
     \/ cur' = cur /\ old' \in {old, None} /\ \A q \in Procs : fd'[q] \in {fd[q], None, cur}
     \/ cur' \in Inodes /\ cur' # old' /\ file'[cur'] = <<>>

LEMMA MakeCurMoves ==
  ASSUME TypeOK, MakeCur, old' = old
  PROVE  /\ \A i \in Inodes : file'[i] = file[i] \/ file'[i] = <<>>
         /\ \/ cur # None /\ cur' = cur
            \/ cur' \in Inodes /\ cur' # old' /\ file'[cur'] = <<>>
<1>1. CASE cur # None
  BY <1>1 DEF MakeCur
<1>2. CASE cur = None
  <2>1. PICK i \in FreeInodes : cur' = i /\ file' = [file EXCEPT ![i] = <<>>]
    BY <1>2 DEF MakeCur
  <2> QED BY <2>1 DEF FreeInodes, TypeOK
<1> QED BY <1>1, <1>2

LEMMA StepMoves ==
  ASSUME TypeOK, NEW p \in Procs, Call(p) \/ GetLogSize(p) \/ LogLoop(p) \/ WriteLine(p) \/ Fault(p)
  PROVE  Moves \/ Write(p)
<1> USE DEF At, Goto, names, history
<1>1. CASE Call(p)
  BY <1>1 DEF Call, Moves, TypeOK
<1>2. ASSUME NEW step, NEW creat, NEW after, step # "idle", Exists(p, step, creat, after)
      PROVE  Moves
  BY <1>2 DEF Exists, Moves, TypeOK
<1>3. ASSUME NEW step, NEW after, step # "idle", Creat(p, step, after)
      PROVE  Moves
  <2>1. /\ \A q \in Procs : called'[q] = called[q] /\ (pc[q] = "idle" => pc'[q] = "idle")
        /\ UNCHANGED <<old, fd>>
    BY <1>3 DEF Creat, TypeOK
  <2>2. CASE cur = None
    <3>1. MakeCur
      BY <1>3, <2>2 DEF Creat
    <3> QED BY <2>1, <2>2, <3>1, MakeCurMoves DEF Moves
  <2>3. CASE cur # None
    BY <1>3, <2>1, <2>3 DEF Creat, Moves, TypeOK
  <2> QED BY <2>2, <2>3
<1>4. ASSUME NEW step, NEW after, step # "idle", Resolve(p, step, after)
      PROVE  Moves
  BY <1>4 DEF Resolve, Moves, TypeOK
<1>5. CASE Measure(p)
  BY <1>5 DEF Measure, Moves, TypeOK
<1>6. CASE Unlink(p) \/ Chmod(p)
  BY <1>6 DEF Unlink, Chmod, Moves, TypeOK
<1>7. CASE Rename(p)
  BY <1>7 DEF Rename, Moves, TypeOK
<1>8. CASE Open(p)
  <2>1. /\ \A q \in Procs : called'[q] = called[q] /\ (pc[q] = "idle" => pc'[q] = "idle")
        /\ old' = old /\ MakeCur /\ \A q \in Procs : fd'[q] \in {fd[q], cur'}
    BY <1>8 DEF Open, TypeOK
  <2> QED BY <2>1, MakeCurMoves DEF Moves
<1>9. CASE Fault(p)
  BY <1>9 DEF Fault, Moves, TypeOK
<1>10. CASE GetLogSize(p)
  BY <1>2, <1>3, <1>4, <1>5, <1>10 DEF GetLogSize
<1>11. CASE LogLoop(p)
  BY <1>2, <1>3, <1>6, <1>7, <1>11 DEF LogLoop
<1>12. CASE WriteLine(p)
  BY <1>4, <1>8, <1>12 DEF WriteLine
<1> QED BY <1>1, <1>9, <1>10, <1>11, <1>12

LEMMA MovesKeepOrder ==
  ASSUME TypeOK, TypeOK', OrderInv, Moves
  PROVE  OrderInv'
<1>1. \A i \in Inodes : file'[i] = file[i] \/ DOMAIN file'[i] = {}
  BY DEF Moves
<1>2. ASSUME NEW i \in Inodes PROVE InOrder(file[i])'
  BY <1>1 DEF OrderInv, InOrder
<1>3. ASSUME NEW i \in Inodes PROVE Past(i)'
  <2> SUFFICES ASSUME NEW a \in DOMAIN file'[i], NEW q \in Procs, file'[i][a].by = q
               PROVE  file'[i][a].no <= called'[q] /\ (pc'[q] # "idle" => file'[i][a].no < called'[q])
    BY DEF Past
  <2>1. file'[i] = file[i] /\ a \in DOMAIN file[i] /\ file[i][a] \in Line
    BY <1>1 DEF TypeOK
  <2>2. /\ file[i][a].no <= called[q] /\ (pc[q] # "idle" => file[i][a].no < called[q])
        /\ file[i][a].no \in Nat /\ called[q] \in Nat
    BY <2>1 DEF OrderInv, Past, Line, TypeOK
  <2>3. \/ called'[q] = called[q] /\ (pc[q] = "idle" => pc'[q] = "idle")
        \/ called'[q] = called[q] + 1
    BY DEF Moves
  <2> QED BY <2>1, <2>2, <2>3
<1>4. OldFirst'
  <2>1. CASE cur' = None
    BY <2>1 DEF OldFirst
  <2>2. CASE cur' # None /\ cur' = cur /\ old' \in {old, None} /\ \A q \in Procs : fd'[q] \in {fd[q], None, cur}
    <3>1. cur \in Inodes /\ old \in Inodes \cup {None} /\ OldFirst
      BY <2>2 DEF OrderInv, TypeOK
    <3>2. cur' # old'
      BY <2>2, <3>1 DEF OldFirst
    <3>3. ASSUME old' # None, NEW a \in DOMAIN file'[old'], NEW b \in DOMAIN file'[cur']
          PROVE  Earlier(file'[old'][a], file'[cur'][b])
      <4>1. file'[old'] = file[old] /\ file'[cur'] = file[cur] /\ old # None
        BY <1>1, <2>2, <3>1, <3>3
      <4> QED BY <2>2, <3>1, <3>3, <4>1 DEF OldFirst
    <3>4. ASSUME NEW q \in Procs, fd'[q] \notin {None, cur'}, NEW b \in DOMAIN file'[cur']
          PROVE  file'[cur'][b].by # q
      <4>1. fd[q] \notin {None, cur} /\ file'[cur'] = file[cur]
        BY <1>1, <2>2, <3>1, <3>4
      <4> QED BY <2>2, <3>1, <3>4, <4>1 DEF OldFirst
    <3> QED BY <3>2, <3>3, <3>4 DEF OldFirst
  <2>3. CASE cur' \in Inodes /\ cur' # old' /\ file'[cur'] = <<>>
    <3>1. DOMAIN file'[cur'] = {}
      BY <2>3
    <3> QED BY <2>3, <3>1 DEF OldFirst
  <2> QED BY <2>1, <2>2, <2>3 DEF Moves
<1> QED BY <1>2, <1>3, <1>4 DEF OrderInv

\* A sequence and one more element, index by index.
LEMMA Appending ==
  ASSUME NEW S, NEW s \in Seq(S), NEW e \in S
  PROVE  /\ Append(s, e) \in Seq(S) /\ Len(s) \in Nat /\ Len(Append(s, e)) = Len(s) + 1
         /\ DOMAIN s = 1 .. Len(s) /\ DOMAIN Append(s, e) = 1 .. Len(s) + 1
         /\ Append(s, e)[Len(s) + 1] = e
         /\ \A k \in 1 .. Len(s) : Append(s, e)[k] = s[k]
OBVIOUS

\* The line that is written is the youngest of its process everywhere; in a
\* file that is the rotated log by now it precedes all lines of the log.
LEMMA WriteKeepsOrder ==
  ASSUME TypeOK, OrderInv, NEW p \in Procs, Write(p)
  PROVE  OrderInv'
<1> DEFINE line == [by |-> p, no |-> called[p]]
           f == fd[p]
<1>1. /\ pc[p] = "write" /\ pc' = [pc EXCEPT ![p] = "idle"]
      /\ file' = [file EXCEPT ![f] = Append(@, line)] /\ fd' = [fd EXCEPT ![p] = None]
      /\ UNCHANGED <<cur, old, called>>
  BY DEF Write, At, Goto, names
<1>2. f \in Inodes /\ f # None /\ file[f] \in Seq(Line)
  BY <1>1, LogAssumption DEF TypeOK
<1>3. line \in Line /\ line.by = p /\ line.no = called[p] /\ called[p] \in Nat
  BY DEF Line, TypeOK
<1> HIDE DEF line, f
<1> DEFINE new == Append(file[f], line)
           n == Len(file[f])
<1>4. /\ file'[f] = new /\ \A i \in Inodes : i # f => file'[i] = file[i]
      /\ n \in Nat /\ DOMAIN file[f] = 1 .. n /\ DOMAIN new = 1 .. n + 1 /\ new[n + 1] = line
      /\ \A k \in 1 .. n : new[k] = file[f][k]
  BY <1>1, <1>2, <1>3, Appending DEF TypeOK
<1> HIDE DEF new, n
<1>5. ASSUME NEW i \in Inodes, NEW a \in DOMAIN file[i]
      PROVE  /\ Earlier(file[i][a], line) /\ file[i][a].no \in Nat
             /\ \A q \in Procs : file[i][a].by = q => file[i][a].no <= called[q]
  <2>1. file[i][a] \in Line
    BY DEF TypeOK
  <2> QED BY <1>1, <1>3, <2>1 DEF OrderInv, Past, Earlier, Line
<1>6. ASSUME NEW i \in Inodes PROVE InOrder(file[i])'
  <2>1. CASE i # f
    BY <1>4, <2>1 DEF OrderInv, InOrder
  <2>2. CASE i = f
    <3> SUFFICES ASSUME NEW a \in 1 .. n + 1, NEW b \in 1 .. n + 1, a < b
                 PROVE  Earlier(new[a], new[b])
      BY <1>4, <2>2 DEF InOrder
    <3>1. a \in 1 .. n /\ new[a] = file[f][a]
      BY <1>4
    <3>2. CASE b = n + 1
      BY <1>2, <1>4, <1>5, <3>1, <3>2
    <3>3. CASE b # n + 1
      <4>1. b \in 1 .. n /\ new[b] = file[f][b]
        BY <1>4, <3>3
      <4> QED BY <1>2, <1>4, <3>1, <4>1 DEF OrderInv, InOrder
    <3> QED BY <3>2, <3>3
  <2> QED BY <2>1, <2>2
<1>7. ASSUME NEW i \in Inodes PROVE Past(i)'
  <2> SUFFICES ASSUME NEW a \in DOMAIN file'[i], NEW q \in Procs, file'[i][a].by = q
               PROVE  file'[i][a].no <= called[q] /\ (pc'[q] # "idle" => file'[i][a].no < called[q])
    BY <1>1 DEF Past
  <2>1. CASE i = f /\ a = n + 1
    BY <1>1, <1>3, <1>4, <2>1 DEF TypeOK
  <2>2. CASE ~ (i = f /\ a = n + 1)
    <3>1. a \in DOMAIN file[i] /\ file'[i][a] = file[i][a]
      <4>1. CASE i # f
        BY <1>4, <4>1
      <4>2. CASE i = f
        <5>1. a \in 1 .. n
          BY <1>4, <2>2, <4>2
        <5> QED BY <1>4, <4>2, <5>1
      <4> QED BY <4>1, <4>2
    <3>2. pc'[q] # "idle" => pc[q] # "idle"
      BY <1>1 DEF TypeOK
    <3> QED BY <3>1, <3>2 DEF OrderInv, Past
  <2> QED BY <2>1, <2>2
<1>8. OldFirst'
  <2> SUFFICES ASSUME cur # None
               PROVE  /\ cur # old
                      /\ old # None => \A a \in DOMAIN file'[old], b \in DOMAIN file'[cur] :
                                         Earlier(file'[old][a], file'[cur][b])
                      /\ \A q \in Procs : fd'[q] \notin {None, cur} =>
                           \A b \in DOMAIN file'[cur] : file'[cur][b].by # q
    BY <1>1 DEF OldFirst
  <2>1. OldFirst /\ cur \in Inodes /\ old \in Inodes \cup {None} /\ cur # old
    BY DEF OrderInv, OldFirst, TypeOK
  <2>2. ASSUME old # None, NEW a \in DOMAIN file'[old], NEW b \in DOMAIN file'[cur]
        PROVE  Earlier(file'[old][a], file'[cur][b])
    <3>1. CASE f = cur
      <4>1. file'[old] = file[old] /\ a \in DOMAIN file[old]
        BY <1>4, <2>1, <2>2, <3>1
      <4>2. CASE b = n + 1
        BY <1>4, <1>5, <2>1, <2>2, <3>1, <4>1, <4>2
      <4>3. CASE b # n + 1
        <5>1. b \in DOMAIN file[cur] /\ file'[cur][b] = file[cur][b]
          <6>1. b \in 1 .. n
            BY <1>4, <3>1, <4>3
          <6> QED BY <1>4, <3>1, <6>1
        <5> QED BY <2>1, <2>2, <4>1, <5>1 DEF OldFirst
      <4> QED BY <4>2, <4>3
    <3>2. CASE f # cur
      <4>1. file'[cur] = file[cur] /\ b \in DOMAIN file[cur] /\ file[cur][b].by # p
        BY <1>2, <1>4, <2>1, <2>2, <3>2 DEF OldFirst, f
      <4>2. CASE f = old /\ a = n + 1
        BY <1>3, <1>4, <4>1, <4>2 DEF Earlier
      <4>3. CASE ~ (f = old /\ a = n + 1)
        <5>1. a \in DOMAIN file[old] /\ file'[old][a] = file[old][a]
          <6>1. CASE f # old
            BY <1>4, <2>1, <2>2, <6>1
          <6>2. CASE f = old
            <7>1. a \in 1 .. n
              BY <1>4, <2>2, <4>3, <6>2
            <7> QED BY <1>4, <6>2, <7>1
          <6> QED BY <6>1, <6>2
        <5> QED BY <2>1, <2>2, <4>1, <5>1 DEF OldFirst
      <4> QED BY <4>2, <4>3
    <3> QED BY <3>1, <3>2
  <2>3. ASSUME NEW q \in Procs, fd'[q] \notin {None, cur}, NEW b \in DOMAIN file'[cur]
        PROVE  file'[cur][b].by # q
    <3>1. q # p /\ fd[q] \notin {None, cur}
      BY <1>1, <2>3 DEF TypeOK
    <3>2. CASE f = cur /\ b = n + 1
      BY <1>3, <1>4, <3>1, <3>2
    <3>3. CASE ~ (f = cur /\ b = n + 1)
      <4>1. b \in DOMAIN file[cur] /\ file'[cur][b] = file[cur][b]
        <5>1. CASE f # cur
          BY <1>4, <2>1, <2>3, <5>1
        <5>2. CASE f = cur
          <6>1. b \in 1 .. n
            BY <1>4, <2>3, <3>3, <5>2
          <6> QED BY <1>4, <5>2, <6>1
        <5> QED BY <5>1, <5>2
      <4> QED BY <2>1, <3>1, <4>1 DEF OldFirst
    <3> QED BY <3>2, <3>3
  <2> QED BY <2>1, <2>2, <2>3
<1> QED BY <1>6, <1>7, <1>8 DEF OrderInv

\* Calls that interleave at every system call, rotate the log under each
\* other and end anywhere keep the lines of each process in order.
THEOREM OrderInvariance == Spec => []OrderInv
<1>1. Init => OrderInv
  <2> SUFFICES ASSUME Init PROVE OrderInv
    OBVIOUS
  <2>1. cur = None /\ \A i \in Inodes : file[i] = <<>> /\ DOMAIN file[i] = {}
    BY DEF Init
  <2> QED BY <2>1 DEF OrderInv, OldFirst, InOrder, Past
<1>2. IInv /\ IInv' /\ OrderInv /\ [Next]_vars => OrderInv'
  <2> SUFFICES ASSUME TypeOK, TypeOK', OrderInv, [Next]_vars PROVE OrderInv'
    BY DEF IInv
  <2>1. CASE Next
    <3>1. PICK p \in Procs : Call(p) \/ GetLogSize(p) \/ LogLoop(p) \/ WriteLine(p) \/ Fault(p)
      BY <2>1 DEF Next
    <3> QED BY <3>1, StepMoves, MovesKeepOrder, WriteKeepsOrder
  <2>2. CASE UNCHANGED vars
    BY <2>2 DEF vars, names, history, OrderInv, OldFirst, InOrder, Past
  <2> QED BY <2>1, <2>2
<1> QED BY LogInvariance, <1>1, <1>2, PTL DEF Spec

\* What an operator reads has the lines of each process in the order in which
\* they were logged, and none of them twice.
THEOREM LinesAlwaysInOrder == Spec => []LinesInOrder
<1>1. TypeOK /\ OrderInv => LinesInOrder
  <2> SUFFICES ASSUME TypeOK, OrderInv, NEW a \in DOMAIN Record, NEW b \in DOMAIN Record, a < b
               PROVE  Earlier(Record[a], Record[b])
    BY DEF LinesInOrder, Earlier
  <2> DEFINE s == Content(old)
             t == Content(cur)
             m == Len(s)
  <2>1. s \in Seq(Line) /\ t \in Seq(Line) /\ InOrder(s) /\ InOrder(t)
    <3>1. <<>> \in Seq(Line) /\ InOrder(<<>>)
      BY DEF InOrder
    <3> QED BY <3>1 DEF Content, TypeOK, OrderInv
  <2>2. \A i \in DOMAIN s, k \in DOMAIN t : Earlier(s[i], t[k])
    BY DEF Content, OrderInv, OldFirst
  <2> HIDE DEF s, t
  <2>3. /\ DOMAIN s = 1 .. m /\ m \in Nat /\ Record = s \o t
        /\ \A i \in DOMAIN Record : /\ i <= m => i \in DOMAIN s /\ Record[i] = s[i]
                                    /\ i > m => i - m \in DOMAIN t /\ Record[i] = t[i - m]
    <3>1. Record = s \o t
      BY DEF Record, s, t
    <3> QED BY <2>1, <3>1
  <2>4. a \in Nat /\ b \in Nat
    BY <2>1, <2>3
  <2> HIDE DEF m
  <2>5. CASE b <= m
    <3>1. a <= m
      BY <2>3, <2>4, <2>5
    <3> QED BY <2>1, <2>3, <2>5, <3>1 DEF InOrder
  <2>6. CASE b > m /\ a <= m
    BY <2>2, <2>3, <2>6
  <2>7. CASE a > m
    <3>1. b > m /\ a - m < b - m
      BY <2>3, <2>4, <2>7
    <3> QED BY <2>1, <2>3, <2>7, <3>1 DEF InOrder
  <2> QED BY <2>3, <2>4, <2>5, <2>6, <2>7
<1> QED BY <1>1, LogTypeCorrect, OrderInvariance, PTL

-----------------------------------------------------------------------------
(* SequentialKeepsRecent.  What the one process under way has seen is      *)
(* still so when it acts on it.                                            *)

Seen(p) ==
  /\ pc[p] \in {"creat", "creat again"} => cur = None
  /\ pc[p] \in {"unlink", "rename"} => cur # None /\ Len(file[cur]) > MaxSize
  /\ pc[p] = "rename" => old = None
  /\ fd[p] # None => fd[p] = cur

Alone == \A p, q \in Procs : p # q => pc[p] = "idle" \/ pc[q] = "idle"

\* The record lacks none of the last lines, and has enough of them.
Recent(record, lines) ==
  /\ IsSuffix(record, lines)
  /\ Len(record) >= IF Len(lines) <= MaxSize THEN Len(lines) ELSE MaxSize + 1

SeqInv == ~ overlap => Alone /\ (\A p \in Procs : Seen(p)) /\ Recent(Record, written)

LEMMA SuffixAt ==
  ASSUME NEW S, NEW s \in Seq(S), NEW t \in Seq(S)
  PROVE  IsSuffix(s, t) <=> /\ Len(s) <= Len(t)
                            /\ \A k \in 1 .. Len(s) : s[k] = t[Len(t) - Len(s) + k]
<1> DEFINE n == Len(s)
           m == Len(t)
<1>1. n \in Nat /\ m \in Nat
  OBVIOUS
<1>2. ASSUME n <= m
      PROVE  s = SubSeq(t, m - n + 1, m) <=> \A k \in 1 .. n : s[k] = t[m - n + k]
  <2> DEFINE u == SubSeq(t, m - n + 1, m)
  <2>1. u = [k \in 1 .. n |-> t[m - n + k]]
    <3>1. u = [k \in 1 .. (m - (m - n + 1) + 1) |-> t[k + (m - n + 1) - 1]]
      BY <1>1
    <3>2. m - (m - n + 1) + 1 = n /\ \A k \in 1 .. n : k + (m - n + 1) - 1 = m - n + k
      BY <1>1
    <3> QED BY <3>1, <3>2
  <2>2. s = [k \in 1 .. n |-> s[k]]
    OBVIOUS
  <2> HIDE DEF u
  <2>3. (\A k \in 1 .. n : s[k] = t[m - n + k]) => s = u
    BY <2>1, <2>2
  <2>4. s = u => \A k \in 1 .. n : s[k] = t[m - n + k]
    BY <2>1
  <2> QED BY <2>3, <2>4 DEF u
<1> QED BY <1>2 DEF IsSuffix

\* A shorter end of the lines is one as well, and a line written is at both ends.
LEMMA RecentTail ==
  ASSUME NEW S, NEW r \in Seq(S), NEW s \in Seq(S), NEW t \in Seq(S), Recent(r \o s, t),
         Len(s) > MaxSize
  PROVE  Recent(s, t)
<1>1. Len(r) \in Nat /\ Len(s) \in Nat /\ Len(t) \in Nat /\ MaxSize \in Nat /\ r \o s \in Seq(S)
  BY LogAssumption
<1>2. /\ Len(r \o s) = Len(r) + Len(s)
      /\ \A k \in 1 .. Len(s) : (r \o s)[Len(r) + k] = s[k]
  OBVIOUS
<1>3. /\ Len(r \o s) <= Len(t)
      /\ \A k \in 1 .. Len(r \o s) : (r \o s)[k] = t[Len(t) - Len(r \o s) + k]
  BY <1>1, SuffixAt, Zenon DEF Recent
<1>4. Len(s) <= Len(t)
  BY <1>1, <1>2, <1>3
<1>5. ASSUME NEW k \in 1 .. Len(s) PROVE s[k] = t[Len(t) - Len(s) + k]
  <2>1. Len(r) + k \in 1 .. Len(r \o s)
    BY <1>1, <1>2
  <2>2. Len(t) - Len(r \o s) + (Len(r) + k) = Len(t) - Len(s) + k
    BY <1>1, <1>2
  <2> QED BY <1>2, <1>3, <2>1, <2>2
<1>6. IsSuffix(s, t)
  BY <1>4, <1>5, SuffixAt, Zenon
<1>7. Len(s) >= MaxSize + 1
  BY <1>1
<1>8. Len(t) <= MaxSize => FALSE
  BY <1>1, <1>4
<1> QED BY <1>6, <1>7, <1>8 DEF Recent

LEMMA RecentAppend ==
  ASSUME NEW S, NEW s \in Seq(S), NEW t \in Seq(S), NEW e \in S, Recent(s, t)
  PROVE  Recent(Append(s, e), Append(t, e))
<1> DEFINE s1 == Append(s, e)
           t1 == Append(t, e)
<1>1. /\ s1 \in Seq(S) /\ Len(s) \in Nat /\ Len(s1) = Len(s) + 1 /\ s1[Len(s) + 1] = e
      /\ \A k \in 1 .. Len(s) : s1[k] = s[k]
      /\ t1 \in Seq(S) /\ Len(t) \in Nat /\ Len(t1) = Len(t) + 1 /\ t1[Len(t) + 1] = e
      /\ \A k \in 1 .. Len(t) : t1[k] = t[k]
  BY Appending
<1>2. Len(s) <= Len(t) /\ \A k \in 1 .. Len(s) : s[k] = t[Len(t) - Len(s) + k]
  BY SuffixAt, Zenon DEF Recent
<1> HIDE DEF s1, t1
<1>3. ASSUME NEW k \in 1 .. Len(s1) PROVE s1[k] = t1[Len(t1) - Len(s1) + k]
  <2>1. CASE k = Len(s) + 1
    BY <1>1, <1>2, <2>1
  <2>2. CASE k # Len(s) + 1
    <3>1. k \in 1 .. Len(s) /\ Len(t) - Len(s) + k \in 1 .. Len(t)
          /\ Len(t1) - Len(s1) + k = Len(t) - Len(s) + k
      BY <1>1, <1>2, <2>2
    <3> QED BY <1>1, <1>2, <3>1
  <2> QED BY <2>1, <2>2
<1>4. Len(s1) <= Len(t1)
  BY <1>1, <1>2
<1>5. IsSuffix(s1, t1)
  BY <1>1, <1>3, <1>4, SuffixAt, Zenon
<1>6. Len(s) >= IF Len(t) <= MaxSize THEN Len(t) ELSE MaxSize + 1
  BY DEF Recent
<1>7. Len(s1) >= IF Len(t1) <= MaxSize THEN Len(t1) ELSE MaxSize + 1
  BY <1>1, <1>6, LogAssumption
<1> QED BY <1>5, <1>7 DEF Recent, s1, t1

LEMMA Contents ==
  ASSUME TypeOK
  PROVE  /\ Content(old) \in Seq(Line) /\ Content(cur) \in Seq(Line) /\ Record \in Seq(Line)
         /\ Content(None) = <<>> /\ \A i \in Inodes : Content(i) = file[i]
<1>1. <<>> \in Seq(Line) /\ \A i \in Inodes : i # None
  BY LogAssumption
<1>2. Content(old) \in Seq(Line) /\ Content(cur) \in Seq(Line)
  BY <1>1 DEF Content, TypeOK
<1> QED BY <1>1, <1>2 DEF Record, Content

LEMMA MakeCurSame ==
  ASSUME TypeOK, TypeOK', MakeCur, old' = old
  PROVE  Record' = Record
<1>1. CASE cur # None
  <2>1. cur' = cur /\ file' = file
    BY <1>1 DEF MakeCur
  <2> QED BY <2>1 DEF Record, Content
<1>2. CASE cur = None
  <2>1. PICK i \in FreeInodes : cur' = i /\ file' = [file EXCEPT ![i] = <<>>]
    BY <1>2 DEF MakeCur
  <2>2. i \in Inodes /\ i # old /\ file'[i] = <<>> /\ \A j \in Inodes : j # i => file'[j] = file[j]
    BY <2>1 DEF FreeInodes, TypeOK
  <2>3. Content(cur)' = <<>> /\ Content(cur) = <<>>
    BY <1>2, <2>1, <2>2, LogAssumption DEF Content
  <2>4. Content(old)' = Content(old)
    BY <2>2 DEF Content, TypeOK
  <2> QED BY <2>3, <2>4 DEF Record
<1> QED BY <1>1, <1>2

\* With nobody else under way, each step keeps the record and what p has seen.
LEMMA SoloStep ==
  ASSUME TypeOK, TypeOK', OldFirst, NEW p \in Procs, Seen(p), Recent(Record, written),
         GetLogSize(p) \/ LogLoop(p) \/ WriteLine(p) \/ Fault(p)
  PROVE  Seen(p)' /\ Recent(Record, written)'
<1> USE DEF At, Goto, names, history
<1>1. /\ cur \in Inodes \cup {None} /\ old \in Inodes \cup {None} /\ None \notin Inodes
      /\ MaxSize \in Nat /\ p \in DOMAIN pc /\ p \in DOMAIN fd
      /\ pc[p] # "write" => fd[p] = None
  BY LogAssumption DEF TypeOK
<1>2. ASSUME UNCHANGED <<cur, old, file, written>> PROVE Recent(Record, written)'
  BY <1>2 DEF Record, Content
<1>3. ASSUME NEW step, NEW creat, NEW after, Exists(p, step, creat, after), step # "write",
             creat \in {"creat", "creat again"}, after \in {"resolve", "resolve again"}
      PROVE  Seen(p)' /\ Recent(Record, written)'
  BY <1>1, <1>2, <1>3 DEF Exists, Seen
<1>4. ASSUME NEW step, NEW after, Creat(p, step, after), step \in {"creat", "creat again"},
             after \in {"resolve", "resolve again"}
      PROVE  Seen(p)' /\ Recent(Record, written)'
  <2>1. MakeCur /\ old' = old /\ written' = written
    BY <1>4 DEF Creat, Seen
  <2>2. Record' = Record
    BY <2>1, MakeCurSame
  <2>3. Seen(p)'
    BY <1>1, <1>4 DEF Creat, Seen
  <2> QED BY <2>1, <2>2, <2>3
<1>5. ASSUME NEW step, NEW after, Resolve(p, step, after), step # "write",
             after \in {"measure", "open"}
      PROVE  Seen(p)' /\ Recent(Record, written)'
  BY <1>1, <1>2, <1>5 DEF Resolve, Seen
<1>6. CASE Measure(p)
  <2>1. /\ pc'[p] \in {"unlink", "resolve again"} /\ fd'[p] = None /\ cur' = cur /\ file' = file
        /\ pc'[p] = "unlink" => Length > MaxSize
    BY <1>1, <1>6 DEF Measure
  <2>2. ~ (0 > MaxSize)
    BY <1>1
  <2>3. pc'[p] = "unlink" => cur # None /\ Len(file[cur]) > MaxSize
    BY <2>1, <2>2 DEF Length
  <2>4. Seen(p)'
    BY <2>1, <2>3 DEF Seen
  <2> QED BY <1>2, <1>6, <2>4 DEF Measure
<1>7. CASE Unlink(p)
  <2>1. /\ cur # None /\ Len(file[cur]) > MaxSize /\ old' = None /\ cur' = cur
        /\ file' = file /\ written' = written
    BY <1>7 DEF Unlink, Seen
  <2>2. Seen(p)'
    BY <1>1, <1>7, <2>1 DEF Unlink, Seen
  <2>3. /\ Content(old) \in Seq(Line) /\ file[cur] \in Seq(Line)
        /\ Record = Content(old) \o file[cur] /\ Record' = <<>> \o file[cur]
    <3>1. Content(cur) = file[cur] /\ Content(cur)' = file[cur] /\ Content(old)' = <<>>
      BY <1>1, <2>1 DEF Content
    <3> QED BY <1>1, <2>1, <3>1, Contents DEF Record
  <2>4. written \in Seq(Line)
    BY DEF TypeOK
  <2>5. Recent(file[cur], written)
    BY <2>1, <2>3, <2>4, RecentTail
  <2>6. Record' = file[cur]
    BY <2>3
  <2> QED BY <2>1, <2>2, <2>5, <2>6
<1>8. CASE Rename(p)
  <2>1. /\ cur # None /\ old = None /\ old' = cur /\ cur' = None
        /\ file' = file /\ written' = written
    BY <1>8 DEF Rename, Seen
  <2>2. Seen(p)'
    BY <1>1, <1>8, <2>1 DEF Rename, Seen
  <2>3. file[cur] \in Seq(Line) /\ Record = <<>> \o file[cur] /\ Record' = file[cur] \o <<>>
    <3>1. /\ Content(cur) = file[cur] /\ Content(old) = <<>>
          /\ Content(old)' = file[cur] /\ Content(cur)' = <<>>
      BY <1>1, <2>1 DEF Content
    <3> QED BY <1>1, <2>1, <3>1, Contents DEF Record
  <2>4. Record' = Record
    BY <2>3
  <2> QED BY <2>1, <2>2, <2>4
<1>9. CASE Chmod(p)
  BY <1>1, <1>2, <1>9 DEF Chmod, Seen
<1>10. CASE Open(p)
  <2>1. MakeCur /\ old' = old /\ written' = written
    BY <1>10 DEF Open
  <2>2. Record' = Record
    BY <2>1, MakeCurSame
  <2>3. Seen(p)'
    BY <1>1, <1>10 DEF Open, Seen
  <2> QED BY <2>1, <2>2, <2>3
<1>11. CASE Write(p)
  <2> DEFINE line == [by |-> p, no |-> called[p]]
  <2>1. /\ fd[p] = cur /\ cur \in Inodes /\ cur' = cur /\ old' = old
        /\ file' = [file EXCEPT ![cur] = Append(@, line)] /\ written' = Append(written, line)
    BY <1>1, <1>11 DEF Write, Seen, TypeOK
  <2>2. line \in Line
    BY DEF Line, TypeOK
  <2>3. Seen(p)'
    BY <1>1, <1>11 DEF Write, Seen
  <2> HIDE DEF line
  <2>4. cur # old
    BY <1>1, <2>1 DEF OldFirst
  <2>5. file'[cur] = Append(file[cur], line) /\ \A i \in Inodes : i # cur => file'[i] = file[i]
    BY <2>1 DEF TypeOK
  <2>6. /\ Content(old)' = Content(old) /\ Content(cur) = file[cur]
        /\ Content(cur)' = Append(file[cur], line)
    BY <1>1, <2>1, <2>4, <2>5 DEF Content
  <2>7. file[cur] \in Seq(Line) /\ Content(old) \in Seq(Line) /\ Record \in Seq(Line)
    BY <2>6, Contents
  <2>8. Content(old) \o Append(file[cur], line) = Append(Content(old) \o file[cur], line)
    BY <2>2, <2>7
  <2>9. Record' = Append(Record, line)
    BY <2>6, <2>8 DEF Record
  <2>10. written \in Seq(Line)
    BY DEF TypeOK
  <2>11. Recent(Append(Record, line), Append(written, line))
    BY <2>2, <2>7, <2>10, RecentAppend
  <2> QED BY <2>1, <2>3, <2>9, <2>11
<1>12. CASE Fault(p)
  BY <1>1, <1>2, <1>12 DEF Fault, Seen
<1>13. CASE GetLogSize(p)
  BY <1>3, <1>4, <1>5, <1>6, <1>13 DEF GetLogSize
<1>14. CASE LogLoop(p)
  BY <1>3, <1>4, <1>7, <1>8, <1>9, <1>14 DEF LogLoop
<1>15. CASE WriteLine(p)
  BY <1>5, <1>10, <1>11, <1>15 DEF WriteLine
<1> QED BY <1>12, <1>13, <1>14, <1>15

\* A step of one process changes pc, fd and overlap only for itself.
LEMMA OwnStep ==
  ASSUME TypeOK, NEW p \in Procs, Call(p) \/ GetLogSize(p) \/ LogLoop(p) \/ WriteLine(p) \/ Fault(p)
  PROVE  /\ \A q \in Procs : q # p => pc'[q] = pc[q] /\ fd'[q] = fd[q]
         /\ ~ Call(p) => pc[p] # "idle" /\ overlap' = overlap
<1> USE DEF At, Goto, names, history, TypeOK
<1>1. CASE Call(p)
  BY <1>1 DEF Call
<1>2. CASE GetLogSize(p)
  BY <1>2 DEF GetLogSize, Exists, Creat, Resolve, Measure
<1>3. CASE LogLoop(p)
  BY <1>3 DEF LogLoop, Unlink, Rename, Chmod, Exists, Creat
<1>4. CASE WriteLine(p)
  BY <1>4 DEF WriteLine, Resolve, Open, Write
<1>5. CASE Fault(p)
  BY <1>5 DEF Fault
<1> QED BY <1>1, <1>2, <1>3, <1>4, <1>5

LEMMA StepSeqInv ==
  ASSUME TypeOK, TypeOK', OrderInv, SeqInv, NEW p \in Procs,
         Call(p) \/ GetLogSize(p) \/ LogLoop(p) \/ WriteLine(p) \/ Fault(p)
  PROVE  SeqInv'
<1> SUFFICES ASSUME ~ overlap'
             PROVE  Alone' /\ (\A q \in Procs : Seen(q)') /\ Recent(Record, written)'
  BY DEF SeqInv
<1>1. ~ overlap /\ \A q \in Procs : q # p => pc[q] = "idle"
  <2>1. CASE Call(p)
    BY <2>1 DEF Call, history
  <2>2. CASE ~ Call(p)
    <3>1. ~ overlap /\ pc[p] # "idle"
      BY <2>2, OwnStep
    <3> QED BY <3>1 DEF SeqInv, Alone
  <2> QED BY <2>1, <2>2
<1>2. OldFirst /\ (\A q \in Procs : Seen(q)) /\ Recent(Record, written)
  BY <1>1 DEF SeqInv, OrderInv
<1>3. \A q \in Procs : q # p => pc'[q] = "idle" /\ fd'[q] = None
  <2>1. \A q \in Procs : q # p => pc'[q] = pc[q] /\ fd'[q] = fd[q]
    BY OwnStep
  <2> QED BY <1>1, <2>1 DEF TypeOK
<1>4. Alone'
  BY <1>3 DEF Alone
<1>5. \A q \in Procs : q # p => Seen(q)'
  BY <1>3 DEF Seen
<1>6. Seen(p)' /\ Recent(Record, written)'
  <2>1. CASE Call(p)
    <3>1. pc'[p] = "access" /\ fd'[p] = None /\ UNCHANGED <<cur, old, file, written>>
      BY <2>1 DEF Call, At, Goto, names, TypeOK
    <3>2. Seen(p)'
      BY <3>1 DEF Seen
    <3> QED BY <1>2, <3>1, <3>2 DEF Record, Content
  <2>2. CASE ~ Call(p)
    BY <1>2, <2>2, SoloStep
  <2> QED BY <2>1, <2>2
<1> QED BY <1>4, <1>5, <1>6

\* Calls that are never under way at once keep the last lines without a gap,
\* and more than MaxSize of them, wherever a rotation was cut short.
THEOREM SequentialAlwaysKeepsRecent == Spec => []SequentialKeepsRecent
<1>1. Init => SeqInv
  <2> SUFFICES ASSUME Init PROVE SeqInv
    OBVIOUS
  <2>1. Alone /\ \A p \in Procs : Seen(p)
    BY DEF Init, Alone, Seen
  <2>2. Record = <<>> \o <<>> /\ written = <<>>
    BY DEF Init, Record, Content
  <2>3. Record = <<>>
    BY <2>2
  <2>4. IsSuffix(<<>>, <<>>)
    <3>1. <<>> = SubSeq(<<>>, 1, 0) /\ Len(<<>>) - Len(<<>>) + 1 = 1 /\ Len(<<>>) = 0
      OBVIOUS
    <3> QED BY <3>1 DEF IsSuffix
  <2>5. Recent(Record, written)
    BY <2>2, <2>3, <2>4, LogAssumption DEF Recent
  <2> QED BY <2>1, <2>5 DEF SeqInv
<1>2. IInv /\ IInv' /\ OrderInv /\ SeqInv /\ [Next]_vars => SeqInv'
  <2> SUFFICES ASSUME TypeOK, TypeOK', OrderInv, SeqInv, [Next]_vars PROVE SeqInv'
    BY DEF IInv
  <2>1. CASE Next
    BY <2>1, StepSeqInv DEF Next
  <2>2. CASE UNCHANGED vars
    BY <2>2 DEF vars, names, history, SeqInv, Alone, Seen, Record, Content
  <2> QED BY <2>1, <2>2
<1>3. SeqInv => SequentialKeepsRecent
  BY DEF SeqInv, Recent, SequentialKeepsRecent
<1> QED BY LogInvariance, OrderInvariance, <1>1, <1>2, <1>3, PTL DEF Spec
=============================================================================
