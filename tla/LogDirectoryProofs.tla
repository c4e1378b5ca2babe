------------------------- MODULE LogDirectoryProofs -------------------------
(***************************************************************************)
(* For any number of walks, names and changes of the directory: why a walk *)
(* fails, and what one that ends has done.                                 *)
(***************************************************************************)
EXTENDS LogDirectory, FiniteSetTheorems, WellFoundedInduction, TLAPS

Names == Strangers \cup Backups

\* What a walk has read and is not lost is there.
Kept(w) == names[w] \ lost[w] \subseteq dir

\* The function has been called for the directory and for each name that is
\* not left, and for the one at hand.
Counted(w) ==
  pc[w] \in {"visit", "look", "chmod"} =>
    /\ counter[w] + Cardinality(left[w]) =
         Cardinality(names[w]) + (IF pc[w] = "chmod" THEN 2 ELSE 1)
    /\ counter[w] <= MaxFileNum

\* What the next step of the walk goes by.
Stands(w) ==
  /\ pc[w] = "look" /\ ~ seen[w] => Name(w) \in lost[w]
  /\ pc[w] = "chmod" => Name(w) \in Backups \ Linked
  /\ pc[w] = "done" => left[w] = {}

\* The backups behind the walk are read-only.
BehindReadOnly(w) ==
  ((names[w] \ left[w]) \cap Backups) \ lost[w] \subseteq readOnly \ Linked
BehindInv(w) == pc[w] # "failed" => BehindReadOnly(w)

Cause(w) ==
  \/ lost[w] # {}
  \/ Cardinality(names[w]) + 1 > MaxFileNum
  \/ names[w] \cap Linked # {}

WalkInv(w) ==
  /\ Kept(w) /\ Counted(w) /\ Stands(w) /\ BehindInv(w)
  /\ pc[w] = "failed" => Cause(w)
  /\ pc[w] = "start" => names[w] = {}

IInv == TypeOK /\ \A w \in Walkers : WalkInv(w)

-----------------------------------------------------------------------------
(* Facts about the data.                                                   *)

\* A set of names has a least one: of the sets of the names up to one, one is
\* included in all the others.
LEMMA LeastName ==
  ASSUME NEW S, S \subseteq Names, S # {}
  PROVE  Min(S) \in S
  <1> DEFINE UpTo(x) == {y \in S : y <= x}
             Ups == {UpTo(x) : x \in S}
             R == StrictSubsetOrdering(Names)
  <1>1. S \subseteq Nat
    BY DirectoryAssumption DEF Names
  <1>2. IsFiniteSet(Names)
    BY DirectoryAssumption, Zenon DEF Names, DirectoryAssumption
  <1>3. IsWellFoundedOn(R, SUBSET Names)
    BY <1>2, FS_StrictSubsetOrderingWellFounded, FS_FiniteSubsetsOfFinite, Zenon
  <1>4. Ups \subseteq SUBSET Names /\ Ups # {}
    OBVIOUS
  <1>5. \E U \in Ups : \A V \in Ups : ~ (<<V, U>> \in R)
    <2>1. ASSUME NEW Q, NEW All, NEW T, IsWellFoundedOn(Q, All), T \subseteq All, T # {}
          PROVE  \E U \in T : \A V \in T : ~ (<<V, U>> \in Q)
      BY <2>1, WFMin
    <2>2. QED
      BY <1>3, <1>4, <2>1
  <1>6. PICK x \in S : \A V \in Ups : ~ (<<V, UpTo(x)>> \in R)
    BY <1>5
  <1>7. ASSUME NEW y \in S, ~ (x <= y) PROVE FALSE
    <2>1. UpTo(y) \subseteq UpTo(x) /\ x \in UpTo(x) /\ x \notin UpTo(y)
      <3>1. x \in Nat /\ y \in Nat /\ ~ (x <= y)
        BY <1>1, <1>7
      <3>2. ASSUME NEW z \in S, z <= y PROVE z <= x
        BY <1>1, <3>1, <3>2
      <3>3. x <= x
        BY <3>1
      <3>4. QED
        BY <3>1, <3>2, <3>3
    <2>2. UpTo(y) \in Ups
      OBVIOUS
    <2>3. <<UpTo(y), UpTo(x)>> \in R
      BY <2>1 DEF StrictSubsetOrdering
    <2>4. QED
      BY <1>6, <2>2, <2>3
  <1>8. QED
    BY <1>7 DEF Min

\* Sets of names have a size, and one less without an element.
LEMMA NameSizes ==
  ASSUME NEW S, S \subseteq Names
  PROVE  /\ Cardinality(S) \in Nat
         /\ S # {} => Cardinality(S) >= 1
         /\ \A x \in S : Cardinality(S \ {x}) = Cardinality(S) - 1
  <1>1. IsFiniteSet(S)
    BY DirectoryAssumption, FS_Subset DEF Names
  <1>2. Cardinality(S) \in Nat /\ (Cardinality(S) = 0 <=> S = {})
    BY <1>1, FS_CardinalityType, FS_EmptySet
  <1>3. \A x \in S : Cardinality(S \ {x}) = Cardinality(S) - 1
    BY <1>1, FS_RemoveElement
  <1>4. QED
    BY <1>2, <1>3

\* A walk's own part of the state, for one walk.
LEMMA WalkerType ==
  ASSUME TypeOK, NEW w \in Walkers
  PROVE  /\ left[w] \subseteq names[w] /\ names[w] \subseteq Names
         /\ counter[w] \in Nat
         /\ pc[w] \in {"look", "chmod"} => left[w] # {} /\ Name(w) \in left[w]
  <1>1. left[w] \subseteq names[w] /\ names[w] \subseteq Names
    BY DEF TypeOK, Names
  <1>2. pc[w] \in {"look", "chmod"} => left[w] # {}
    BY DEF TypeOK
  <1>3. left[w] # {} => Name(w) \in left[w]
    BY <1>1, LeastName DEF Name
  <1>4. counter[w] \in Nat
    BY DirectoryAssumption DEF TypeOK
  <1>5. QED
    BY <1>1, <1>2, <1>3, <1>4

-----------------------------------------------------------------------------
(* Type correctness.                                                       *)

LEMMA InitType == Init => TypeOK
  <1> SUFFICES ASSUME Init PROVE TypeOK
    OBVIOUS
  <1>1. made \subseteq Backups
    BY DEF Init
  <1>2. PICK S \in SUBSET Strangers, B \in SUBSET made : dir = S \cup B
    BY DEF Init
  <1>3. dir \subseteq Strangers \cup Backups
    BY <1>1, <1>2
  <1>4. 0 \in 0 .. MaxFileNum + 1 /\ 0 \in 0 .. MaxChanges
    BY DirectoryAssumption
  <1>5. QED
    BY <1>1, <1>3, <1>4 DEF Init, TypeOK

LEMMA LoggersType ==
  ASSUME TypeOK, Rotate \/ Prune \/ StrangerGoes \/ StrangerComes
  PROVE  TypeOK'
  BY DirectoryAssumption DEF TypeOK, Rotate, Prune, StrangerGoes, StrangerComes, Vanish,
    Change, walk

LEMMA WalkType ==
  ASSUME IInv, NEW w \in Walkers, Walk(w)
  PROVE  TypeOK'
  <1> USE DEF GoTo, files
  <1>1. CASE ReadNames(w)
    <2>1. names[w] = {} /\ lost[w] = {}
      BY <1>1 DEF IInv, TypeOK, WalkInv, ReadNames
    <2>2. 1 \in 0 .. MaxFileNum + 1 /\ dir \in SUBSET (Strangers \cup Backups)
      BY DirectoryAssumption DEF IInv, TypeOK
    <2>3. QED
      BY <1>1, <2>1, <2>2 DEF IInv, ReadNames, TypeOK
  <1>2. CASE Look(w)
    BY <1>2 DEF IInv, Look, TypeOK
  <1>3. CASE Consider(w)
    <2>1. counter[w] + 1 \in 0 .. MaxFileNum + 1
      BY <1>3, WalkerType, DirectoryAssumption DEF IInv, WalkInv, Counted, Consider
    <2>2. Name(w) \in left[w] /\ left[w] # {}
      BY <1>3, WalkerType DEF IInv, Consider
    <2>3. QED
      BY <1>3, <2>1, <2>2 DEF IInv, Consider, TypeOK, NextName
  <1>4. CASE Chmod(w)
    <2>1. Name(w) \in Backups
      BY <1>4 DEF IInv, WalkInv, Stands, Chmod
    <2>2. QED
      BY <1>4, <2>1 DEF IInv, Chmod, TypeOK, NextName
  <1>5. CASE WalkEnds(w)
    BY <1>5 DEF IInv, WalkEnds, TypeOK
  <1>6. QED
    BY <1>1, <1>2, <1>3, <1>4, <1>5 DEF Walk

-----------------------------------------------------------------------------
(* Others: the loggers, and other walks.                                   *)

\* A change of the directory leaves what the invariant says of a walk: a
\* name that goes is lost to it, and nothing else is.
LEMMA LoggersKeep ==
  ASSUME IInv, NEW w \in Walkers, Rotate \/ Prune \/ StrangerGoes \/ StrangerComes
  PROVE  WalkInv(w)'
  <1>1. UNCHANGED <<pc, left, seen, counter, names>>
    BY DEF Rotate, Prune, StrangerGoes, StrangerComes, Change, walk
  <1>2. PICK gone : /\ lost'[w] = lost[w] \cup (gone \cap names[w])
                    /\ dir \ gone \subseteq dir'
                    /\ readOnly \ gone \subseteq readOnly'
    <2>1. CASE Rotate \/ StrangerComes
      <3>1. lost'[w] = lost[w] \cup ({} \cap names[w]) /\ dir \ {} \subseteq dir'
            /\ readOnly \ {} \subseteq readOnly'
        BY <2>1 DEF Rotate, StrangerComes
      <3>2. QED
        BY <3>1
    <2>2. CASE Prune \/ StrangerGoes
      <3>1. PICK name : Vanish(name)
        BY <2>2 DEF Prune, StrangerGoes
      <3>2. lost'[w] = lost[w] \cup ({name} \cap names[w]) /\ dir \ {name} \subseteq dir'
            /\ readOnly \ {name} \subseteq readOnly'
        BY <3>1 DEF Vanish
      <3>3. QED
        BY <3>2
    <2>3. QED
      BY <2>1, <2>2
  <1>3. Kept(w)'
    BY <1>1, <1>2 DEF IInv, WalkInv, Kept
  <1>4. Counted(w)'
    BY <1>1 DEF IInv, WalkInv, Counted
  <1>5. Stands(w)'
    BY <1>1, <1>2 DEF IInv, WalkInv, Stands, Name
  <1>6. BehindInv(w)'
    BY <1>1, <1>2 DEF IInv, WalkInv, BehindInv, BehindReadOnly
  <1>7. (pc[w] = "failed" => Cause(w))'
    BY <1>1, <1>2 DEF IInv, WalkInv, Cause
  <1>8. QED
    BY <1>1, <1>3, <1>4, <1>5, <1>6, <1>7 DEF IInv, WalkInv

\* A walk leaves the others alone: at most it makes a backup read-only.
LEMMA OthersKeep ==
  ASSUME IInv, NEW w \in Walkers, Walk(w), NEW v \in Walkers, v # w
  PROVE  WalkInv(v)'
  <1>1. /\ pc'[v] = pc[v] /\ left'[v] = left[v] /\ seen'[v] = seen[v]
        /\ counter'[v] = counter[v] /\ names'[v] = names[v]
    BY DEF IInv, TypeOK, Walk, ReadNames, Look, Consider, Chmod, WalkEnds, NextName, GoTo
  <1>2. UNCHANGED <<dir, lost>> /\ readOnly \subseteq readOnly'
    BY DEF Walk, ReadNames, Look, Consider, Chmod, WalkEnds, files
  <1>3. QED
    BY <1>1, <1>2 DEF IInv, WalkInv, Kept, Counted, Stands, BehindInv, BehindReadOnly,
      Cause, Name

-----------------------------------------------------------------------------
(* The walk's own steps.                                                   *)

LEMMA ReadNamesKeeps ==
  ASSUME IInv, NEW w \in Walkers, ReadNames(w)
  PROVE  WalkInv(w)'
  <1>1. /\ pc'[w] = "visit" /\ left'[w] = dir /\ names'[w] = dir /\ counter'[w] = 1
        /\ UNCHANGED <<dir, lost, readOnly>>
    BY DEF IInv, TypeOK, ReadNames, GoTo, files
  <1>2. Cardinality(dir) \in Nat
    BY NameSizes DEF IInv, TypeOK, Names
  <1>3. QED
    BY <1>1, <1>2, DirectoryAssumption DEF WalkInv, Kept, Counted, Stands, BehindInv,
      BehindReadOnly, Cause

LEMMA LookKeeps ==
  ASSUME IInv, NEW w \in Walkers, Look(w)
  PROVE  WalkInv(w)'
  <1>1. /\ pc[w] = "visit" /\ pc'[w] = "look" /\ (seen'[w] <=> Name(w) \in dir)
        /\ UNCHANGED <<dir, lost, readOnly, left, counter, names>>
    BY DEF IInv, TypeOK, Look, GoTo, files
  <1>2. Name(w) \in names[w]
    BY WalkerType, LeastName DEF IInv, Look, Name
  <1>3. Stands(w)'
    BY <1>1, <1>2 DEF IInv, WalkInv, Kept, Stands, Name
  <1>4. QED
    BY <1>1, <1>3 DEF IInv, WalkInv, Kept, Counted, BehindInv, BehindReadOnly, Cause

\* A call too many needs too many names: the name at hand is still left.
LEMMA TooManyCause ==
  ASSUME IInv, NEW w \in Walkers, pc[w] = "look", TooMany(w)
  PROVE  Cause(w)
  <1>1. /\ left[w] \subseteq Names /\ left[w] # {} /\ names[w] \subseteq Names
        /\ counter[w] \in Nat
    BY WalkerType DEF IInv
  <1>2. Cardinality(left[w]) \in Nat /\ Cardinality(left[w]) >= 1
        /\ Cardinality(names[w]) \in Nat
    BY <1>1, NameSizes
  <1>3. counter[w] + Cardinality(left[w]) = Cardinality(names[w]) + 1
    BY DEF IInv, WalkInv, Counted
  <1>4. counter[w] + 1 > MaxFileNum
    BY DEF TooMany
  <1>5. Cardinality(names[w]) + 1 > MaxFileNum
    BY <1>1, <1>2, <1>3, <1>4, DirectoryAssumption
  <1>6. QED
    BY <1>5 DEF Cause

LEMMA ConsiderKeeps ==
  ASSUME IInv, NEW w \in Walkers, Consider(w)
  PROVE  WalkInv(w)'
  <1> DEFINE n == Name(w)
  <1>1. /\ pc[w] = "look" /\ counter'[w] = counter[w] + 1
        /\ UNCHANGED <<dir, lost, readOnly, names, seen>>
    BY DEF IInv, TypeOK, Consider, files
  <1>2. n \in left[w] /\ left[w] \subseteq names[w] /\ names[w] \subseteq Names
        /\ counter[w] \in Nat
    BY <1>1, WalkerType DEF IInv
  <1>3. CASE Refused(w)
    <2>1. pc'[w] = "failed" /\ UNCHANGED left
      BY <1>3 DEF IInv, TypeOK, Consider, GoTo
    <2>2. Cause(w)
      <3>1. CASE TooMany(w)
        BY <1>1, <3>1, TooManyCause
      <3>2. CASE ~ seen[w]
        BY <1>1, <3>2 DEF IInv, WalkInv, Stands, Cause
      <3>3. CASE n \in Linked
        BY <1>2, <3>3 DEF Cause
      <3>4. QED
        BY <1>3, <3>1, <3>2, <3>3 DEF Refused
    <2>3. QED
      BY <1>1, <2>1, <2>2 DEF IInv, WalkInv, Kept, Counted, Stands, BehindInv, Cause
  <1>4. CASE ~ Refused(w) /\ Own(w)
    <2>1. pc'[w] = "chmod" /\ UNCHANGED left
      BY <1>4 DEF IInv, TypeOK, Consider, GoTo
    <2>2. Cardinality(left[w]) \in Nat /\ Cardinality(names[w]) \in Nat
      BY <1>2, NameSizes
    <2>3. Counted(w)'
      <3>1. counter[w] + Cardinality(left[w]) = Cardinality(names[w]) + 1
        BY <1>1 DEF IInv, WalkInv, Counted
      <3>2. counter[w] + 1 <= MaxFileNum
        BY <1>2, <1>4, DirectoryAssumption DEF Refused, TooMany
      <3>3. QED
        BY <1>1, <1>2, <2>1, <2>2, <3>1, <3>2 DEF Counted
    <2>4. Stands(w)'
      BY <1>4, <2>1 DEF Stands, Refused, Own, Name
    <2>5. QED
      BY <1>1, <2>1, <2>3, <2>4 DEF IInv, WalkInv, Kept, BehindInv, BehindReadOnly
  <1>5. CASE ~ Refused(w) /\ ~ Own(w)
    <2>1. pc'[w] = "visit" /\ left'[w] = left[w] \ {n}
      BY <1>5 DEF IInv, TypeOK, Consider, GoTo, NextName
    <2>2. /\ Cardinality(left[w]) \in Nat /\ Cardinality(names[w]) \in Nat
          /\ Cardinality(left[w] \ {n}) = Cardinality(left[w]) - 1
      BY <1>2, NameSizes
    <2>3. Counted(w)'
      <3>1. counter[w] + Cardinality(left[w]) = Cardinality(names[w]) + 1
        BY <1>1 DEF IInv, WalkInv, Counted
      <3>2. counter[w] + 1 <= MaxFileNum
        BY <1>2, <1>5, DirectoryAssumption DEF Refused, TooMany
      <3>3. QED
        BY <1>1, <1>2, <2>1, <2>2, <3>1, <3>2 DEF Counted
    <2>4. BehindInv(w)'
      BY <1>1, <1>5, <2>1 DEF IInv, WalkInv, BehindInv, BehindReadOnly, Own
    <2>5. QED
      BY <1>1, <2>1, <2>3, <2>4 DEF IInv, WalkInv, Kept, Stands
  <1>6. QED
    BY <1>3, <1>4, <1>5

LEMMA ChmodKeeps ==
  ASSUME IInv, NEW w \in Walkers, Chmod(w)
  PROVE  WalkInv(w)'
  <1> DEFINE n == Name(w)
  <1>1. pc[w] = "chmod" /\ UNCHANGED <<dir, lost, names, seen, counter>>
    BY DEF Chmod
  <1>2. n \in left[w] /\ left[w] \subseteq names[w] /\ names[w] \subseteq Names
        /\ counter[w] \in Nat
    BY <1>1, WalkerType DEF IInv
  <1>3. CASE n \notin dir
    <2>1. pc'[w] = "failed" /\ UNCHANGED <<left, readOnly>>
      BY <1>3 DEF IInv, TypeOK, Chmod, GoTo
    <2>2. n \in lost[w]
      BY <1>2, <1>3 DEF IInv, WalkInv, Kept
    <2>3. QED
      BY <1>1, <2>1, <2>2 DEF IInv, WalkInv, Kept, Counted, Stands, BehindInv, Cause
  <1>4. CASE n \in dir
    <2>1. pc'[w] = "visit" /\ left'[w] = left[w] \ {n} /\ readOnly' = readOnly \cup {n}
      BY <1>4 DEF IInv, TypeOK, Chmod, GoTo, NextName
    <2>2. /\ Cardinality(left[w]) \in Nat /\ Cardinality(names[w]) \in Nat
          /\ Cardinality(left[w] \ {n}) = Cardinality(left[w]) - 1
      BY <1>2, NameSizes
    <2>3. Counted(w)'
      <3>1. counter[w] + Cardinality(left[w]) = Cardinality(names[w]) + 2
            /\ counter[w] <= MaxFileNum
        BY <1>1 DEF IInv, WalkInv, Counted
      <3>2. QED
        BY <1>1, <1>2, <2>1, <2>2, <3>1 DEF Counted
    <2>4. BehindInv(w)'
      <3>1. n \notin Linked
        BY <1>1 DEF IInv, WalkInv, Stands
      <3>2. QED
        BY <1>1, <2>1, <3>1 DEF IInv, WalkInv, BehindInv, BehindReadOnly
    <2>5. QED
      BY <1>1, <2>1, <2>3, <2>4 DEF IInv, WalkInv, Kept, Stands
  <1>5. QED
    BY <1>3, <1>4

LEMMA WalkEndsKeeps ==
  ASSUME IInv, NEW w \in Walkers, WalkEnds(w)
  PROVE  WalkInv(w)'
  <1>1. /\ pc[w] = "visit" /\ pc'[w] = "done" /\ left[w] = {}
        /\ UNCHANGED <<dir, lost, readOnly, left, seen, counter, names>>
    BY DEF IInv, TypeOK, WalkEnds, GoTo, files
  <1>2. QED
    BY <1>1 DEF IInv, WalkInv, Kept, Counted, Stands, BehindInv, BehindReadOnly

-----------------------------------------------------------------------------
(* The invariant and the properties.                                       *)

LEMMA InitInv == Init => IInv
  <1> SUFFICES ASSUME Init PROVE IInv
    OBVIOUS
  <1>1. TypeOK
    BY InitType
  <1>2. ASSUME NEW w \in Walkers PROVE WalkInv(w)
    BY DEF Init, WalkInv, Kept, Counted, Stands, BehindInv, BehindReadOnly
  <1>3. QED
    BY <1>1, <1>2 DEF IInv

LEMMA StepInv == IInv /\ [Next]_vars => IInv'
  <1> SUFFICES ASSUME IInv, [Next]_vars PROVE IInv'
    OBVIOUS
  <1>1. CASE Rotate \/ Prune \/ StrangerGoes \/ StrangerComes
    <2>1. TypeOK'
      BY <1>1, LoggersType DEF IInv
    <2>2. QED
      BY <1>1, <2>1, LoggersKeep DEF IInv
  <1>2. ASSUME NEW w \in Walkers, Walk(w) PROVE IInv'
    <2>1. TypeOK'
      BY <1>2, WalkType
    <2>2. WalkInv(w)'
      BY <1>2, ReadNamesKeeps, LookKeeps, ConsiderKeeps, ChmodKeeps, WalkEndsKeeps DEF Walk
    <2>3. ASSUME NEW v \in Walkers, v # w PROVE WalkInv(v)'
      BY <1>2, <2>3, OthersKeep
    <2>4. QED
      BY <2>1, <2>2, <2>3 DEF IInv
  <1>3. CASE UNCHANGED vars
    BY <1>3 DEF vars, walk, files, IInv, TypeOK, WalkInv, Kept, Counted, Stands, BehindInv,
      BehindReadOnly, Cause, Name
  <1>4. QED
    BY <1>1, <1>2, <1>3 DEF Next

\* The invariant holds in every reachable state.
THEOREM DirectoryInvariance == Spec => []IInv
  BY InitInv, StepInv, PTL DEF Spec

\* Every reachable state is well typed.
THEOREM DirectoryTypeCorrect == Spec => []TypeOK
  <1>1. IInv => TypeOK
    BY DEF IInv
  <1>2. QED
    BY <1>1, DirectoryInvariance, PTL

\* A create command fails in ChangeRuntimeLogMode only for one of the three
\* reasons, however many walks and loggers there are.
THEOREM WalkFailsForACause == Spec => []FailureHasCause
  <1>1. IInv => FailureHasCause
    BY DEF IInv, WalkInv, Cause, FailureHasCause
  <1>2. QED
    BY <1>1, DirectoryInvariance, PTL

\* A walk that ends has made read-only each backup that was there all along.
THEOREM WalkDoneReadOnly == Spec => []DoneReadOnly
  <1>1. IInv => DoneReadOnly
    BY DEF IInv, WalkInv, Stands, BehindInv, BehindReadOnly, DoneReadOnly
  <1>2. QED
    BY <1>1, DirectoryInvariance, PTL
=============================================================================
