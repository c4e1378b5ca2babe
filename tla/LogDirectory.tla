---------------------------- MODULE LogDirectory ----------------------------
(***************************************************************************)
(* The log directory shared by all the programs.                           *)
(*                                                                         *)
(* The last thing ascend-docker-runtime and ascend-docker-hook do before   *)
(* they become runc and the cli is ChangeRuntimeLogMode: it walks the log  *)
(* directory and makes the backups of the program's own log read-only.     *)
(* Meanwhile the logger of any process (the library hwlog, and             *)
(* cli/src/logger.c) renames, creates and removes files there.  A walk     *)
(* that fails ends the create command, after config.json was written.      *)
(***************************************************************************)
EXTENDS Naturals, FiniteSets, FiniteSetsExt

CONSTANTS
  Walkers,      \* processes of one program, on their way to exec
  Backups,      \* the names "runtime-run-<time>"
  Strangers,    \* other names; names are numbers in the order of a listing
  Linked,       \* backups that are symbolic links
  Keep,         \* MaxBackups of the log configuration
  MaxFileNum,   \* maxFileNum
  MaxChanges    \* bound: changes of the directory by the loggers

ASSUME DirectoryAssumption ==
  /\ Backups \subseteq Nat /\ Strangers \subseteq Nat /\ Strangers \cap Backups = {}
  /\ Linked \subseteq Backups
  /\ IsFiniteSet(Backups \cup Strangers)
  /\ Keep \in Nat /\ MaxFileNum \in Nat \ {0} /\ MaxChanges \in Nat

VARIABLES
  dir,        \* the names in the directory
  readOnly,   \* the files whose mode a walk has set
  made,       \* the backups made so far
  pc,         \* where each walk is
  left,       \* the names still to be visited, the least first
  seen,       \* whether lstat found the first of them
  counter,    \* calls of the walk's function
  changes,    \* number of changes
  names,      \* history: the names each walk has read
  lost        \* history: those of them that have gone since

walk == <<pc, left, seen, counter, names>>
files == <<dir, readOnly, made, changes, lost>>
vars == <<walk, files>>

TypeOK ==
  /\ dir \subseteq Strangers \cup Backups
  /\ readOnly \subseteq dir \cap Backups
  /\ made \subseteq Backups
  /\ pc \in [Walkers -> {"start", "visit", "look", "chmod", "done", "failed"}]
  /\ seen \in [Walkers -> BOOLEAN]
  /\ {left, names, lost} \subseteq [Walkers -> SUBSET (Strangers \cup Backups)]
  /\ counter \in [Walkers -> 0 .. MaxFileNum + 1]
  /\ \A w \in Walkers :
       /\ left[w] \subseteq names[w] /\ lost[w] \subseteq names[w]
       /\ pc[w] \in {"look", "chmod"} => left[w] # {}
  /\ changes \in 0 .. MaxChanges

Init ==
  /\ made \in {B \in SUBSET Backups : Cardinality(B) = Keep}
  /\ \A b \in Backups \ made, m \in made : m < b
  /\ dir \in {S \cup B : S \in SUBSET Strangers, B \in SUBSET made}
  /\ readOnly \in SUBSET (dir \cap Backups)
  /\ pc = [w \in Walkers |-> "start"] /\ left = [w \in Walkers |-> {}]
  /\ seen = [w \in Walkers |-> FALSE] /\ counter = [w \in Walkers |-> 0]
  /\ changes = 0
  /\ names = [w \in Walkers |-> {}] /\ lost = [w \in Walkers |-> {}]

-----------------------------------------------------------------------------
(* The loggers.                                                            *)

Change == changes < MaxChanges /\ changes' = changes + 1 /\ UNCHANGED walk

Vanish(name) ==
  /\ dir' = dir \ {name} /\ readOnly' = readOnly \ {name}
  /\ lost' = [w \in Walkers |-> lost[w] \cup ({name} \cap names[w])]

\* hwlog: the log becomes a backup, with the time as its name.
Rotate ==
  /\ Change
  /\ \E b \in Backups \ made :
       /\ \A x \in Backups \ made : b <= x
       /\ made' = made \cup {b} /\ dir' = dir \cup {b}
  /\ UNCHANGED <<readOnly, lost>>

\* hwlog: the oldest backup goes when there are too many.
Prune ==
  /\ Change
  /\ Cardinality(dir \cap Backups) > Keep
  /\ \E b \in dir \cap Backups : (\A x \in dir \cap Backups : b <= x) /\ Vanish(b)
  /\ UNCHANGED made

\* A stranger's file: the cli's unlink of its old log, or its rename and
\* creation of a new one.
StrangerGoes == Change /\ (\E s \in dir \cap Strangers : Vanish(s)) /\ UNCHANGED made
StrangerComes ==
  /\ Change
  /\ \E s \in Strangers \ dir : dir' = dir \cup {s}
  /\ UNCHANGED <<readOnly, made, lost>>

-----------------------------------------------------------------------------
(* ChangeRuntimeLogMode: filepath.Walk and its function.                   *)

GoTo(w, step) == pc' = [pc EXCEPT ![w] = step]

\* The call of the function for the directory itself, after its names have
\* been read.
ReadNames(w) ==
  /\ pc[w] = "start"
  /\ left' = [left EXCEPT ![w] = dir]
  /\ names' = [names EXCEPT ![w] = dir]
  /\ counter' = [counter EXCEPT ![w] = 1]
  /\ GoTo(w, "visit")
  /\ UNCHANGED <<files, seen>>

Name(w) == Min(left[w])

\* lstat of the next name, in lexical order.
Look(w) ==
  /\ pc[w] = "visit" /\ left[w] # {}
  /\ seen' = [seen EXCEPT ![w] = Name(w) \in dir]
  /\ GoTo(w, "look")
  /\ UNCHANGED <<files, left, counter, names>>

NextName(w) == left' = [left EXCEPT ![w] = @ \ {Name(w)}] /\ GoTo(w, "visit")

\* Mutant: the prefix is compared with nothing left of the name.
OwnEvery(w) == TRUE

\* The name has the prefix.
Own(w) == Name(w) \in Backups

\* Mutant: the directory itself is forgotten in the count.
TooManyNames(w) == counter[w] + 1 >= MaxFileNum

TooMany(w) == counter[w] + 1 > MaxFileNum

\* The function gives up: too many calls, an error handed on (for a name of
\* any program), a link with the prefix.
Refused(w) == TooMany(w) \/ ~ seen[w] \/ (Own(w) /\ Name(w) \in Linked)

\* The function, up to chmod.
Consider(w) ==
  /\ pc[w] = "look"
  /\ counter' = [counter EXCEPT ![w] = @ + 1]
  /\ \/ Refused(w) /\ GoTo(w, "failed") /\ UNCHANGED left
     \/ ~ Refused(w) /\ Own(w) /\ GoTo(w, "chmod") /\ UNCHANGED left
     \/ ~ Refused(w) /\ ~ Own(w) /\ NextName(w)
  /\ UNCHANGED <<files, seen, names>>

\* Mutant: a backup that has gone is waited for.
ChmodWaits(w) ==
  /\ pc[w] = "chmod"
  /\ Name(w) \in dir
  /\ NextName(w) /\ readOnly' = readOnly \cup {Name(w)}
  /\ UNCHANGED <<dir, made, changes, lost, seen, counter, names>>

\* Mutant: the mode is only set for files that were there before the last.
ChmodOlder(w) ==
  /\ pc[w] = "chmod"
  /\ NextName(w)
  /\ readOnly' = readOnly \cup {b \in dir \cap {Name(w)} : \E x \in made : x > b}
  /\ UNCHANGED <<dir, made, changes, lost, seen, counter, names>>

Chmod(w) ==
  /\ pc[w] = "chmod"
  /\ \/ Name(w) \in dir /\ NextName(w) /\ readOnly' = readOnly \cup {Name(w)}
     \/ Name(w) \notin dir /\ GoTo(w, "failed") /\ UNCHANGED <<left, readOnly>>
  /\ UNCHANGED <<dir, made, changes, lost, seen, counter, names>>

\* All names have been visited: the program execs.
WalkEnds(w) ==
  /\ pc[w] = "visit" /\ left[w] = {}
  /\ GoTo(w, "done")
  /\ UNCHANGED <<files, left, seen, counter, names>>

Walk(w) == ReadNames(w) \/ Look(w) \/ Consider(w) \/ Chmod(w) \/ WalkEnds(w)

Next ==
  \/ \E w \in Walkers : Walk(w)
  \/ Rotate \/ Prune \/ StrangerGoes \/ StrangerComes

Spec == Init /\ [][Next]_vars

\* A process that can go on does; no logger has to do anything.
FairSpec == Spec /\ \A w \in Walkers : WF_vars(Walk(w))

-----------------------------------------------------------------------------
(* Properties.                                                             *)

\* A create command fails here only if a name that was in the directory when
\* its walk began has gone since, or there were more names than the code
\* expects, or a backup was a link.  Names that come meanwhile, and another
\* walk over the same files, do no harm.
FailureHasCause ==
  \A w \in Walkers : pc[w] = "failed" =>
    \/ lost[w] # {}
    \/ Cardinality(names[w]) + 1 > MaxFileNum
    \/ names[w] \cap Linked # {}

\* A walk that ends has set the mode of each backup that was there when it
\* began and still is, whichever were made, removed or visited by another
\* walk in between; and it has followed no link.
DoneReadOnly ==
  \A w \in Walkers : pc[w] = "done" =>
    (names[w] \cap Backups) \ lost[w] \subseteq readOnly \ Linked

\* A walk ends, whatever the loggers do: it goes by the names it has read.
WalksEnd == \A w \in Walkers : <>(pc[w] \in {"done", "failed"})
=============================================================================
