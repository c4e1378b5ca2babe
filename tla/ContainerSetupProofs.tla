------------------------ MODULE ContainerSetupProofs ------------------------
(***************************************************************************)
(* Proofs about ContainerSetup for any paths, lists, requests and bounds.  *)
(*                                                                         *)
(* IInv says what the process has done by each step: HookInv what is on    *)
(* the command line, ParseInv what the cli has checked of it, MountInv     *)
(* what it has mounted.  One lemma per group of steps shows that IInv is   *)
(* kept: FailStep for every way to end early, HookStep and ReadStep for    *)
(* the hook, ParseStep, QuietStep, BindStep and RemountStep for the cli,   *)
(* ChangeStep for the host.  ReadStep and QuietStep take the failures that *)
(* nobody notices along with the steps they happen in.                     *)
(***************************************************************************)
EXTENDS ContainerSetup, TLAPS

(* The cli's argument list is a sequence of paths as long as both lists.    *)
LEMMA ArgsFacts ==
  ASSUME TypeOK
  PROVE  /\ Args \in Seq(Paths)
         /\ Len(Args) = Len(files) + Len(dirs)
         /\ Len(Args) \in Nat
         /\ DOMAIN Args = 1..Len(Args)
         /\ \A i \in DOMAIN Args : Args[i] \in Paths
BY DEF TypeOK, Args

Elements(s) == {s[i] : i \in DOMAIN s}

(* What two lists joined contain.                                           *)
LEMMA JoinedElements ==
  ASSUME NEW f \in Seq(Paths), NEW d \in Seq(Paths)
  PROVE  Elements(f \o d) = Elements(f) \cup Elements(d)
<1> DEFINE fd == f \o d
<1>1. ASSUME NEW i \in DOMAIN fd
      PROVE  \/ i \in DOMAIN f /\ fd[i] = f[i]
             \/ i - Len(f) \in DOMAIN d /\ fd[i] = d[i - Len(f)]
  OBVIOUS
<1>2. ASSUME NEW i \in DOMAIN f PROVE i \in DOMAIN fd /\ fd[i] = f[i]
  OBVIOUS
<1>3. ASSUME NEW i \in DOMAIN d
      PROVE  i + Len(f) \in DOMAIN fd /\ fd[i + Len(f)] = d[i]
  OBVIOUS
<1> HIDE DEF fd
<1>4. ASSUME NEW i \in DOMAIN fd PROVE fd[i] \in Elements(f) \cup Elements(d)
  BY <1>1 DEF Elements
<1>5. ASSUME NEW i \in DOMAIN f PROVE f[i] \in Elements(fd)
  BY <1>2 DEF Elements
<1>6. ASSUME NEW i \in DOMAIN d PROVE d[i] \in Elements(fd)
  BY <1>3 DEF Elements
<1>7. Elements(fd) = Elements(f) \cup Elements(d)
  BY <1>4, <1>5, <1>6 DEF Elements
<1> QED BY <1>7 DEF fd

(* What a list with a path appended contains.                               *)
LEMMA AppendedElements ==
  ASSUME NEW f \in Seq(Paths), NEW p \in Paths
  PROVE  Elements(Append(f, p)) = Elements(f) \cup {p}
<1>1. \A i \in DOMAIN f : i \in DOMAIN Append(f, p) /\ Append(f, p)[i] = f[i]
  OBVIOUS
<1>2. Len(f) + 1 \in DOMAIN Append(f, p) /\ Append(f, p)[Len(f) + 1] = p
  OBVIOUS
<1>3. \A i \in DOMAIN Append(f, p) : i \in DOMAIN f \/ i = Len(f) + 1
  OBVIOUS
<1> QED BY <1>1, <1>2, <1>3 DEF Elements

(* The initial states satisfy the inductive invariant.                      *)
THEOREM SetupInit == Init => IInv
<1> SUFFICES ASSUME Init PROVE IInv
  OBVIOUS
<1> USE DEF Init, HookSteps, CliSteps, Ends, Namespaces, MountStates
<1>1. TypeOK
  <2>1. files \in Seq(Paths) /\ dirs \in Seq(Paths)
    OBVIOUS
  <2>2. mounts \in [Namespaces -> [Paths -> MountStates]]
    OBVIOUS
  <2>3. point \in [Paths -> {"none", "file", "dir"}] /\ host \in [Paths -> Kinds]
    BY SetupAssumption
  <2> QED BY <2>1, <2>2, <2>3 DEF TypeOK
<1>2. DOMAIN Args = {}
  BY DEF Args
<1>3. HookInv
  BY <1>2 DEF HookInv
<1>4. ParseInv /\ MountInv
  BY <1>2 DEF ParseInv, MountInv, Mounting
<1>5. StartedReadOnly /\ StartedComplete /\ MountsJustified /\ StableVetted
  BY DEF StartedReadOnly, StartedComplete, MountsJustified, StableVetted
<1> QED BY <1>1, <1>3, <1>4, <1>5 DEF IInv

(* What a step that leaves the arguments, the request and the host alone    *)
(* cannot change; what it loses stays lost.                                 *)
LEMMA Unmoved ==
  ASSUME UNCHANGED <<request, files, dirs, host, gone, moved>>,
         missed \subseteq missed'
  PROVE  /\ Args' = Args /\ Listed' = Listed /\ NoDrv' = NoDrv
         /\ \A i : IsFileArg(i)' = IsFileArg(i)
         /\ \A k : Legal(k)' = Legal(k) /\ SourceOk(k)' = SourceOk(k)
         /\ AllowLink' = AllowLink
         /\ Lost \subseteq Lost'
         /\ \A p : Taken(p) => Taken(p)'
         /\ \A name : ListTaken(name) => ListTaken(name)'
<1>1. Args' = Args /\ AllowLink' = AllowLink /\ NoDrv' = NoDrv /\ Listed' = Listed
  BY DEF Args, AllowLink, NoDrv, Listed
<1>2. Lost \subseteq Lost'
  BY DEF Lost
<1>3. \A p : Taken(p) => Taken(p)'
  BY <1>1, <1>2 DEF Taken
<1>4. \A name : ListTaken(name) => ListTaken(name)'
  BY <1>3 DEF ListTaken
<1>5. /\ \A i : IsFileArg(i)' = IsFileArg(i)
      /\ \A k : Legal(k)' = Legal(k) /\ SourceOk(k)' = SourceOk(k)
  BY <1>1 DEF IsFileArg, Legal, SourceOk
<1> QED BY <1>1, <1>2, <1>3, <1>4, <1>5

(* A process that gives up has nothing more to keep but what it mounted.    *)
LEMMA FailStep == ASSUME IInv, Fail PROVE IInv'
<1> USE DEF Fail, Goto, paths
<1>1. TypeOK'
  BY DEF IInv, TypeOK, CliSteps, Ends
<1>2. /\ Args' = Args /\ Listed' = Listed /\ NoDrv' = NoDrv /\ AllowLink' = AllowLink
  BY Unmoved
<1>3. HookInv'
  BY <1>2 DEF IInv, HookInv, HookSteps, CliSteps
<1>4. ParseInv'
  BY <1>2 DEF IInv, ParseInv, CliSteps
<1>5. MountInv'
  BY <1>2 DEF IInv, MountInv, Mounting, HookSteps
<1>6. StartedReadOnly' /\ StartedComplete' /\ MountsJustified' /\ StableVetted'
  BY <1>2 DEF IInv, StartedReadOnly, StartedComplete, MountsJustified, StableVetted
<1> QED BY <1>1, <1>3, <1>4, <1>5, <1>6 DEF IInv

(* What a request names, and the list it is reading.                        *)
LEMMA RequestFacts ==
  ASSUME TypeOK
  PROVE  /\ request.visible \in BOOLEAN
         /\ Len(request.lists) \in Nat
         /\ DOMAIN request.lists = 1..Len(request.lists)
         /\ ListKnown =>
              /\ Lines \in Seq(Paths)
              /\ Len(Lines) \in Nat
              /\ DOMAIN Lines = 1..Len(Lines)
<1>1. request \in Request
  BY SetupAssumption DEF TypeOK
<1>2. request.lists \in Seq(STRING) /\ request.visible \in BOOLEAN
  BY <1>1 DEF Request
<1>3. ListKnown => Lines \in Seq(Paths)
  BY SetupAssumption DEF ListKnown, Lines
<1> QED BY <1>2, <1>3

(* The hook's steps but the reading of a line: nothing is mounted yet.      *)
LEMMA HookStep ==
  ASSUME IInv, ReadConfig \/ NextList \/ ListsRead \/ ExecCli
  PROVE  IInv'
<1> USE DEF Goto, paths
<1>1. /\ UNCHANGED <<request, files, dirs, host, gone, moved, missed, changes, n, ns, point, mounts, unseen>>
      /\ pc \in HookSteps
      /\ pc' \in {"lists", "options", "parse", "started"}
      /\ pc' = "started" => ~ request.visible
      /\ request.visible' = request.visible
      /\ list' \in Nat /\ entry' \in Nat
  BY DEF ReadConfig, NextList, ListsRead, ExecCli, IInv, TypeOK, HookSteps
<1>2. /\ Args' = Args /\ Listed' = Listed /\ NoDrv' = NoDrv /\ AllowLink' = AllowLink
      /\ \A p : Taken(p) => Taken(p)'
      /\ \A name : ListTaken(name) => ListTaken(name)'
  BY <1>1, Unmoved
<1>3. TypeOK'
  BY <1>1 DEF IInv, TypeOK, CliSteps, Ends, HookSteps
<1>0. ListKnown' => DOMAIN Lines' = 1..Len(Lines')
  <2>1. ListKnown' => Lines' \in Seq(Paths)
    BY SetupAssumption DEF ListKnown, Lines
  <2> QED BY <2>1
<1>4. HookInv'
  <2>1. CASE ReadConfig
    <3>1. pc = "config" /\ list' = 1 /\ entry' = 1 /\ pc' = IF request.visible THEN "lists" ELSE "started"
      BY <2>1 DEF ReadConfig, IInv, HookInv
    <3>2. \A i \in DOMAIN request.lists : ~ (i < 1)
      BY RequestFacts DEF IInv
    <3>3. ListKnown' => \A j \in DOMAIN Lines' : ~ (j < 1)
      BY <1>0
    <3> QED BY <1>1, <1>2, <3>1, <3>2, <3>3 DEF IInv, HookInv, HookSteps, CliSteps
  <2>2. CASE NextList
    <3>1. /\ pc = "lists" /\ pc' = "lists" /\ ListKnown /\ entry = Len(Lines) + 1
          /\ list' = list + 1 /\ entry' = 1 /\ list \in Nat
      BY <2>2 DEF NextList, IInv, TypeOK
    <3>2. ListTaken(request.lists[list])
      <4>1. \A j \in DOMAIN Lines : j < entry
        BY <3>1, RequestFacts DEF IInv
      <4>2. \A j \in DOMAIN Lines : Taken(Lines[j])
        BY <3>1, <4>1 DEF IInv, HookInv
      <4> QED BY <3>1, <4>2 DEF ListTaken, ListKnown, Lines
    <3>3. \A i \in DOMAIN request.lists : i < list + 1 => i < list \/ i = list
      BY <3>1, RequestFacts DEF IInv
    <3>4. \A i \in DOMAIN request.lists : i < list + 1 => ListTaken(request.lists[i])
      BY <3>1, <3>2, <3>3 DEF IInv, HookInv
    <3>5. ListKnown' => \A j \in DOMAIN Lines' : ~ (j < 1)
      BY <1>0
    <3>6. list >= 1 /\ request.visible
      BY <3>1 DEF IInv, HookInv
    <3> QED BY <1>1, <1>2, <3>1, <3>4, <3>5, <3>6 DEF IInv, HookInv, HookSteps, CliSteps
  <2>3. CASE ListsRead
    <3>1. pc = "lists" /\ pc' = "options" /\ list > Len(request.lists)
      BY <2>3 DEF ListsRead
    <3>2. \A i \in DOMAIN request.lists : i < list
      BY <3>1, RequestFacts DEF IInv, TypeOK
    <3> QED BY <1>1, <1>2, <3>1, <3>2 DEF IInv, HookInv, HookSteps, CliSteps
  <2>4. CASE ExecCli
    BY <1>1, <1>2, <2>4 DEF IInv, HookInv, ExecCli, HookSteps, CliSteps
  <2> QED BY <2>1, <2>2, <2>3, <2>4
<1>5. ParseInv'
  <2>1. n = 1 /\ Len(Args) \in Nat /\ DOMAIN Args = 1..Len(Args)
    BY <1>1, ArgsFacts DEF IInv, HookInv
  <2>2. pc' \in CliSteps => pc' = "parse"
    BY <1>1 DEF CliSteps
  <2>3. \A i \in DOMAIN Args : ~ (i < 1)
    BY <2>1
  <2> QED BY <1>1, <1>2, <2>1, <2>2, <2>3 DEF ParseInv
<1>6. MountInv'
  BY <1>1, <1>2 DEF IInv, MountInv, Mounting, HookSteps, CliSteps
<1>7. StartedReadOnly' /\ StartedComplete' /\ MountsJustified' /\ StableVetted'
  BY <1>1, <1>2 DEF IInv, MountInv, HookSteps, Namespaces,
     StartedReadOnly, StartedComplete, MountsJustified, StableVetted
<1> QED BY <1>3, <1>4, <1>5, <1>6, <1>7 DEF IInv

(* What the command line contains after a path was taken.                   *)
LEMMA TakeFacts ==
  ASSUME TypeOK, NEW p \in Paths, Take(p)
  PROVE  /\ files' \in Seq(Paths) /\ dirs' \in Seq(Paths)
         /\ Elements(Args') = Elements(Args) \cup (IF Mountable(host[p]) THEN {p} ELSE {})
<1>1. /\ files' = IF IsFile(host[p]) THEN Append(files, p) ELSE files
      /\ dirs' = IF IsDir(host[p]) THEN Append(dirs, p) ELSE dirs
      /\ files \in Seq(Paths) /\ dirs \in Seq(Paths)
  BY DEF Take, TypeOK
<1>2. files' \in Seq(Paths) /\ dirs' \in Seq(Paths)
  BY <1>1
<1>3. Elements(Args) = Elements(files) \cup Elements(dirs)
  BY <1>1, JoinedElements DEF Args
<1>4. Elements(Args') = Elements(files') \cup Elements(dirs')
  BY <1>2, JoinedElements DEF Args
<1>5. /\ Elements(Append(files, p)) = Elements(files) \cup {p}
      /\ Elements(Append(dirs, p)) = Elements(dirs) \cup {p}
  BY <1>1, AppendedElements
<1>6. /\ Elements(files') = Elements(files) \cup (IF IsFile(host[p]) THEN {p} ELSE {})
      /\ Elements(dirs') = Elements(dirs) \cup (IF IsDir(host[p]) THEN {p} ELSE {})
  BY <1>1, <1>5
<1> QED BY <1>2, <1>3, <1>4, <1>6 DEF Mountable

(* What is taken is lost or on the command line.                            *)
Seen == Lost \cup Elements(Args)

LEMMA TakenIff ==
  /\ \A q : Taken(q) <=> q \in Seen
  /\ \A q : Taken(q)' <=> q \in Seen'
BY DEF Taken, Elements, Seen

(* The hook reads lines: each one it passes is on the command line, or lost.*)
LEMMA ReadStep ==
  ASSUME IInv, HasEntry, pc' = "lists",
         UNCHANGED <<request, host, gone, moved, n, ns, point, mounts, unseen>>,
         missed \subseteq missed', missed' \subseteq Paths, changes' \in Nat,
         files' \in Seq(Paths), dirs' \in Seq(Paths),
         Elements(Args) \subseteq Elements(Args'),
         \A q \in Elements(Args') \ Elements(Args) :
            q \in Listed \cup (Paths \ WhiteList) /\ Mountable(host[q]),
         \/ list' = list /\ entry' = entry + 1 /\ Lines[entry] \in Seen'
         \/ list' = list + 1 /\ entry' = 1 /\ \A j \in DOMAIN Lines : j >= entry => Lines[j] \in Seen'
  PROVE  IInv'
<1>1. /\ pc = "lists" /\ ListKnown
      /\ list \in Nat /\ list >= 1 /\ entry \in Nat /\ entry >= 1
      /\ list' \in Nat /\ entry' \in Nat /\ list' >= 1 /\ entry' >= 1
      /\ n = 1 /\ request.visible
  BY DEF HasEntry, IInv, TypeOK, HookInv, HookSteps
<1>2. Lines \in Seq(Paths) /\ DOMAIN Lines = 1..Len(Lines) /\ Len(Lines) \in Nat
      /\ DOMAIN request.lists = 1..Len(request.lists)
  BY <1>1, RequestFacts DEF IInv
<1>3. Listed' = Listed /\ NoDrv' = NoDrv /\ AllowLink' = AllowLink
      /\ (list' = list => ListKnown' = ListKnown /\ Lines' = Lines)
  BY DEF Listed, NoDrv, AllowLink, ListKnown, Lines
<1>4. \A q : Taken(q) => Taken(q)'
  <2>1. Lost \subseteq Lost'
    BY DEF Lost
  <2>2. Seen \subseteq Seen'
    BY <2>1 DEF Seen
  <2> QED BY <2>2, TakenIff
<1>5. \A name : ListTaken(name) => ListTaken(name)'
  BY <1>4 DEF ListTaken
<1>6. TypeOK'
  BY <1>1 DEF IInv, TypeOK, CliSteps, HookSteps
<1>7. HookInv'
  <2>1. \A q \in Paths : ~ Mountable(host'[q]) => q \in gone'
    BY DEF IInv, HookInv
  <2>2. \A i \in DOMAIN Args' :
          /\ Args'[i] \in Listed \cup (Paths \ WhiteList)
          /\ Args'[i] \notin moved => Mountable(host[Args'[i]])
    <3>1. \A q \in Elements(Args) :
            /\ q \in Listed \cup (Paths \ WhiteList)
            /\ q \notin moved => Mountable(host[q])
      BY DEF IInv, HookInv, Elements
    <3>2. \A q \in Elements(Args') :
            /\ q \in Listed \cup (Paths \ WhiteList)
            /\ q \notin moved => Mountable(host[q])
      BY <3>1
    <3> QED BY <3>2 DEF Elements
  <2>3. \A j \in DOMAIN Lines : j < entry => Lines[j] \in Seen'
    <3>1. \A j \in DOMAIN Lines : j < entry => Taken(Lines[j])
      BY <1>1 DEF IInv, HookInv
    <3> QED BY <1>4, <3>1, TakenIff
  <2>4. ASSUME NEW i \in DOMAIN request.lists, i < list, NEW name, name = request.lists[i]
        PROVE  ListTaken(name)'
    BY <1>1, <1>5, <2>4 DEF IInv, HookInv
  <2>5. CASE list' = list /\ entry' = entry + 1 /\ Lines[entry] \in Seen'
    <3>1. \A j \in DOMAIN Lines : j < entry + 1 => j < entry \/ j = entry
      BY <1>1, <1>2
    <3>2. \A j \in DOMAIN Lines : j < entry + 1 => Lines[j] \in Seen'
      BY <2>3, <2>5, <3>1
    <3>3. (\A j \in DOMAIN Lines : j < entry => Taken(Lines[j]))'
      BY <1>3, <2>5, <3>2, TakenIff
    <3>4. (\A i \in DOMAIN request.lists : i < list => ListTaken(request.lists[i]))'
      BY <2>4, <2>5
    <3> QED BY <1>1, <1>3, <2>1, <2>2, <2>5, <3>3, <3>4 DEF HookInv, HookSteps, CliSteps
  <2>6. CASE list' = list + 1 /\ entry' = 1 /\ \A j \in DOMAIN Lines : j >= entry => Lines[j] \in Seen'
    <3>1. \A j \in DOMAIN Lines : j < entry \/ j >= entry
      BY <1>1, <1>2
    <3>2. ASSUME NEW name, name = request.lists[list] PROVE ListTaken(name)'
      <4>1. \A j \in DOMAIN Lines : Lines[j] \in Seen'
        BY <2>3, <2>6, <3>1
      <4>2. name \in DOMAIN ListOf /\ \A j \in DOMAIN ListOf[name] : ListOf[name][j] \in Seen'
        BY <1>1, <3>2, <4>1 DEF ListKnown, Lines
      <4> QED BY <4>2, TakenIff DEF ListTaken
    <3>3. \A i \in DOMAIN request.lists : i < list + 1 => i < list \/ i = list
      BY <1>1, <1>2
    <3>4. (\A i \in DOMAIN request.lists : i < list => ListTaken(request.lists[i]))'
      BY <2>4, <2>6, <3>2, <3>3
    <3>5. ListKnown' => DOMAIN Lines' = 1..Len(Lines') /\ Len(Lines') \in Nat
      <4>1. ListKnown' => Lines' \in Seq(Paths)
        BY SetupAssumption DEF ListKnown, Lines
      <4> QED BY <4>1
    <3>6. ListKnown' => \A j \in DOMAIN Lines' : ~ (j < 1)
      BY <3>5
    <3> QED BY <1>1, <1>3, <2>1, <2>2, <2>6, <3>4, <3>6 DEF HookInv, HookSteps, CliSteps
  <2> QED BY <2>5, <2>6
<1>8. ParseInv' /\ MountInv'
  BY <1>1, <1>3 DEF IInv, ParseInv, MountInv, CliSteps, Mounting, HookSteps
<1>9. StartedReadOnly' /\ StartedComplete' /\ MountsJustified' /\ StableVetted'
  BY <1>1, <1>3 DEF IInv, MountInv, HookSteps,
     StartedReadOnly, StartedComplete, MountsJustified, StableVetted
<1> QED BY <1>6, <1>7, <1>8, <1>9 DEF IInv

(* The three ways to read: a line, a line whose stat fails, the end of the  *)
(* scan before that of the file.                                            *)
LEMMA TakeStep ==
  ASSUME IInv, TakeEntry \/ EntryMissed \/ ScanStops
  PROVE  IInv'
<1>1. /\ HasEntry /\ pc = "lists" /\ TypeOK /\ ListKnown
      /\ UNCHANGED <<pc, request, host, gone, moved, n, ns, point, mounts, unseen>>
  BY DEF TakeEntry, EntryMissed, ScanStops, HasEntry, Goto, Miss, paths, IInv
<1>2. /\ Lines \in Seq(Paths) /\ DOMAIN Lines = 1..Len(Lines) /\ Len(Lines) \in Nat
      /\ entry \in Nat /\ entry >= 1 /\ entry \in DOMAIN Lines
      /\ \A j \in DOMAIN Lines : Lines[j] \in Paths
      /\ files \in Seq(Paths) /\ dirs \in Seq(Paths)
      /\ missed \subseteq Paths /\ changes \in Nat
  BY <1>1, RequestFacts DEF HasEntry, IInv, TypeOK, HookInv
<1>3. \A j \in DOMAIN Lines : Lines[j] \in Listed
  <2>1. list \in DOMAIN request.lists /\ request.lists[list] \in DOMAIN ListOf
    BY <1>1, RequestFacts DEF IInv, TypeOK, HookInv, ListKnown
  <2> QED BY <2>1 DEF Listed, Lines
<1>4. CASE TakeEntry
  <2> DEFINE p == Lines[entry]
  <2>1. /\ Take(p) /\ UNCHANGED <<missed, changes, list>> /\ entry' = entry + 1
        /\ p \in Paths /\ p \in Listed
    BY <1>2, <1>3, <1>4 DEF TakeEntry, Goto, paths
  <2> HIDE DEF p
  <2>2. /\ files' \in Seq(Paths) /\ dirs' \in Seq(Paths)
        /\ Elements(Args') = Elements(Args) \cup (IF Mountable(host[p]) THEN {p} ELSE {})
    BY <1>1, <2>1, TakeFacts
  <2>3. Mountable(host[p]) => p \in Elements(Args')
    BY <2>2
  <2>4. Lines[entry] \in Seen'
    <3>1. ~ Mountable(host[p]) => p \in Lost'
      BY <1>1, <2>1 DEF IInv, HookInv, Lost
    <3> QED BY <2>3, <3>1 DEF Seen, p
  <2>5. \A q \in Elements(Args') \ Elements(Args) :
          q \in Listed \cup (Paths \ WhiteList) /\ Mountable(host[q])
    BY <2>1, <2>2
  <2> QED BY <1>1, <1>2, <2>1, <2>2, <2>4, <2>5, ReadStep
<1>5. CASE EntryMissed
  <2>1. /\ UNCHANGED <<files, dirs, list>> /\ entry' = entry + 1
        /\ missed' = missed \cup {Lines[entry]} /\ changes' = changes + 1
    BY <1>5 DEF EntryMissed, Miss
  <2>2. Args' = Args
    BY <2>1 DEF Args
  <2>4. Lines[entry] \in Seen'
    BY <2>1 DEF Seen, Lost
  <2> QED BY <1>1, <1>2, <2>1, <2>2, <2>4, ReadStep
<1>6. CASE ScanStops
  <2>1. /\ list' = list + 1 /\ entry' = 1 /\ changes' = changes + 1
        /\ missed' = missed \cup {Lines[j] : j \in entry..Len(Lines)}
        /\ \/ UNCHANGED <<files, dirs>>
           \/ \E p \in Paths \ WhiteList : Take(p)
    BY <1>6 DEF ScanStops, Miss
  <2>3. \A j \in DOMAIN Lines : j >= entry => Lines[j] \in Seen'
    BY <1>2, <2>1 DEF Seen, Lost
  <2>4. missed \subseteq missed' /\ missed' \subseteq Paths /\ changes' \in Nat
    BY <1>2, <2>1
  <2>5. CASE UNCHANGED <<files, dirs>>
    <3>1. Args' = Args
      BY <2>5 DEF Args
    <3> QED BY <1>1, <1>2, <2>1, <2>3, <2>4, <2>5, <3>1, ReadStep
  <2>6. ASSUME NEW p \in Paths \ WhiteList, Take(p) PROVE IInv'
    <3>1. /\ files' \in Seq(Paths) /\ dirs' \in Seq(Paths)
          /\ Elements(Args') = Elements(Args) \cup (IF Mountable(host[p]) THEN {p} ELSE {})
      BY <1>1, <2>6, TakeFacts
    <3>2. \A q \in Elements(Args') \ Elements(Args) :
            q \in Listed \cup (Paths \ WhiteList) /\ Mountable(host[q])
      BY <3>1
    <3> QED BY <1>1, <1>2, <2>1, <2>3, <2>4, <3>1, <3>2, ReadStep
  <2> QED BY <2>1, <2>5, <2>6
<1> QED BY <1>4, <1>5, <1>6

(* What every step of the cli leaves alone, and what it needs.              *)
LEMMA CliFrame ==
  ASSUME IInv, pc \in CliSteps,
         UNCHANGED <<request, host, gone, moved, list, entry, files, dirs>>,
         missed \subseteq missed',
         pc' \in (CliSteps \ {"parse"}) \cup {"started"} \/ (pc' = "parse" /\ pc = "parse")
  PROVE  /\ Args' = Args /\ Listed' = Listed /\ NoDrv' = NoDrv /\ AllowLink' = AllowLink
         /\ \A i : IsFileArg(i)' = IsFileArg(i)
         /\ \A k : Legal(k)' = Legal(k) /\ SourceOk(k)' = SourceOk(k)
         /\ Lost \subseteq Lost'
         /\ n' = n => Src' = Src
         /\ Len(Args) \in Nat /\ Len(Args) = Len(files) + Len(dirs)
         /\ DOMAIN Args = 1..Len(Args)
         /\ n \in Nat /\ n >= 1
         /\ n <= Len(Args) => n \in DOMAIN Args /\ Src \in Paths /\ Src = Args[n]
         /\ HookInv'
<1>1. /\ Args' = Args /\ Listed' = Listed /\ NoDrv' = NoDrv /\ AllowLink' = AllowLink
      /\ \A i : IsFileArg(i)' = IsFileArg(i)
      /\ \A k : Legal(k)' = Legal(k) /\ SourceOk(k)' = SourceOk(k)
      /\ Lost \subseteq Lost'
      /\ \A p : Taken(p) => Taken(p)'
      /\ \A name : ListTaken(name) => ListTaken(name)'
  BY Unmoved
<1>2. /\ Len(Args) \in Nat /\ Len(Args) = Len(files) + Len(dirs)
      /\ DOMAIN Args = 1..Len(Args)
      /\ \A i \in DOMAIN Args : Args[i] \in Paths
      /\ n \in Nat /\ n >= 1
  BY ArgsFacts DEF IInv, ParseInv, TypeOK
<1>3. HookInv'
  BY <1>1 DEF IInv, HookInv, HookSteps, CliSteps
<1>4. n' = n => Src' = Src
  BY <1>1 DEF Src
<1>5. n <= Len(Args) => n \in DOMAIN Args /\ Src \in Paths /\ Src = Args[n]
  BY <1>2 DEF Src
<1> QED BY <1>1, <1>2, <1>3, <1>4, <1>5

(* The cli checks its command line: what it has accepted is white-listed,   *)
(* within the arrays and, if the path stays as it is, no link.              *)
LEMMA ParseStep == ASSUME IInv, ParseMount \/ ParseOptions PROVE IInv'
<1> USE DEF Goto, paths
<1>1. /\ UNCHANGED <<request, host, gone, moved, missed, changes, list, entry, files, dirs, ns, point, mounts, unseen>>
      /\ pc = "parse" /\ pc' \in {"parse", "enter"}
      /\ n' \in Nat
      /\ \/ pc' = "parse" /\ n <= Len(Args) /\ Accepted(n) /\ n' = n + 1
         \/ pc' = "enter" /\ n = Len(Args) + 1 /\ n' = 1
  BY DEF ParseMount, ParseOptions, IInv, TypeOK
<1>2. /\ Args' = Args /\ Listed' = Listed /\ NoDrv' = NoDrv /\ AllowLink' = AllowLink
      /\ \A i : IsFileArg(i)' = IsFileArg(i)
      /\ \A k : Legal(k)' = Legal(k)
      /\ Len(Args) \in Nat /\ Len(Args) = Len(files) + Len(dirs)
      /\ DOMAIN Args = 1..Len(Args)
      /\ n \in Nat /\ n >= 1
      /\ HookInv'
  BY <1>1, CliFrame DEF CliSteps
<1> DEFINE Vetted(i) == /\ Args[i] \in WhiteList
                        /\ IF IsFileArg(i) THEN i <= MaxMounts ELSE i - Len(files) <= MaxMounts
                        /\ Args[i] \notin moved => Legal(host[Args[i]])
<1>3. \A i \in DOMAIN Args : i < n => Vetted(i)
  BY <1>1 DEF IInv, ParseInv
<1>4. \A i \in DOMAIN Args : i < n' \/ pc' = "enter" => Vetted(i)
  <2>1. CASE n <= Len(Args) /\ Accepted(n) /\ n' = n + 1 /\ pc' = "parse"
    <3>1. Vetted(n)
      BY <2>1 DEF Accepted
    <3>2. \A i \in DOMAIN Args : i < n' => i < n \/ i = n
      BY <1>2, <2>1
    <3> HIDE DEF Vetted
    <3> QED BY <1>3, <2>1, <3>1, <3>2
  <2>2. CASE n = Len(Args) + 1 /\ n' = 1
    <3>1. \A i \in DOMAIN Args : i < n
      BY <1>2, <2>2
    <3> QED BY <1>3, <3>1
  <2> QED BY <1>1, <2>1, <2>2
<1>5. ParseInv'
  BY <1>1, <1>2, <1>4 DEF ParseInv, CliSteps
<1>6. TypeOK'
  <2>1. /\ files \in Seq(Paths) /\ dirs \in Seq(Paths)
        /\ Len(files) \in Nat /\ Len(dirs) \in Nat /\ MaxMounts \in Nat
    BY SetupAssumption DEF IInv, TypeOK
  <2>2. ASSUME pc' = "enter" PROVE Len(files) <= MaxMounts /\ Len(dirs) <= MaxMounts
    <3>1. Len(files) # 0 => Vetted(Len(files)) /\ IsFileArg(Len(files))
      BY <1>2, <1>4, <2>1, <2>2 DEF IsFileArg
    <3>2. Len(dirs) # 0 => Vetted(Len(Args)) /\ ~ IsFileArg(Len(Args))
      BY <1>2, <1>4, <2>1, <2>2 DEF IsFileArg
    <3> QED BY <1>2, <2>1, <3>1, <3>2
  <2> QED BY <1>1, <2>1, <2>2 DEF IInv, TypeOK, CliSteps, HookSteps, Ends
<1> HIDE DEF Vetted
<1>7. MountInv'
  BY <1>1, <1>2 DEF IInv, MountInv, Mounting, HookSteps
<1>8. StartedReadOnly' /\ StartedComplete' /\ MountsJustified' /\ StableVetted'
  BY <1>1, <1>2 DEF IInv, StartedReadOnly, StartedComplete, MountsJustified, StableVetted
<1> QED BY <1>2, <1>5, <1>6, <1>7, <1>8 DEF IInv

(* The steps of the cli between two mounts: what is mounted stays, and a    *)
(* path is skipped only because it is missing or cannot be looked at.       *)
LEMMA QuietStep ==
  ASSUME IInv,
         \/ EnterNs \/ StatSource \/ AllMounted \/ MakePoint \/ CheckSource \/ LeaveNs
         \/ SourceMissed \/ CheckMissed
  PROVE  IInv'
<1> USE DEF Goto, paths
<1>1. /\ UNCHANGED <<request, host, gone, moved, list, entry, files, dirs, mounts>>
      /\ pc \in CliSteps \ {"parse"} /\ pc' \in (CliSteps \ {"parse"}) \cup {"started"}
      /\ pc' \notin {"enter", "remount"}
      /\ n' \in Nat /\ n' >= 1
      /\ missed \subseteq missed' /\ changes' \in Nat
  BY DEF EnterNs, StatSource, AllMounted, MakePoint, CheckSource, LeaveNs, EnterNsByPath, EnterNsByFd,
         SourceMissed, CheckMissed, Miss, CliSteps, IInv, TypeOK, ParseInv
<1>2. /\ Args' = Args /\ Listed' = Listed /\ NoDrv' = NoDrv /\ AllowLink' = AllowLink
      /\ \A i : IsFileArg(i)' = IsFileArg(i)
      /\ \A k : Legal(k)' = Legal(k) /\ SourceOk(k)' = SourceOk(k)
      /\ Lost \subseteq Lost'
      /\ n' = n => Src' = Src
      /\ Len(Args) \in Nat
      /\ DOMAIN Args = 1..Len(Args)
      /\ n \in Nat /\ n >= 1
      /\ n <= Len(Args) => n \in DOMAIN Args /\ Src \in Paths /\ Src = Args[n]
      /\ HookInv'
  BY <1>1, CliFrame DEF CliSteps
<1>3. TypeOK'
  <2>1. point' \in [Paths -> {"none", "file", "dir"}]
    BY DEF EnterNs, StatSource, AllMounted, MakePoint, CheckSource, LeaveNs, EnterNsByPath, EnterNsByFd,
           SourceMissed, CheckMissed, IInv, TypeOK, Class
  <2>2. ns' \in Namespaces /\ unseen' \in BOOLEAN
    BY DEF EnterNs, StatSource, AllMounted, MakePoint, CheckSource, LeaveNs, EnterNsByPath, EnterNsByFd,
           SourceMissed, CheckMissed, IInv, TypeOK, Namespaces
  <2>3. missed' \subseteq Paths
    <3>1. pc = "check" => n <= Len(Args)
      BY DEF IInv, MountInv, Mounting
    <3> QED BY <1>2, <3>1 DEF EnterNs, StatSource, AllMounted, MakePoint, CheckSource, LeaveNs,
           SourceMissed, CheckMissed, Miss, IInv, TypeOK
  <2> QED BY <1>1, <2>1, <2>2, <2>3 DEF IInv, TypeOK, CliSteps, HookSteps, Ends
<1>4. ParseInv'
  BY <1>1, <1>2 DEF IInv, ParseInv, CliSteps
<1> DEFINE Done(i) == Args[i] \in Lost \/ mounts["container"][Args[i]] = "ro"
<1>5. \A i \in DOMAIN Args : pc \in Mounting \ {"remount"} /\ i < n => Done(i)
  BY DEF IInv, MountInv
<1>6. MountInv'
  <2>1. CASE EnterNs
    <3>1. pc = "enter" /\ n = 1 /\ n' = 1 /\ ns' = "container"
          /\ pc' = IF NoDrv THEN "leave" ELSE "stat"
      BY <2>1 DEF EnterNs, EnterNsByPath, IInv, MountInv
    <3>2. \A i \in DOMAIN Args : ~ (i < 1)
      BY <1>2
    <3> QED BY <1>1, <1>2, <3>1, <3>2 DEF IInv, MountInv, Mounting, HookSteps
  <2>2. CASE StatSource
    <3>1. /\ pc = "stat" /\ pc' \in {"stat", "point"} /\ n <= Len(Args) /\ ns' = ns
          /\ \/ n' = n + 1 /\ pc' = "stat" /\ Src \in Lost
             \/ n' = n
      BY <1>2, <2>2 DEF StatSource, IInv, HookInv, Lost, Mountable, IsFile, IsDir
    <3>2. \A i \in DOMAIN Args : i < n' => Done(i)
      <4>1. \A i \in DOMAIN Args : i < n + 1 => i < n \/ i = n
        BY <1>2
      <4> QED BY <1>2, <1>5, <3>1, <4>1 DEF Mounting
    <3>3. pc' = "point" => n' = n
      BY <2>2 DEF StatSource
    <3> QED BY <1>1, <1>2, <3>1, <3>2, <3>3 DEF IInv, MountInv, Mounting, HookSteps
  <2>3. CASE AllMounted
    <3>1. pc = "stat" /\ pc' = "leave" /\ n > Len(Args) /\ n' = n /\ ns' = ns
      BY <2>3 DEF AllMounted
    <3>2. \A i \in DOMAIN Args : Done(i)
      BY <1>2, <1>5, <3>1 DEF Mounting
    <3> QED BY <1>1, <1>2, <3>1, <3>2 DEF IInv, MountInv, Mounting, HookSteps
  <2>4. CASE MakePoint \/ CheckSource
    <3>1. /\ n' = n /\ ns' = ns /\ n <= Len(Args)
          /\ \/ pc = "point" /\ pc' = "check"
             \/ pc = "check" /\ pc' = "bind" /\ SourceOk(host[Src])
      BY <2>4 DEF MakePoint, CheckSource, IInv, MountInv, Mounting
    <3> QED BY <1>1, <1>2, <1>5, <3>1 DEF IInv, MountInv, Mounting, HookSteps
  <2>5. CASE LeaveNs
    <3>1. pc' = "started" /\ n' = n /\ pc = "leave"
      BY <2>5 DEF LeaveNs, EnterNsByFd
    <3> QED BY <1>1, <1>2, <3>1 DEF IInv, MountInv, Mounting, HookSteps
  <2>6. CASE SourceMissed
    <3>1. pc = "stat" /\ pc' = "stat" /\ n <= Len(Args) /\ ns' = ns /\ n' = n + 1 /\ Src \in Lost'
      BY <2>6 DEF SourceMissed, Miss, Lost
    <3>2. \A i \in DOMAIN Args : i < n + 1 => i < n \/ i = n
      BY <1>2
    <3>3. \A i \in DOMAIN Args : i < n' => Args[i] \in Lost' \/ mounts["container"][Args[i]] = "ro"
      BY <1>2, <1>5, <3>1, <3>2 DEF Mounting
    <3> QED BY <1>1, <1>2, <3>1, <3>3 DEF IInv, MountInv, Mounting, HookSteps
  <2>7. CASE CheckMissed
    <3>1. /\ pc = "check" /\ pc' = "bind" /\ n' = n /\ ns' = ns /\ n <= Len(Args)
          /\ Src \in missed'
      BY <2>7 DEF CheckMissed, Miss, IInv, MountInv, Mounting
    <3> QED BY <1>1, <1>2, <1>5, <3>1 DEF IInv, MountInv, Mounting, HookSteps
  <2> QED BY <2>1, <2>2, <2>3, <2>4, <2>5, <2>6, <2>7
<1>7. StartedReadOnly' /\ MountsJustified' /\ StableVetted'
  <2>1. pc' = "started" => pc = "leave"
    BY DEF EnterNs, StatSource, AllMounted, MakePoint, CheckSource, LeaveNs, EnterNsByPath, EnterNsByFd,
           SourceMissed, CheckMissed
  <2>2. ASSUME NEW s \in Namespaces, NEW p \in Paths, mounts[s][p] = "rw", pc = "leave" PROVE FALSE
    BY <2>2 DEF IInv, MountInv, MountsJustified, Namespaces
  <2> QED BY <1>1, <1>2, <2>1, <2>2 DEF IInv, StartedReadOnly, MountsJustified, StableVetted
<1>8. StartedComplete'
  <2> SUFFICES ASSUME pc' = "started", ~ NoDrv, NEW p \in Listed, p \notin Lost'
               PROVE  mounts["container"][p] = "ro"
    BY <1>1, <1>2 DEF StartedComplete, Lost
  <2>1. pc = "leave"
    BY DEF EnterNs, StatSource, AllMounted, MakePoint, CheckSource, LeaveNs, EnterNsByPath, EnterNsByFd,
           SourceMissed, CheckMissed
  <2>2. Taken(p)
    <3>1. \A i \in DOMAIN request.lists : ListTaken(request.lists[i])
      BY <2>1 DEF IInv, HookInv, CliSteps
    <3>2. PICK i \in DOMAIN request.lists :
             request.lists[i] \in DOMAIN ListOf
             /\ \E j \in DOMAIN ListOf[request.lists[i]] : p = ListOf[request.lists[i]][j]
      BY DEF Listed
    <3> QED BY <3>1, <3>2 DEF ListTaken
  <2>3. PICK i \in DOMAIN Args : Args[i] = p
    BY <1>2, <2>2 DEF Taken
  <2> QED BY <1>2, <2>1, <2>3 DEF IInv, MountInv
<1> QED BY <1>2, <1>3, <1>4, <1>6, <1>7, <1>8 DEF IInv

(* A bind: the path it makes visible has passed every check on the way.     *)
LEMMA BindStep == ASSUME IInv, Bind PROVE IInv'
<1> USE DEF Goto, paths
<1>1. /\ UNCHANGED <<request, host, gone, moved, missed, changes, list, entry, files, dirs, n, ns, point, unseen>>
      /\ pc = "bind" /\ pc' = "remount"
      /\ ns = "container" /\ ~ NoDrv /\ n <= Len(Args)
      /\ mounts' = [mounts EXCEPT !["container"][Src] = "rw"]
      /\ request.visible
  BY DEF Bind, IInv, MountInv, HookInv, Mounting, CliSteps
<1>2. /\ Args' = Args /\ Listed' = Listed /\ NoDrv' = NoDrv /\ AllowLink' = AllowLink
      /\ \A i : IsFileArg(i)' = IsFileArg(i)
      /\ \A k : Legal(k)' = Legal(k) /\ SourceOk(k)' = SourceOk(k)
      /\ Src' = Src
      /\ Len(Args) \in Nat
      /\ DOMAIN Args = 1..Len(Args)
      /\ n \in Nat /\ n >= 1
      /\ Lost \subseteq Lost'
      /\ n \in DOMAIN Args /\ Src \in Paths /\ Src = Args[n]
      /\ HookInv'
  BY <1>1, CliFrame DEF CliSteps
<1>3. mounts \in [Namespaces -> [Paths -> MountStates]]
  BY DEF IInv, TypeOK
<1>4. /\ mounts'["host"] = mounts["host"]
      /\ \A p \in Paths : mounts'["container"][p] = IF p = Src THEN "rw" ELSE mounts["container"][p]
      /\ mounts' \in [Namespaces -> [Paths -> MountStates]]
  BY <1>1, <1>2, <1>3 DEF Namespaces, MountStates
<1>5. TypeOK'
  BY <1>1, <1>4 DEF IInv, TypeOK, CliSteps
<1>6. ParseInv'
  BY <1>1, <1>2 DEF IInv, ParseInv, CliSteps
<1>7. MountInv'
  <2>1. \A i \in DOMAIN Args : i < n =>
          Args[i] \in Lost \/ mounts["container"][Args[i]] = "ro" \/ Args[i] = Src
    BY <1>1 DEF IInv, MountInv, Mounting
  <2>2. \A i \in DOMAIN Args : Args[i] \in Paths
    BY ArgsFacts DEF IInv
  <2>3. \A p \in Paths : mounts["container"][p] # "rw"
    BY <1>1 DEF IInv, MountInv
  <2>4. Src \notin moved \cup missed => SourceOk(host[Src])
    BY <1>1 DEF IInv, MountInv
  <2> QED BY <1>1, <1>2, <1>4, <2>1, <2>2, <2>3, <2>4 DEF MountInv, Mounting, HookSteps
<1>8. MountsJustified'
  <2>1. Src \in WhiteList
    BY <1>1, <1>2 DEF IInv, ParseInv, CliSteps
  <2>2. Src \in Listed
    BY <1>2, <2>1 DEF IInv, HookInv
  <2> QED BY <1>1, <1>2, <1>4, <2>1, <2>2 DEF IInv, MountsJustified
<1>9. StableVetted'
  <2>1. Src \notin moved => Legal(host[Src])
    BY <1>1, <1>2 DEF IInv, ParseInv, CliSteps
  <2>2. Src \notin moved \cup missed => SourceOk(host[Src])
    BY <1>1 DEF IInv, MountInv
  <2>3. Src \notin moved => Mountable(host[Src])
    BY <1>2 DEF IInv, HookInv
  <2>4. Src \notin moved \cup missed => Mountable(host[Src]) /\ host[Src] # "refused" /\ (host[Src] \in {"link", "linkdir"} => AllowLink)
    BY <2>1, <2>2, <2>3 DEF Legal, SourceOk
  <2> QED BY <1>1, <1>2, <1>4, <2>4 DEF IInv, StableVetted
<1>10. StartedReadOnly' /\ StartedComplete'
  BY <1>1 DEF StartedReadOnly, StartedComplete
<1> QED BY <1>2, <1>5, <1>6, <1>7, <1>8, <1>9, <1>10 DEF IInv

(* The remount of the path just bound: nothing is writable any more.        *)
LEMMA RemountStep == ASSUME IInv, Remount PROVE IInv'
<1> USE DEF Goto, paths
<1>1. /\ UNCHANGED <<request, host, gone, moved, missed, changes, list, entry, files, dirs, ns, point>>
      /\ pc = "remount" /\ pc' = "stat" /\ n' = n + 1 /\ unseen' = FALSE
      /\ ns = "container" /\ ~ NoDrv /\ n <= Len(Args)
      /\ mounts' = [mounts EXCEPT !["container"][Src] = "ro"]
  BY DEF Remount, IInv, MountInv, Mounting
<1>2. /\ Args' = Args /\ Listed' = Listed /\ NoDrv' = NoDrv /\ AllowLink' = AllowLink
      /\ \A i : IsFileArg(i)' = IsFileArg(i)
      /\ \A k : Legal(k)' = Legal(k) /\ SourceOk(k)' = SourceOk(k)
      /\ Len(Args) \in Nat
      /\ DOMAIN Args = 1..Len(Args)
      /\ n \in Nat /\ n >= 1
      /\ Lost \subseteq Lost'
      /\ n \in DOMAIN Args /\ Src \in Paths /\ Src = Args[n]
      /\ HookInv'
  BY <1>1, CliFrame DEF CliSteps
<1>3. mounts \in [Namespaces -> [Paths -> MountStates]]
  BY DEF IInv, TypeOK
<1>4. /\ mounts'["host"] = mounts["host"]
      /\ \A p \in Paths : mounts'["container"][p] = IF p = Src THEN "ro" ELSE mounts["container"][p]
      /\ mounts' \in [Namespaces -> [Paths -> MountStates]]
  BY <1>1, <1>2, <1>3 DEF Namespaces, MountStates
<1>5. TypeOK'
  <2>1. n' \in Nat
    BY <1>1, <1>2
  <2>2. Len(files) <= MaxMounts /\ Len(dirs) <= MaxMounts
    BY <1>1 DEF IInv, TypeOK, CliSteps
  <2> QED BY <1>1, <1>4, <2>1, <2>2 DEF IInv, TypeOK, CliSteps
<1>6. ParseInv'
  BY <1>1, <1>2 DEF IInv, ParseInv, CliSteps
<1>7. \A p \in Paths : mounts["container"][p] = "rw" => p = Src
  BY <1>1 DEF IInv, MountInv
<1>8. MountInv'
  <2>1. \A i \in DOMAIN Args : i < n + 1 =>
          Args[i] \in Lost \/ mounts["container"][Args[i]] = "ro" \/ Args[i] = Src
    <3>1. \A i \in DOMAIN Args : i < n + 1 => i < n \/ i = n
      BY <1>2
    <3> QED BY <1>1, <1>2, <3>1 DEF IInv, MountInv, Mounting
  <2>2. \A i \in DOMAIN Args : Args[i] \in Paths
    BY ArgsFacts DEF IInv
  <2>3. \A p \in Paths : mounts'["container"][p] # "rw"
    BY <1>4, <1>7
  <2> QED BY <1>1, <1>2, <1>4, <2>1, <2>2, <2>3 DEF MountInv, Mounting, HookSteps
<1>9. MountsJustified'
  <2>1. Src \in WhiteList
    BY <1>1, <1>2 DEF IInv, ParseInv, CliSteps
  <2>2. Src \in Listed
    BY <1>2, <2>1 DEF IInv, HookInv
  <2>3. request.visible
    BY <1>1 DEF IInv, HookInv, CliSteps
  <2> QED BY <1>1, <1>2, <1>4, <2>1, <2>2, <2>3 DEF IInv, MountsJustified
<1>10. StableVetted'
  <2>1. Src \notin moved => Legal(host[Src])
    BY <1>1, <1>2 DEF IInv, ParseInv, CliSteps
  <2>2. Src \notin moved \cup missed => SourceOk(host[Src])
    BY <1>1 DEF IInv, MountInv
  <2>3. Src \notin moved => Mountable(host[Src])
    BY <1>2 DEF IInv, HookInv
  <2>4. Src \notin moved \cup missed => Mountable(host[Src]) /\ host[Src] # "refused" /\ (host[Src] \in {"link", "linkdir"} => AllowLink)
    BY <2>1, <2>2, <2>3 DEF Legal, SourceOk
  <2> QED BY <1>1, <1>2, <1>4, <2>4 DEF IInv, StableVetted
<1>11. StartedReadOnly' /\ StartedComplete'
  BY <1>1 DEF StartedReadOnly, StartedComplete
<1> QED BY <1>2, <1>5, <1>6, <1>8, <1>9, <1>10, <1>11 DEF IInv

(* A change on the host: what the invariant says of a path's kind, it says  *)
(* of paths that have not moved.                                            *)
LEMMA ChangeStep ==
  ASSUME IInv, NEW q \in Paths, NEW kind \in Kinds, Change(q, kind)
  PROVE  IInv'
<1>1. /\ UNCHANGED <<pc, list, entry, files, dirs, n, ns, point, mounts, unseen, request>>
      /\ gone' \subseteq Paths /\ gone \subseteq gone'
      /\ moved' = moved \cup {q} /\ moved' \subseteq Paths
      /\ host' \in [Paths -> Kinds]
      /\ \A p \in Paths : p # q => host'[p] = host[p]
      /\ ~ Mountable(host'[q]) => q \in gone'
      /\ missed' = missed
      /\ changes' \in Nat
      /\ pc \notin Ends
  BY DEF Change, process, IInv, TypeOK
<1>2. /\ Args' = Args /\ Listed' = Listed /\ NoDrv' = NoDrv /\ AllowLink' = AllowLink
      /\ Src' = Src /\ ListKnown' = ListKnown /\ Lines' = Lines
      /\ \A i : IsFileArg(i)' = IsFileArg(i)
  BY <1>1 DEF Args, Listed, NoDrv, AllowLink, Src, ListKnown, Lines, IsFileArg
<1>3. \A k : Legal(k)' = Legal(k) /\ SourceOk(k)' = SourceOk(k)
  BY <1>2 DEF Legal, SourceOk
<1>4. \A p : Taken(p) => Taken(p)'
  BY <1>1, <1>2 DEF Taken, Lost
<1>5. \A name : ListTaken(name) => ListTaken(name)'
  BY <1>4 DEF ListTaken
<1>6. TypeOK'
  BY <1>1 DEF IInv, TypeOK
<1>7. HookInv'
  <2>1. \A p \in Paths : ~ Mountable(host'[p]) => p \in gone'
    BY <1>1 DEF IInv, HookInv
  <2>2. ASSUME NEW i \in DOMAIN Args, Args[i] \notin moved' PROVE Mountable(host'[Args[i]])
    <3>1. Args[i] \in Paths /\ Args[i] \notin moved /\ Args[i] # q
      BY <1>1, <2>2, ArgsFacts DEF IInv
    <3> QED BY <1>1, <3>1 DEF IInv, HookInv
  <2> QED BY <1>1, <1>2, <1>4, <1>5, <2>1, <2>2 DEF IInv, HookInv
<1>8. ParseInv'
  <2>1. ASSUME NEW p \in Paths, p \notin moved' PROVE p \notin moved /\ host'[p] = host[p]
    BY <1>1, <2>1
  <2>2. \A i \in DOMAIN Args : Args[i] \in Paths
    BY ArgsFacts DEF IInv
  <2> QED BY <1>1, <1>2, <1>3, <2>1, <2>2 DEF IInv, ParseInv
<1>9. MountInv'
  <2>1. pc \in {"bind", "remount"} => Src \in Paths
    <3>1. pc \in {"bind", "remount"} => n \in DOMAIN Args
      BY ArgsFacts DEF IInv, TypeOK, MountInv, ParseInv, Mounting, CliSteps
    <3> QED BY <3>1, ArgsFacts DEF IInv, Src
  <2>2. pc \in {"bind", "remount"} /\ Src \notin moved' \cup missed' => SourceOk(host'[Src])
    BY <1>1, <2>1 DEF IInv, MountInv
  <2>3. Lost \subseteq Lost'
    BY <1>1 DEF Lost
  <2> QED BY <1>1, <1>2, <1>3, <2>2, <2>3 DEF IInv, MountInv
<1>10. StartedReadOnly' /\ StartedComplete'
  BY <1>1 DEF StartedReadOnly, StartedComplete, Ends
<1>11. MountsJustified' /\ StableVetted'
  BY <1>1, <1>2 DEF IInv, MountsJustified, StableVetted
<1> QED BY <1>6, <1>7, <1>8, <1>9, <1>10, <1>11 DEF IInv

(* Every step keeps the inductive invariant.                                *)
THEOREM SetupStep == IInv /\ [Next]_vars => IInv'
<1> SUFFICES ASSUME IInv, [Next]_vars PROVE IInv'
  OBVIOUS
<1>1. CASE Hook
  <2>1. CASE ReadConfig \/ NextList \/ ListsRead \/ ExecCli
    BY <2>1, HookStep
  <2>2. CASE TakeEntry
    BY <2>2, TakeStep
  <2>3. CASE ListRefused \/ OptionsRefused
    BY <2>3, FailStep DEF ListRefused, OptionsRefused
  <2> QED BY <1>1, <2>1, <2>2, <2>3 DEF Hook
<1>2. CASE Cli
  <2>1. CASE ParseMount \/ ParseOptions
    BY <2>1, ParseStep
  <2>2. CASE EnterNs \/ StatSource \/ AllMounted \/ MakePoint \/ CheckSource \/ LeaveNs
    BY <2>2, QuietStep
  <2>3. CASE Bind
    BY <2>3, BindStep
  <2>4. CASE Remount
    BY <2>4, RemountStep
  <2>5. CASE ArgsRefused \/ PointRefused \/ SourceRefused \/ BindRefused
    BY <2>5, FailStep DEF ArgsRefused, PointRefused, SourceRefused, BindRefused
  <2> QED BY <1>2, <2>1, <2>2, <2>3, <2>4, <2>5 DEF Cli
<1>3. CASE Fault
  BY <1>3, FailStep DEF Fault
<1>4. CASE Unnoticed
  <2>1. CASE EntryMissed \/ ScanStops
    BY <2>1, TakeStep
  <2>2. CASE SourceMissed \/ CheckMissed
    BY <2>2, QuietStep
  <2> QED BY <1>4, <2>1, <2>2 DEF Unnoticed
<1>5. ASSUME NEW p \in Paths, NEW k \in Kinds, Change(p, k) PROVE IInv'
  BY <1>5, ChangeStep
<1>6. CASE UNCHANGED vars
  <2>1. UNCHANGED <<pc, list, entry, files, dirs, n, ns, point, mounts, unseen,
                    request, host, gone, moved, missed, changes>>
    BY <1>6 DEF vars, process, paths
  <2>2. /\ Args' = Args /\ Listed' = Listed /\ NoDrv' = NoDrv /\ AllowLink' = AllowLink
        /\ Src' = Src /\ ListKnown' = ListKnown /\ Lines' = Lines
        /\ \A i : IsFileArg(i)' = IsFileArg(i)
    BY <2>1 DEF Args, Listed, NoDrv, AllowLink, Src, ListKnown, Lines, IsFileArg
  <2>3. /\ \A k : Legal(k)' = Legal(k) /\ SourceOk(k)' = SourceOk(k)
        /\ Lost \subseteq Lost'
        /\ \A p : Taken(p) => Taken(p)'
        /\ \A name : ListTaken(name) => ListTaken(name)'
    BY <2>1, Unmoved
  <2>4. TypeOK' /\ HookInv' /\ ParseInv' /\ MountInv'
    BY <2>1, <2>2, <2>3 DEF IInv, TypeOK, HookInv, ParseInv, MountInv
  <2>5. StartedReadOnly' /\ StartedComplete' /\ MountsJustified' /\ StableVetted'
    BY <2>1, <2>2 DEF IInv, StartedReadOnly, StartedComplete, MountsJustified, StableVetted
  <2> QED BY <2>4, <2>5 DEF IInv
<1> QED BY <1>1, <1>2, <1>3, <1>4, <1>5, <1>6 DEF Next

(* The inductive invariant holds throughout: at every moment the hook, the  *)
(* argument parser and the mount loop stand where IInv says.                *)
THEOREM SetupInvariance == Spec => []IInv
<1> QED BY SetupInit, SetupStep, PTL DEF Spec

(* Every reachable state is well typed; in particular the cli never stores  *)
(* more than MaxMounts files or directories in its arrays.                  *)
THEOREM SetupTypeCorrect == Spec => []TypeOK
<1>1. IInv => TypeOK
  BY DEF IInv
<1> QED BY <1>1, SetupInvariance, PTL

(* A container that starts has no writable bind mount of a host path.       *)
THEOREM NoWritableMount == Spec => []StartedReadOnly
<1>1. IInv => StartedReadOnly
  BY DEF IInv
<1> QED BY <1>1, SetupInvariance, PTL

(* A container that starts has every listed path that was a file or a       *)
(* directory all the time and that no call failed for in silence.           *)
THEOREM NothingLost == Spec => []StartedComplete
<1>1. IInv => StartedComplete
  BY DEF IInv
<1> QED BY <1>1, SetupInvariance, PTL

(* Only listed, white-listed paths are mounted, only for a container that   *)
(* wants them, and never in the host's namespace.                           *)
THEOREM OnlyJustifiedMounts == Spec => []MountsJustified
<1>1. IInv => MountsJustified
  BY DEF IInv
<1> QED BY <1>1, SetupInvariance, PTL

(* A path that stays as it was is mounted only if the cli's checks allow it.*)
THEOREM StablePathsVetted == Spec => []StableVetted
<1>1. IInv => StableVetted
  BY DEF IInv
<1> QED BY <1>1, SetupInvariance, PTL
=============================================================================
