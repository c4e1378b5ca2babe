----------------------------- MODULE Installer -----------------------------
(***************************************************************************)
(* Installation, upgrade and removal: run_main.sh of the package,          *)
(* uninstall.sh in the installed tree, and the helper both call to edit    *)
(* daemon.json.  Each run is one sequential script, and no two run at the  *)
(* same time; but a run may be stopped at any step, with the write in      *)
(* progress done in part, and the next one finds what is there.  The       *)
(* scripts go on after most commands that fail.                            *)
(***************************************************************************)
EXTENDS Naturals, Sequences, FiniteSets

CONSTANTS
  Engines,      \* container engines: --ce
  Reserving,    \* engines whose default runtime is left alone (RESERVEDEFAULT)
  Paths,        \* INSTALL_PATHs
  Types,        \* TypeOrder: the install types in the order an upgrade looks for them
  SoTypes,      \* install types with libraries of the operating system
  Versions,     \* PACKAGE_VERSIONs
  Pids,         \* PPIDs, the suffix of the helper's temporary file
  Requests,     \* the command lines
  FirstDaemons, \* daemon.json of each engine before the first installation
  None,         \* no install type, no runtime, no run
  Missing,      \* a file that is not there
  Torn,         \* a file with part of its content
  Other,        \* an entry of another type than the helper expects
  MaxRuns,      \* bound: runs of the scripts
  MaxFaults     \* bound: runs stopped, commands that fail

\* The files copied into the installation, in the order they are copied.
Parts == <<"runtime", "hook", "cli", "helper", "destroy", "uninstall.sh">>
PartNames == {Parts[k] : k \in DOMAIN Parts}

TypeSet == {Types[k] : k \in DOMAIN Types}

\* daemon.json as far as the helper reads or changes it; "user" stands for
\* everything else in it.
Daemon ==
  [runtimes : {"map", Missing, Other}, ascend : Paths \cup {None, Other},
   default : {"ascend", "other", None}, user : {"some", None}]

Request ==
  [op : {"install", "upgrade", "uninstall"}, version : Versions,
   type : TypeSet \cup {None}, engine : Engines, path : Paths, pid : Pids]

Tree ==
  [dir : BOOLEAN, script : BOOLEAN,
   files : [PartNames -> Versions \cup {Missing, Torn}],
   info : (SUBSET TypeSet) \cup {Missing}]

List == [type : TypeSet \cup {None, Torn}, so : BOOLEAN] \cup {Missing}

\* The default runtime is not one that daemon.json does not define.
Sound(d) == d \in Daemon /\ d.default = "ascend" => d.ascend # None

ASSUME InstallerAssumption ==
  /\ {None, Missing, Torn} \cap Daemon = {} /\ Missing # Torn
  /\ None \notin Paths \cup Requests /\ None # "ascend"
  /\ Requests \subseteq Request
  /\ FirstDaemons \subseteq [Engines -> Daemon \cup {Missing, Torn}]
  /\ \A d \in FirstDaemons, e \in Engines : Sound(d[e])
  /\ Reserving \subseteq Engines
  /\ SoTypes \subseteq TypeSet
  /\ MaxRuns \in Nat /\ MaxFaults \in Nat

\* What is in the tree is not mistaken for something else, and no daemon.json
\* names the runtime before the first installation.
ASSUME TreeAssumption ==
  /\ {Missing, Torn} \cap Versions = {}
  /\ Types \in Seq(TypeSet) /\ None \notin TypeSet
  /\ \A s \in SUBSET TypeSet : Missing # s
  /\ \A l \in [type : TypeSet \cup {None, Torn}, so : BOOLEAN] : Missing # l
  /\ Other \notin Paths
  /\ \A d \in FirstDaemons, e \in Engines : d[e] \in Daemon => d[e].ascend \notin Paths

VARIABLES
  run,      \* the command line of the run under way, None if there is none
  step,     \* what it does next
  copied,   \* how many files it has copied
  made,     \* what the helper is about to write
  inst,     \* the tree at each INSTALL_PATH
  confDir,  \* whether /etc/ascend-docker-runtime.d is there
  list,     \* base.list
  daemon,   \* daemon.json of each engine
  tmp,      \* daemon.json.<PPID> of each engine
  knownOs,  \* whether add_so knows the operating system
  runs,     \* runs so far
  faults,   \* faults so far
  last,     \* history: the run that just ended, and how
  first,    \* history: daemon.json before the first installation
  unnoticed,\* history: whether a script went on after a command that failed
  orphans   \* history: engines whose runtime another engine's removal took

host    == <<inst, confDir, list, daemon, tmp>>
history == <<first, unnoticed, orphans>>
vars    == <<run, step, copied, made, host, knownOs, runs, faults, last, history>>

Steps ==
  {"idle", "dirs", "copy", "list", "so", "daemon", "temp", "move", "args",
   "script", "config", "remove"}

Results == {"success", "skipped", "error", "stopped"}

TypeOK ==
  /\ run \in Requests \cup {None}
  /\ step \in Steps
  /\ copied \in 0..Len(Parts)
  /\ made \in Daemon \cup {None}
  /\ inst \in [Paths -> Tree]
  /\ confDir \in BOOLEAN
  /\ list \in List
  /\ daemon \in [Engines -> Daemon \cup {Missing, Torn}]
  /\ tmp \in [Engines -> [Pids -> Daemon \cup {Missing, Torn}]]
  /\ knownOs \in BOOLEAN
  /\ runs \in 0..MaxRuns /\ faults \in 0..MaxFaults
  /\ last \in [run : Requests, result : Results] \cup {None}
  /\ first \in FirstDaemons
  /\ unnoticed \in BOOLEAN
  /\ orphans \subseteq Engines
  /\ step = "idle" <=> run = None
  /\ ~ unnoticed => \A e \in Engines : daemon[e] = Torn => first[e] = Torn

NoTree ==
  [dir |-> FALSE, script |-> FALSE, files |-> [f \in PartNames |-> Missing],
   info |-> Missing]

Init ==
  /\ run = None /\ step = "idle" /\ copied = 0 /\ made = None
  /\ inst = [p \in Paths |-> NoTree]
  /\ confDir = FALSE /\ list = Missing
  /\ first \in FirstDaemons /\ daemon = first
  /\ tmp = [e \in Engines |-> [d \in Pids |-> Missing]]
  /\ knownOs \in BOOLEAN
  /\ runs = 0 /\ faults = 0 /\ last = None
  /\ unnoticed = FALSE /\ orphans = {}

-----------------------------------------------------------------------------
(* The run under way.                                                      *)

tree  == inst[run.path]
files == tree.files
conf  == daemon[run.engine]

Goto(s) == step' = s /\ UNCHANGED <<run, last>>

Exit(result) ==
  /\ run' = None /\ step' = "idle"
  /\ last' = [run |-> run, result |-> result]

Begin(r) ==
  /\ step = "idle" /\ runs < MaxRuns
  /\ runs' = runs + 1
  /\ run' = r
  /\ step' = IF r.op = "uninstall" THEN "script" ELSE "dirs"
  /\ copied' = 0 /\ made' = None /\ last' = None
  /\ UNCHANGED <<host, knownOs, faults, history>>

\* What follows a step that did not end the run.
Advance ==
  CASE step = "dirs" -> Goto("copy")
    [] step = "copy" -> Goto(IF copied + 1 < Len(Parts) THEN "copy" ELSE "list")
    [] step = "list" -> Goto("so")
    [] step = "so" -> Goto(IF run.op = "install" THEN "daemon" ELSE "args")
    [] step = "script" -> Goto("daemon")
    [] step = "daemon" -> Goto("temp")
    [] step = "temp" -> Goto("move")
    [] step = "move" -> Goto(IF run.op = "install" THEN "args" ELSE "config")
    [] step = "config" -> Goto("remove")
    [] step \in {"args", "remove"} -> Exit("success")

\* Installing creates the directories, upgrading asks for them.
MakeDirs ==
  /\ step = "dirs"
  /\ IF run.op = "install"
     THEN /\ inst' = [inst EXCEPT ![run.path].dir = TRUE, ![run.path].script = TRUE]
          /\ Advance
     ELSE /\ UNCHANGED inst
          /\ IF tree.dir /\ confDir THEN Advance ELSE Exit("error")
  /\ UNCHANGED <<confDir, list, daemon, tmp, orphans>>

\* Mutant: a file that is there is not copied again.
PutPartNew(content) ==
  LET f == Parts[copied + 1] IN
  inst' = IF files[f] # Missing THEN inst
          ELSE [inst EXCEPT ![run.path].files[f] = content]

\* The next file is copied; an upgrade may find no directory for the script.
PutPart(content) ==
  LET f == Parts[copied + 1] IN
  inst' = IF f = "uninstall.sh" /\ ~ tree.script
          THEN inst
          ELSE [inst EXCEPT ![run.path].files[f] = content]

CopyPart ==
  /\ step = "copy"
  /\ PutPart(run.version)
  /\ Advance
  /\ UNCHANGED <<confDir, list, daemon, tmp, orphans>>

\* The type an upgrade finds in ascend_docker_runtime_install.info: the first
\* one, in its order, that is marked "y".
ListType(info) ==
  LET marked == {k \in DOMAIN Types : Types[k] \in info} IN
  IF marked = {} THEN None ELSE Types[CHOOSE k \in marked : \A j \in marked : k <= j]

\* Whose base.list is installed; an upgrade without the record changes none.
Upgrades == run.op = "upgrade"
Recorded == Upgrades => tree.info # Missing
Kind == IF Upgrades THEN ListType(tree.info) ELSE run.type

PutList ==
  /\ step = "list"
  /\ confDir' = TRUE
  /\ list' = IF Recorded THEN [type |-> Kind, so |-> FALSE] ELSE list
  /\ Advance
  /\ UNCHANGED <<inst, daemon, tmp, orphans>>

\* add_so appends the libraries of the operating system, if it knows it.
AddSo ==
  /\ step = "so"
  /\ IF Recorded /\ Kind \in SoTypes
     THEN IF knownOs
          THEN list' = [type |-> IF list = Missing THEN Torn ELSE list.type, so |-> TRUE] /\ Advance
          ELSE UNCHANGED list /\ Exit("error")
     ELSE UNCHANGED list /\ Advance
  /\ UNCHANGED <<inst, confDir, daemon, tmp, orphans>>

\* Mutant: the type given is recorded, not the one an upgrade found.
SavedGiven == {run.type} \ {None}

\* Mutant: an installation without a type records one.
SavedNone == {run.type, Kind}

\* The types save_install_args marks: the shell variables of the type that
\* was given and of the one an upgrade found.
Saved == {run.type, Kind} \ {None}

SaveArgs ==
  /\ step = "args"
  /\ inst' = IF Recorded THEN [inst EXCEPT ![run.path].info = Saved] ELSE inst
  /\ Advance
  /\ UNCHANGED <<confDir, list, daemon, tmp, orphans>>

-----------------------------------------------------------------------------
(* The helper.                                                             *)

\* Mutant: the template is written whether there is a file or not.
AddRuntimeFresh(d) ==
  [runtimes |-> "map", ascend |-> run.path, user |-> None,
   default |-> IF run.engine \in Reserving THEN None ELSE "ascend"]

\* modifyDaemon with "add", and the templates for a file that is not there.
AddRuntime(d) ==
  LET old == IF d # Missing THEN d
             ELSE [runtimes |-> "map", ascend |-> None, default |-> None, user |-> None]
  IN  [old EXCEPT !.runtimes = "map", !.ascend = run.path,
                  !.default = IF run.engine \in Reserving THEN @ ELSE "ascend"]

\* Mutant: the runtime is only removed where it is the default.
RemoveDefault(d) ==
  IF d.default = "ascend" THEN [d EXCEPT !.ascend = None, !.default = None] ELSE d

\* Mutant: the default runtime stays.
RemoveRuntimeOnly(d) ==
  [d EXCEPT !.ascend = IF d.runtimes = "map" THEN None ELSE @]

\* modifyDaemon with "rm".
RemoveRuntime(d) ==
  [d EXCEPT !.ascend = IF d.runtimes = "map" THEN None ELSE @,
            !.default = IF @ = "ascend" THEN None ELSE @]

Unmodifiable ==
  \/ conf = Torn
  \/ /\ run.op = "install" /\ conf # Missing
     /\ conf.runtimes = Other \/ conf.ascend = Other

LeftOver == tmp[run.engine][run.pid] # Missing

\* Mutant: a temporary file of any process is in the way.
HelperRefusesAny ==
  \/ Unmodifiable
  \/ \E d \in Pids : tmp[run.engine][d] # Missing
  \/ run.op = "install" /\ files["runtime"] = Missing

\* An error of modifyDaemon, writeJson, or the check of the runtime's path.
HelperRefuses ==
  \/ Unmodifiable
  \/ LeftOver
  \/ run.op = "install" /\ files["runtime"] = Missing

\* The helper reads daemon.json.  uninstall.sh takes the helper from the
\* installed tree, where it may be missing, or torn and not a program.
Helper ==
  /\ step = "daemon"
  /\ run.op = "install" \/ files["helper"] \in Versions
  /\ IF HelperRefuses
     THEN UNCHANGED made /\ Exit("error")
     ELSE /\ made' = IF run.op = "install" THEN AddRuntime(conf) ELSE RemoveRuntime(conf)
          /\ Advance
  /\ UNCHANGED <<copied, host, knownOs, runs, faults, history>>

\* A shell that is told to run an empty file does nothing, with success.
HelperBroken ==
  /\ step = "daemon" /\ run.op = "uninstall"
  /\ files["helper"] \in {Missing, Torn}
  /\ \/ Exit("error") /\ UNCHANGED unnoticed
     \/ files["helper"] = Torn /\ Goto("move") /\ unnoticed' = TRUE
  /\ UNCHANGED <<copied, made, host, knownOs, runs, faults, first, orphans>>

WriteTemp ==
  /\ step = "temp"
  /\ tmp' = [tmp EXCEPT ![run.engine][run.pid] = made]
  /\ Advance
  /\ UNCHANGED <<inst, confDir, list, daemon, orphans>>

\* mv of the temporary file; it fails, unnoticed, if there is none.  From
\* here on an engine that was orphaned has its files again.
MoveTemp ==
  /\ step = "move"
  /\ IF LeftOver
     THEN /\ daemon' = [daemon EXCEPT ![run.engine] = tmp[run.engine][run.pid]]
          /\ tmp' = [tmp EXCEPT ![run.engine][run.pid] = Missing]
     ELSE UNCHANGED <<daemon, tmp>>
  /\ orphans' = IF run.op = "install" THEN orphans \ {run.engine} ELSE orphans
  /\ Advance
  /\ UNCHANGED <<inst, confDir, list>>

-----------------------------------------------------------------------------
(* uninstall.sh.                                                           *)

\* run_main.sh starts the script of the installed tree; the script does
\* nothing, with success, if the engine has no daemon.json.  A script that
\* is torn ends before it does anything, with any result.
Script ==
  /\ step = "script"
  /\ IF ~ tree.dir THEN Exit("skipped")
     ELSE IF files["uninstall.sh"] = Missing THEN Exit("error")
     ELSE IF files["uninstall.sh"] = Torn THEN Exit("success") \/ Exit("error")
     ELSE IF conf = Missing THEN Exit("success")
     ELSE Advance
  /\ UNCHANGED <<host, orphans>>

\* The engines that name a runtime, other than the one of this run.
OthersNaming ==
  {e \in Engines \ {run.engine} :
     daemon[e] \notin {Missing, Torn} /\ daemon[e].ascend \in Paths}

\* rm -rf /etc/ascend-docker-runtime.d.
RemoveConfig ==
  /\ step = "config"
  /\ confDir' = FALSE /\ list' = Missing
  /\ orphans' = orphans \cup OthersNaming
  /\ Advance
  /\ UNCHANGED <<inst, daemon, tmp>>

\* Mutant: one dirname too few, the directory itself stays.
RemoveTreeInner ==
  /\ step = "remove"
  /\ inst' = [inst EXCEPT ![run.path] = [NoTree EXCEPT !.dir = TRUE]]
  /\ orphans' = orphans \cup OthersNaming
  /\ Advance
  /\ UNCHANGED <<confDir, list, daemon, tmp>>

\* rm -rf of the installed tree.
RemoveTree ==
  /\ step = "remove"
  /\ inst' = [inst EXCEPT ![run.path] = NoTree]
  /\ orphans' = orphans \cup OthersNaming
  /\ Advance
  /\ UNCHANGED <<confDir, list, daemon, tmp>>

-----------------------------------------------------------------------------
(* Faults.                                                                 *)

\* What a removal that is stopped may have removed; the files nothing asks
\* for are gone all or none.
SomeGone ==
  LET asked == {"runtime", "helper", "uninstall.sh"} IN
  {g \cup h : g \in SUBSET asked, h \in {{}, PartNames \ asked}}

\* What a step leaves behind that does not come to its end.
Partly ==
  \/ /\ step = "copy"
     /\ PutPart(Torn)
     /\ UNCHANGED <<confDir, list, daemon, tmp, orphans>>
  \/ /\ step = "list" /\ Recorded
     /\ confDir' = TRUE /\ list' = [type |-> Torn, so |-> FALSE]
     /\ UNCHANGED <<inst, daemon, tmp, orphans>>
  \/ /\ step = "args" /\ Recorded
     /\ inst' = [inst EXCEPT ![run.path].info = {}]
     /\ UNCHANGED <<confDir, list, daemon, tmp, orphans>>
  \/ /\ step = "temp"
     /\ tmp' = [tmp EXCEPT ![run.engine][run.pid] = Torn]
     /\ UNCHANGED <<inst, confDir, list, daemon, orphans>>
  \/ /\ step = "config"
     /\ list' = Missing /\ orphans' = orphans \cup OthersNaming
     /\ UNCHANGED <<inst, confDir, daemon, tmp>>
  \/ /\ step = "remove"
     /\ \E gone \in SomeGone, info \in {tree.info, Missing} :
          \E script \in IF "uninstall.sh" \in gone THEN {FALSE, tree.script} ELSE {tree.script} :
            inst' = [inst EXCEPT ![run.path] =
                       [dir |-> TRUE, script |-> script, info |-> info,
                        files |-> [f \in PartNames |-> IF f \in gone THEN Missing ELSE files[f]]]]
     /\ orphans' = orphans \cup OthersNaming
     /\ UNCHANGED <<confDir, list, daemon, tmp>>

\* The steps whose commands are not checked.
Unchecked == {"copy", "list", "move", "args", "config", "remove"}

\* The run is stopped, or a command or a check fails.
Fault ==
  /\ step # "idle" /\ faults < MaxFaults
  /\ faults' = faults + 1
  /\ Partly \/ UNCHANGED <<host, orphans>>
  /\ \/ Exit("stopped") /\ UNCHANGED <<copied, unnoticed>>
     \/ /\ step \in Unchecked
        /\ Advance
        /\ copied' = IF step = "copy" THEN copied + 1 ELSE copied
        /\ unnoticed' = TRUE
  /\ UNCHANGED <<made, knownOs, runs, first>>

Step ==
  /\ MakeDirs \/ CopyPart \/ PutList \/ AddSo \/ SaveArgs
       \/ WriteTemp \/ MoveTemp \/ Script \/ RemoveConfig \/ RemoveTree
  /\ copied' = IF step = "copy" THEN copied + 1 ELSE copied
  /\ UNCHANGED <<made, knownOs, runs, faults, first, unnoticed>>

Next == (\E r \in Requests : Begin(r)) \/ Step \/ Helper \/ HelperBroken \/ Fault

Spec == Init /\ [][Next]_vars

-----------------------------------------------------------------------------
(* Properties.                                                             *)

Names(e, p) == daemon[e] \notin {Missing, Torn} /\ daemon[e].ascend = p

\* An engine whose daemon.json names the runtime finds all its files and
\* base.list, whenever a run was stopped: installing edits daemon.json last
\* and removing edits it first.  Not so for an engine whose files were
\* removed for another one, nor once a failed command went unnoticed.
NamedIsThere ==
  ~ unnoticed =>
    \A e \in Engines \ orphans, p \in Paths :
      Names(e, p) => /\ \A f \in PartNames : inst[p].files[f] # Missing
                     /\ list # Missing

Ended(op, result) == step = "idle" /\ last # None /\ last.run.op = op /\ last.result = result

\* An installation that reports success is complete, whatever the runs
\* before it left behind: every file is of the new version, base.list is the
\* one of the type, with the libraries, and recorded; the engine names the
\* runtime, and no temporary file of this run is left.
InstalledComplete ==
  ~ unnoticed /\ Ended("install", "success") =>
    LET r == last.run IN
    /\ \A f \in PartNames : inst[r.path].files[f] = r.version
    /\ list = [type |-> r.type, so |-> r.type \in SoTypes]
    /\ inst[r.path].info = {r.type} \ {None}
    /\ Names(r.engine, r.path)
    /\ tmp[r.engine][r.pid] = Missing

\* An upgrade that reports success has renewed the executables, and the
\* record, if there is one, has the type whose base.list it installed and no
\* other but the type that was given: a type of a run before is forgotten,
\* and an upgrade without a type is repeated with the same list.
UpgradedConsistent ==
  ~ unnoticed /\ Ended("upgrade", "success") =>
    LET r == last.run IN
    /\ \A f \in PartNames \ {"uninstall.sh"} : inst[r.path].files[f] = r.version
    /\ inst[r.path].info # Missing =>
         \E t \in TypeSet \cup {None} :
           /\ list = [type |-> t, so |-> t \in SoTypes]
           /\ inst[r.path].info = {t, r.type} \ {None}

\* A content d of daemon.json that has the user's settings.
Kept(e, d) ==
  /\ first[e] = Torn => d = Torn
  /\ first[e] \in Daemon => d \in Daemon /\ d.user = first[e].user

\* Whatever is run and stopped, what the user had in daemon.json is still
\* there, and a daemon.json that does not parse is left alone.
UserSettingsKept == ~ unnoticed => \A e \in Engines : Kept(e, daemon[e])

\* The default runtime of an engine is never one that it does not define:
\* the engine would not start.
DefaultDefined == \A e \in Engines : Sound(daemon[e])

\* A run that ends with an error had a reason that is still there: repeating
\* it without removing the reason is useless, and without one it succeeds,
\* however many runs were stopped before.
ErrorHasCause ==
  step = "idle" /\ last # None /\ last.result = "error" =>
    LET r == last.run
        t == inst[r.path]
        d == daemon[r.engine]
    IN  CASE r.op = "install" ->
               \/ r.type \in SoTypes /\ ~ knownOs
               \/ d = Torn
               \/ d \in Daemon /\ Other \in {d.runtimes, d.ascend}
               \/ tmp[r.engine][r.pid] # Missing
               \/ unnoticed
          [] r.op = "upgrade" ->
               \/ ~ t.dir \/ ~ confDir
               \/ t.info # Missing /\ ListType(t.info) \in SoTypes /\ ~ knownOs
          [] r.op = "uninstall" ->
               \/ {"uninstall.sh", "helper"} \cap {f \in PartNames : t.files[f] \notin Versions} # {}
               \/ d = Torn
               \/ tmp[r.engine][r.pid] # Missing

\* A removal that reports success has removed the tree and base.list, and the
\* engine no longer names the runtime; only when that engine has no daemon.json
\* (uninstall.sh:137) or the script is torn does success mean nothing.
UninstalledGone ==
  ~ unnoticed /\ Ended("uninstall", "success") =>
    LET r == last.run IN
    \/ daemon[r.engine] = Missing \/ inst[r.path].files["uninstall.sh"] = Torn
    \/ inst[r.path] = NoTree /\ list = Missing /\ ~ Names(r.engine, r.path)

\* What the scripts report as done is done, in each of the three operations
\* and whatever stopped runs left behind.
SuccessIsTrue == InstalledComplete /\ UpgradedConsistent /\ UninstalledGone

-----------------------------------------------------------------------------
(* The inductive invariant behind UserSettingsKept and DefaultDefined.     *)

HelperTypes ==
  /\ run \in Requests \cup {None}
  /\ step = "idle" <=> run = None
  /\ made \in Daemon \cup {None}
  /\ daemon \in [Engines -> Daemon \cup {Missing, Torn}]
  /\ tmp \in [Engines -> [Pids -> Daemon \cup {Missing, Torn}]]
  /\ first \in FirstDaemons

\* The helper is started on a file that is there, and then has its content.
HelperHasInput ==
  /\ step = "daemon" /\ run.op # "install" => conf # Missing
  /\ step = "temp" => made \in Daemon

\* All that ever becomes daemon.json defines its default runtime.
AllSound ==
  /\ Sound(made)
  /\ \A e \in Engines : Sound(daemon[e]) /\ \A d \in Pids : Sound(tmp[e][d])

\* What the helper is to write, and what is to be renamed, has the user's
\* settings: it is this run's file that is renamed, not an earlier one's.
MadeKept ==
  ~ unnoticed =>
    /\ step \in {"temp", "move"} => made \in Daemon /\ Kept(run.engine, made)
    /\ step = "move" => tmp[run.engine][run.pid] = made

\* Inductive: types, what the helper works on, and the two properties.
IInv == HelperTypes /\ HelperHasInput /\ AllSound /\ MadeKept /\ UserSettingsKept
=============================================================================
