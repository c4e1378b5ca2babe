--------------------------- MODULE ContainerSetup ---------------------------
(***************************************************************************)
(* The prestart hook of one container: ascend-docker-hook reads the mount  *)
(* lists of the host, keeps the paths that exist, and becomes              *)
(* ascend-docker-cli, which checks its arguments, enters the container's   *)
(* mount namespace and binds every path read-only below the rootfs.  runc  *)
(* waits for it: the container starts if the process ends with 0 and is    *)
(* thrown away otherwise.                                                  *)
(*                                                                         *)
(* Every path is looked at five times (hook, argument check, stat, lstat,  *)
(* mount), each time by name.  A driver that is being installed, upgraded  *)
(* or removed changes the paths in between, and some of the looks fail     *)
(* without anyone noticing.                                                *)
(***************************************************************************)
EXTENDS Naturals, Sequences, FiniteSets

CONSTANTS
  Paths,        \* host paths, none below another
  WhiteList,    \* those of CheckWhiteList
  ListOf,       \* the *.list files under /etc/ascend-docker-runtime.d
  Requests,     \* what the container's environment asks for
  Hosts,        \* what the host may have at each path to begin with
  Images,       \* what the rootfs has at each path before the hook runs
  MaxEntries,   \* maxEntryNumber of readMountConfig
  MaxMounts,    \* MAX_MOUNT_NR
  MaxArgc,      \* MAX_ARGC
  MaxChanges    \* bound: changes of host paths and unnoticed failures

\* What a host path is: "link" is a symbolic link to a regular file,
\* "linkdir" a directory with a link in it, "refused" a regular file that
\* CheckExternalFile does not accept (mode or size), "other" a device, a
\* socket or a fifo.
Kinds == {"missing", "file", "refused", "link", "dir", "linkdir", "other"}
IsFile(k) == k \in {"file", "refused", "link"}       \* as stat sees it
IsDir(k)  == k \in {"dir", "linkdir"}
Mountable(k) == IsFile(k) \/ IsDir(k)

Options == {"NODRV", "VIRTUAL", "invalid"}

Request == [
  visible : BOOLEAN,               \* ASCEND_VISIBLE_DEVICES is not empty
  lists   : Seq(STRING),           \* ASCEND_RUNTIME_MOUNTS, "base" if unset
  options : Seq(Options),          \* ASCEND_RUNTIME_OPTIONS
  link    : {"True", "False", "invalid"}]   \* ASCEND_ALLOW_LINK

ASSUME SetupAssumption ==
  /\ WhiteList \subseteq Paths
  /\ DOMAIN ListOf \subseteq STRING
  /\ \A name \in DOMAIN ListOf : ListOf[name] \in Seq(Paths)
  /\ Requests \subseteq Request
  /\ Hosts \subseteq [Paths -> Kinds]
  /\ Images \subseteq [Paths -> {"none", "file", "dir"}]
  /\ {MaxEntries, MaxMounts, MaxArgc, MaxChanges} \subseteq Nat

VARIABLES
  pc,        \* the next step of the process, or how it ended
  request,   \* the container's environment
  list,      \* the mount list being read, an index of request.lists
  entry,     \* and its next line
  files,     \* fileMountList
  dirs,      \* dirMountList
  n,         \* the argument being checked, then the one being mounted
  ns,        \* the mount namespace the process is in
  point,     \* what the rootfs has at each path
  mounts,    \* what is mounted there, by namespace
  unseen,    \* whether checkSrcFile met a source that is missing
  host,      \* the host's paths
  gone,      \* history: paths that were no file and no directory at some moment
  moved,     \* history: paths changed since the hook began
  missed,    \* history: paths a call failed for without anyone noticing
  changes    \* number of changes and unnoticed failures

process == <<pc, list, entry, files, dirs, n, ns, point, mounts, unseen>>
paths   == <<host, gone, moved, missed, changes>>
vars    == <<process, request, paths>>

HookSteps == {"config", "lists", "options"}
CliSteps  == {"parse", "enter", "stat", "point", "check", "bind", "remount", "leave"}
Ends      == {"started", "failed"}
MountStates == {"none", "rw", "ro"}
Namespaces  == {"host", "container"}

\* The cli's arguments: the files before the directories (getArgs).
Args == files \o dirs
IsFileArg(i) == i <= Len(files)

\* The arrays of struct MountList hold MAX_MOUNT_NR paths each.
TypeOK ==
  /\ pc \in HookSteps \cup CliSteps \cup Ends
  /\ request \in Requests
  /\ list \in Nat /\ entry \in Nat /\ n \in Nat
  /\ files \in Seq(Paths) /\ dirs \in Seq(Paths)
  /\ pc \in CliSteps \ {"parse"} => Len(files) <= MaxMounts /\ Len(dirs) <= MaxMounts
  /\ ns \in Namespaces
  /\ point \in [Paths -> {"none", "file", "dir"}]
  /\ mounts \in [Namespaces -> [Paths -> MountStates]]
  /\ unseen \in BOOLEAN
  /\ host \in [Paths -> Kinds]
  /\ gone \subseteq Paths /\ moved \subseteq Paths /\ missed \subseteq Paths
  /\ changes \in Nat

Init ==
  /\ pc = "config"
  /\ request \in Requests
  /\ list = 1 /\ entry = 1 /\ n = 1
  /\ files = <<>> /\ dirs = <<>>
  /\ ns = "host"
  /\ point \in Images
  /\ mounts = [s \in Namespaces |-> [p \in Paths |-> "none"]]
  /\ unseen = FALSE
  /\ host \in Hosts
  /\ gone = {p \in Paths : ~ Mountable(host[p])}
  /\ moved = {} /\ missed = {}
  /\ changes = 0

-----------------------------------------------------------------------------
(* The host: a path appears, vanishes or changes its kind.                 *)

Change(p, k) ==
  /\ pc \notin Ends
  /\ changes < MaxChanges
  /\ k # host[p]
  /\ host' = [host EXCEPT ![p] = k]
  /\ gone' = IF Mountable(k) THEN gone ELSE gone \cup {p}
  /\ moved' = moved \cup {p}
  /\ changes' = changes + 1
  /\ UNCHANGED <<process, request, missed>>

-----------------------------------------------------------------------------
(* ascend-docker-hook.                                                     *)

Goto(step) == pc' = step /\ UNCHANGED <<request, paths>>

\* An error, at whatever point: the process ends, runc deletes the container.
Fail == Goto("failed") /\ UNCHANGED <<list, entry, files, dirs, n, ns, point, mounts, unseen>>

\* A call that fails for the paths in ps and is passed over in silence.
Miss(ps) ==
  /\ changes < MaxChanges
  /\ missed' = missed \cup ps
  /\ changes' = changes + 1
  /\ UNCHANGED <<request, host, gone, moved>>

\* A container without devices is left alone.
ReadConfig ==
  /\ pc = "config"
  /\ Goto(IF request.visible THEN "lists" ELSE "started")
  /\ UNCHANGED <<list, entry, files, dirs, n, ns, point, mounts, unseen>>

ListKnown == list <= Len(request.lists) /\ request.lists[list] \in DOMAIN ListOf
Lines == ListOf[request.lists[list]]

HasEntry == pc = "lists" /\ ListKnown /\ entry <= Len(Lines)

\* A path that is neither a file nor a directory goes into neither list.
Take(p) ==
  /\ files' = IF IsFile(host[p]) THEN Append(files, p) ELSE files
  /\ dirs'  = IF IsDir(host[p]) THEN Append(dirs, p) ELSE dirs

\* readMountConfig takes a line.
TakeEntry ==
  /\ HasEntry
  /\ entry <= MaxEntries
  /\ Take(Lines[entry])
  /\ entry' = entry + 1
  /\ Goto("lists")
  /\ UNCHANGED <<list, n, ns, point, mounts, unseen>>

\* stat fails for a path that is there, which is "skipped with any problems".
EntryMissed ==
  /\ HasEntry
  /\ entry <= MaxEntries
  /\ Miss({Lines[entry]})
  /\ entry' = entry + 1
  /\ UNCHANGED <<pc, list, files, dirs, n, ns, point, mounts, unseen>>

\* Reading fails or a line is too long: the scan ends as at the end of the
\* file, nobody asks scanner.Err().  What was read of the line counts as a
\* line; it names no white-listed path, none of which begins another.
ScanStops ==
  /\ HasEntry
  /\ Miss({Lines[j] : j \in entry..Len(Lines)})
  /\ \/ UNCHANGED <<files, dirs>>
     \/ entry <= MaxEntries /\ \E p \in Paths \ WhiteList : Take(p)
  /\ list' = list + 1
  /\ entry' = 1
  /\ UNCHANGED <<pc, n, ns, point, mounts, unseen>>

\* Mutant: a last line without a newline is lost.
NextListEarly ==
  /\ pc = "lists"
  /\ ListKnown
  /\ entry >= Len(Lines)
  /\ list' = list + 1
  /\ entry' = 1
  /\ Goto("lists")
  /\ UNCHANGED <<files, dirs, n, ns, point, mounts, unseen>>

NextList ==
  /\ pc = "lists"
  /\ ListKnown
  /\ entry = Len(Lines) + 1
  /\ list' = list + 1
  /\ entry' = 1
  /\ Goto("lists")
  /\ UNCHANGED <<files, dirs, n, ns, point, mounts, unseen>>

ListsRead ==
  /\ pc = "lists"
  /\ list > Len(request.lists)
  /\ Goto("options")
  /\ UNCHANGED <<list, entry, files, dirs, n, ns, point, mounts, unseen>>

\* A list that is not there or too long is an error.
ListRefused ==
  /\ pc = "lists"
  /\ list <= Len(request.lists)
  /\ ListKnown => entry <= Len(Lines) /\ entry > MaxEntries
  /\ Fail

\* parseRuntimeOptions and parseSoftLinkMode, as the hook does them.
HookAccepts ==
  /\ \A i \in DOMAIN request.options : request.options[i] # "invalid"
  /\ request.link # "invalid"

\* getArgs and exec: the link mode comes first, the files before the
\* directories.
ExecCli ==
  /\ pc = "options"
  /\ HookAccepts
  /\ Goto("parse")
  /\ UNCHANGED <<list, entry, files, dirs, n, ns, point, mounts, unseen>>

OptionsRefused == pc = "options" /\ ~ HookAccepts /\ Fail

-----------------------------------------------------------------------------
(* ascend-docker-cli.                                                      *)

AllowLink == request.link = "True"
NoDrv == \E i \in DOMAIN request.options : request.options[i] = "NODRV"

\* argv[0], three options with a value, the mounts and perhaps --options.
Argc == 7 + 2 * Len(Args) + (IF request.options = <<>> THEN 0 ELSE 2)

\* OptionsCmdArgParser compares with three literal strings.
CliOptions == {<<>>, <<"NODRV">>, <<"VIRTUAL">>, <<"NODRV", "VIRTUAL">>}

\* CheckFileLegality: realpath of the argument is the argument, or fails
\* because there is no such file.
Legal(k) == AllowLink \/ k # "link"

\* Mutant: the count is compared with the bound after the copy.
AcceptedOneMore(i) ==
  /\ IF IsFileArg(i) THEN i <= MaxMounts + 1 ELSE i - Len(files) <= MaxMounts + 1
  /\ Legal(host[Args[i]])
  /\ Args[i] \in WhiteList

\* Mutant: the white list is forgotten.
AcceptedAnyName(i) ==
  /\ IF IsFileArg(i) THEN i <= MaxMounts ELSE i - Len(files) <= MaxMounts
  /\ Legal(host[Args[i]])

\* MountFileCmdArgParser and MountDirCmdArgParser.
Accepted(i) ==
  /\ IF IsFileArg(i) THEN i <= MaxMounts ELSE i - Len(files) <= MaxMounts
  /\ Legal(host[Args[i]])
  /\ Args[i] \in WhiteList

\* The mounts are parsed one by one; --options comes after them.
ParseMount ==
  /\ pc = "parse"
  /\ Argc <= MaxArgc
  /\ n <= Len(Args)
  /\ Accepted(n)
  /\ n' = n + 1
  /\ Goto("parse")
  /\ UNCHANGED <<list, entry, files, dirs, ns, point, mounts, unseen>>

ParseOptions ==
  /\ pc = "parse"
  /\ Argc <= MaxArgc
  /\ n = Len(Args) + 1
  /\ request.options \in CliOptions
  /\ n' = 1
  /\ Goto("enter")
  /\ UNCHANGED <<list, entry, files, dirs, ns, point, mounts, unseen>>

ArgsRefused ==
  /\ pc = "parse"
  /\ \/ Argc > MaxArgc
     \/ n <= Len(Args) /\ ~ Accepted(n)
     \/ n = Len(Args) + 1 /\ request.options \notin CliOptions
  /\ Fail

\* setns: to the namespace of the container's pid, and back to the one whose
\* descriptor DoPrepare has kept.
EnterNsByPath == ns' = "container"
EnterNsByFd == ns' = "host"

\* DoPrepare and EnterNsByPath; with NODRV, DoMounting returns at once.
EnterNs ==
  /\ pc = "enter"
  /\ EnterNsByPath
  /\ Goto(IF NoDrv THEN "leave" ELSE "stat")
  /\ UNCHANGED <<list, entry, files, dirs, n, point, mounts, unseen>>

Src == Args[n]
Class(i) == IF IsFileArg(i) THEN "file" ELSE "dir"
ClassOf(k) == IF IsDir(k) THEN "dir" ELSE "file"

\* Mutant: a skipped source does not advance the loop.
StatSourceStays ==
  /\ pc = "stat"
  /\ n <= Len(Args)
  /\ Goto(IF host[Src] = "missing" THEN "stat" ELSE "point")
  /\ UNCHANGED <<list, entry, files, dirs, n, ns, point, mounts, unseen>>

\* MountFile and MountDir: a source that cannot be stat'd is skipped.
StatSource ==
  /\ pc = "stat"
  /\ n <= Len(Args)
  /\ IF host[Src] = "missing"
     THEN n' = n + 1 /\ Goto("stat")
     ELSE n' = n /\ Goto("point")
  /\ UNCHANGED <<list, entry, files, dirs, ns, point, mounts, unseen>>

\* stat fails for a source that is there, which is skipped too.
SourceMissed ==
  /\ pc = "stat"
  /\ n <= Len(Args)
  /\ Miss({Src})
  /\ n' = n + 1
  /\ UNCHANGED <<pc, list, entry, files, dirs, ns, point, mounts, unseen>>

AllMounted ==
  /\ pc = "stat"
  /\ n > Len(Args)
  /\ Goto("leave")
  /\ UNCHANGED <<list, entry, files, dirs, n, ns, point, mounts, unseen>>

\* MakeMountPoints and MakeDirWithParent: what is there already must be of
\* the argument's class.
MakePoint ==
  /\ pc = "point"
  /\ point[Src] \in {"none", Class(n)}
  /\ point' = [point EXCEPT ![Src] = Class(n)]
  /\ Goto("check")
  /\ UNCHANGED <<list, entry, files, dirs, n, ns, mounts, unseen>>

PointRefused == pc = "point" /\ point[Src] \notin {"none", Class(n)} /\ Fail

\* Mutant: the file and directory checks are left out.
SourceOkAlways(k) == TRUE

\* checkSrcFile, given what lstat sees: only files and directories are looked
\* into, and a source that is not there passes, -1 being true (u_mount.c:33).
SourceOk(k) == k # "refused" /\ (k = "linkdir" => AllowLink)

CheckSource ==
  /\ pc = "check"
  /\ SourceOk(host[Src])
  /\ unseen' = (host[Src] = "missing")
  /\ Goto("bind")
  /\ UNCHANGED <<list, entry, files, dirs, n, ns, point, mounts>>

\* lstat or readdir fails for a source that is there, or readdir does not say
\* what an entry is: the source, or the rest of the directory, is not checked.
CheckMissed ==
  /\ pc = "check"
  /\ host[Src] # "missing"
  /\ Miss({Src})
  /\ pc' = "bind"
  /\ unseen' = FALSE
  /\ UNCHANGED <<list, entry, files, dirs, n, ns, point, mounts>>

SourceRefused == pc = "check" /\ ~ SourceOk(host[Src]) /\ Fail

\* mount(MS_BIND): source and mount point must both be directories or not.
CanBind == host[Src] # "missing" /\ ClassOf(host[Src]) = Class(n)

Bind ==
  /\ pc = "bind"
  /\ CanBind
  /\ mounts' = [mounts EXCEPT ![ns][Src] = "rw"]
  /\ Goto("remount")
  /\ UNCHANGED <<list, entry, files, dirs, n, ns, point, unseen>>

BindRefused == pc = "bind" /\ ~ CanBind /\ Fail

\* Mutant: a remount that fails is not noticed.
RemountMayFail ==
  /\ pc = "remount"
  /\ \/ mounts' = [mounts EXCEPT ![ns][Src] = "ro"]
     \/ UNCHANGED mounts
  /\ n' = n + 1
  /\ unseen' = FALSE
  /\ Goto("stat")
  /\ UNCHANGED <<list, entry, files, dirs, ns, point>>

Remount ==
  /\ pc = "remount"
  /\ mounts' = [mounts EXCEPT ![ns][Src] = "ro"]
  /\ n' = n + 1
  /\ unseen' = FALSE
  /\ Goto("stat")
  /\ UNCHANGED <<list, entry, files, dirs, ns, point>>

\* EnterNsByFd, and the end of the process.
LeaveNs ==
  /\ pc = "leave"
  /\ EnterNsByFd
  /\ Goto("started")
  /\ UNCHANGED <<list, entry, files, dirs, n, point, mounts, unseen>>

\* A system call fails, or a check of the hook's or the cli's own files, and
\* the program says so.
Fault == pc \notin Ends /\ Fail

Unnoticed == EntryMissed \/ ScanStops \/ SourceMissed \/ CheckMissed

-----------------------------------------------------------------------------
Hook == ReadConfig \/ TakeEntry \/ NextList \/ ListsRead \/ ListRefused
        \/ ExecCli \/ OptionsRefused

Cli == ParseMount \/ ParseOptions \/ ArgsRefused \/ EnterNs \/ StatSource
       \/ AllMounted \/ MakePoint \/ PointRefused \/ CheckSource
       \/ SourceRefused \/ Bind \/ BindRefused \/ Remount \/ LeaveNs

Next ==
  \/ Hook
  \/ Cli
  \/ Fault
  \/ Unnoticed
  \/ \E p \in Paths, k \in Kinds : Change(p, k)

Spec == Init /\ [][Next]_vars

\* runc runs the hook until it ends; nobody has to change the host.
FairSpec == Spec /\ WF_vars(Hook \/ Cli)

-----------------------------------------------------------------------------
(* Properties.                                                             *)

Listed ==
  UNION {{ListOf[name][j] : j \in DOMAIN ListOf[name]} :
           name \in DOMAIN ListOf \cap {request.lists[i] : i \in DOMAIN request.lists}}

\* A container that starts has no writable bind mount of a host path: every
\* bind was followed by the read-only remount of the same path, also when a
\* path is listed twice and mounted over itself.
StartedReadOnly ==
  pc = "started" => \A s \in Namespaces, p \in Paths : mounts[s][p] # "rw"

\* A container that starts with devices and without NODRV has every listed
\* path that was a file or a directory all the time and that no call failed
\* for; "skipping files/dirs with any problems" (hook/main.go:262), the
\* silent end of a scan and the cli's skips lose no other.
StartedComplete ==
  pc = "started" /\ request.visible /\ ~ NoDrv =>
    \A p \in Listed \ (gone \cup missed) : mounts["container"][p] = "ro"

\* Nothing is ever mounted in the host's namespace, and in the container's
\* only what is listed and white-listed, for a container that wants it:
\* also when the setup fails halfway.
MountsJustified ==
  \A p \in Paths :
    /\ mounts["host"][p] = "none"
    /\ mounts["container"][p] # "none" =>
         request.visible /\ ~ NoDrv /\ p \in Listed \cap WhiteList

\* A path that did not change during the setup, and that no call failed for,
\* is mounted only if it passes the tests of hook, argument parser and
\* checkSrcFile together: the first drops what is no file and no directory,
\* and neither of the others alone refuses a link and a directory with a link.
StableVetted ==
  \A p \in Paths \ (moved \cup missed) :
    mounts["container"][p] # "none" =>
      /\ Mountable(host[p]) /\ host[p] # "refused"
      /\ host[p] \in {"link", "linkdir"} => AllowLink

\* The hook ends, so runc does not wait for ever, whatever the lists hold
\* and whatever vanishes while they are worked through.
SetupEnds == <>(pc \in Ends)

\* What the comment at u_mount.c:33 says of the check: a source that does not
\* exist (any more) is not mounted.
MissingSourceRefused == pc = "remount" => ~ unseen

\* What the hook has accepted and put on the command line the cli accepts:
\* hook/main_test.go:67 sets ASCEND_RUNTIME_OPTIONS=VIRTUAL,NODRV.
OptionsUnderstood == pc = "parse" => request.options \in CliOptions

-----------------------------------------------------------------------------
(* The inductive invariant.                                                *)

Mounting == {"stat", "point", "check", "bind", "remount"}

Lost == gone \cup missed
Taken(p) == p \in Lost \/ \E i \in DOMAIN Args : Args[i] = p

ListTaken(name) ==
  name \in DOMAIN ListOf /\ \A j \in DOMAIN ListOf[name] : Taken(ListOf[name][j])

\* The hook has put every path it has read so far on the command line, but
\* for those it lost; and nothing else that the cli could accept.
HookInv ==
  /\ \A p \in Paths : ~ Mountable(host[p]) => p \in gone
  /\ \A i \in DOMAIN Args :
       /\ Args[i] \in Listed \cup (Paths \ WhiteList)
       /\ Args[i] \notin moved => Mountable(host[Args[i]])
  /\ pc = "config" => list = 1 /\ entry = 1
  /\ pc \in HookSteps => n = 1
  /\ pc \in {"lists", "options"} \cup CliSteps => request.visible
  /\ pc = "lists" =>
       /\ list >= 1 /\ entry >= 1
       /\ \A i \in DOMAIN request.lists : i < list => ListTaken(request.lists[i])
       /\ ListKnown => \A j \in DOMAIN Lines : j < entry => Taken(Lines[j])
  /\ pc \in {"options"} \cup CliSteps =>
       \A i \in DOMAIN request.lists : ListTaken(request.lists[i])

\* The cli has checked the arguments before n, and all of them once parsed.
ParseInv ==
  /\ pc \in CliSteps => n >= 1
  /\ pc = "parse" => n <= Len(Args) + 1
  /\ \A i \in DOMAIN Args :
       (pc = "parse" /\ i < n) \/ pc \in CliSteps \ {"parse"} =>
         /\ Args[i] \in WhiteList
         /\ IF IsFileArg(i) THEN i <= MaxMounts ELSE i - Len(files) <= MaxMounts
         /\ Args[i] \notin moved => Legal(host[Args[i]])

\* It has mounted those before n; only the bind it is working on is writable.
MountInv ==
  /\ pc \in Mounting => ns = "container" /\ ~ NoDrv
  /\ pc \in Mounting \ {"stat"} => n <= Len(Args)
  /\ pc \in HookSteps \cup {"parse", "enter"} =>
       ns = "host" /\ \A p \in Paths : mounts["container"][p] = "none"
  /\ \A i \in DOMAIN Args :
       (pc \in Mounting /\ i < n) \/ (pc = "leave" /\ ~ NoDrv) =>
         \/ Args[i] \in Lost
         \/ mounts["container"][Args[i]] = "ro"
         \/ pc = "remount" /\ Args[i] = Src
  /\ pc = "enter" => n = 1
  /\ \A p \in Paths : mounts["container"][p] = "rw" =>
       pc = "failed" \/ (pc = "remount" /\ p = Src)
  /\ pc \in {"bind", "remount"} /\ Src \notin moved \cup missed => SourceOk(host[Src])

\* Inductive: what the process has read, checked and mounted so far.
IInv ==
  /\ TypeOK /\ HookInv /\ ParseInv /\ MountInv
  /\ StartedReadOnly /\ StartedComplete /\ MountsJustified /\ StableVetted
=============================================================================
