# Ascend Docker Runtime: TLA+ models, checks and proofs

Ascend Docker Runtime makes Huawei Ascend NPUs available in containers. It is a
handful of short-lived programs that a container engine, runc and each other
start; none of them stays in memory. What they know of each other is in
`config.json`, in their command lines and in the NPU driver. This directory
models these programs, checks the models with TLC and proves the main results
with TLAPS for all values of the constants.

Paths below are relative to the repository (`runtime/main.go` is the file
`src/runtime/main.go` of PROJECT.json).

## 1. The system

| Component | Source | State it keeps | Operations |
|---|---|---|---|
| ascend-docker-runtime | `runtime/main.go` | none of its own; reads and rewrites `config.json` of the bundle; `deviceIdList` for the length of one run | `create`: read and truncate, add prestart hook, split off a vNPU, add poststop hook and devices, write, exec runc; every other command: exec runc |
| dcmi binding | `runtime/dcmi/*.go`, `dcmi_interface_api.h` | one library handle and its function pointers, for the length of a question; the driver's table of vNPUs is behind it | find the card and chip of a device, product and chip names, create a vNPU |
| ascend-docker-hook (prestart) | `hook/main.go` | the lists of files and directories to mount | read the `.list` files, keep the paths that exist, check options, exec the cli |
| ascend-docker-cli | `cli/src/*.c` | `struct CmdArgs`, `g_allowLink`, `g_runtimeOptions`; the container's mount table | check arguments, enter the mount namespace, make mount points, check sources, bind, remount read-only, leave |
| cli logger | `cli/src/logger.c` | one log file and its rotated copy, shared by all containers being set up | append, rotate |
| ascend-docker-destroy (poststop) | `destroy/src/main.c` | none; the driver's table | check three ids, destroy one vNPU |
| mindxcheckutils | `mindxcheckutils/mindxcheckutils.go` | none; modes of the log files | path and string checks, change the mode of rotated logs |
| install helper | `install/deb/src/main.go` | `daemon.json` of the engine | add or remove the runtime, write to a temporary file, rename |
| installer | `build/scripts/run_main.sh`, `uninstall.sh` | installed files, `/etc/ascend-docker-runtime.d`, `daemon.json` | install, upgrade, uninstall |

How they interact: engine → runtime (`create` and the bundle) → dcmi → driver;
runtime → runc by `exec`; runc → hook by the Prestart entry of `config.json`,
with the container's state on stdin; hook → cli by `exec`; runc → destroy by
the Poststop entry. Nothing locks: two `create` commands run at the same time
share the driver, the log files and the host's files.

What is hard here:

- **Partial failure.** `config.json` is truncated long before it is written
  back, the vNPU exists long before the hook that frees it does, a bind mount
  exists before it is read-only. No program undoes anything.
- **Memory in a file.** A bundle may be used for a second `create`; the runtime
  finds its own earlier changes in it.
- **Recycled ids.** The driver hands out the id of a destroyed vNPU again, so a
  stale poststop hook would name a foreign vNPU.
- **Check and use by name.** Five looks at every host path, in two programs,
  while the driver may be upgraded.
- **Limits that disagree.** Ids up to 65535 here, MaxInt32 there; 128 entries
  per list, 512 mounts, 1024 arguments; a driver library of 100 MB here, of 10 MB
  there.
- **One environment, five lookups.** The runtime, its dcmi package and the hook
  each look for the same variables in their own way (first line, last line,
  exact name, trimmed name, stop at a line without `=`), while the runtime
  changes the lines in between.
- **Answers left out.** Searches over cards and devices pass over calls that
  fail; a search that found nothing is an answer as well.

What must be right, by component:

- runtime, dcmi and destroy together: a vNPU is destroyed by nobody but the
  session it was split off for; it does not stay behind unnoticed; its container
  sees it and nothing else of the chip; the hooks are in `config.json` once.
- hook and cli: a container that starts has all it should have, read-only, and
  nothing else; a failed setup leaves nothing outside the container's namespace;
  the setup ends.
- logger: no log file grows without limit, and a log that one process at a time
  writes never loses recent lines.
- installer and helper: an engine whose `daemon.json` names the runtime finds it
  complete; a stopped installation is repaired by repeating it; what the user
  had in `daemon.json` stays.

## 2. The modules

| Module | What it is |
|---|---|
| `VnpuPool` | abstract: units acquired, released by their holder, or abandoned |
| `NpuLifecycle` | the create command, runc as far as needed, and the poststop hook, for several containers that share a driver |
| `NpuLifecycleProofs` | its inductive invariant, and that it implements `VnpuPool` |
| `ContainerSetup` | prestart hook and cli, for one container and a host that changes |
| `ContainerSetupProofs` | its inductive invariant and safety properties |
| `LogRotation` | the log of cli and destroy: processes that create, rotate and append without a lock |
| `LogRotationProofs` | the bound on the files' length, the order of the lines, and that none is lost without overlap |
| `Installer` | `run_main.sh`, `uninstall.sh` and the helper: runs that are stopped or fail halfway |
| `InstallerProofs` | what the helper does to the user's `daemon.json`; what the runs leave in the tree, the lists and the record, and what "success" and "error" mean |
| `EnvLines` | the lookups and edits of environment lines and the parsing of a device list, as operators |
| `BundleEnv` | the create command on one bundle in the detail of lines; with proper variables it implements `NpuLifecycle` |
| `EnvLinesProofs` | lemmas: what the lookups and loops compute for environments and lists of any length, and how edits change the answers |
| `BundleEnvProofs` | the invariants of a bundle over any number of sessions, its properties, and that it implements `NpuLifecycle` |
| `DcmiQueries` | what runtime and destroy ask the driver, one call per step, on healthy and odd hosts |
| `DcmiQueriesProofs` | chip, manager devices, errors and the end of a vNPU, for any hosts and failing calls |
| `LogDirectory` | `ChangeRuntimeLogMode` walking the log directory while loggers change it |
| `LogDirectoryProofs` | why a walk fails and what one that ends has done, for any number of names and walks |
| `MC...` | the instances for TLC, one per component |

Definitions named `...` after a comment that begins with "Mutant:" are faulty
variants of the definition that follows. No specification uses them; replacing
the real definition by one of them makes the named property fail, which shows
that the property depends on that piece of the code.

### 2.1 NpuLifecycle

`stage[c]` is the program counter of container `c`'s session:

    none -> bundle -> loaded -> parsed -> split -> hooked -> ready -> written -> runc
         -> creating -> created -> stopped -> deleted          (failed from anywhere before)

`bundle` to `written` is one run of ascend-docker-runtime, `creating` to
`deleted` is runc. `disk[c]` is `config.json` (`Empty` once truncated), `mem[c]`
the spec in the memory of the process that runs at this stage: the runtime's
between read and exec, runc's copy afterwards. `ids[c]` is `deviceIdList`.
`owner` and `parent` are the driver's table, with the session a vNPU was split
off for as history.

| Code | Action |
|---|---|
| `modifySpecFile` 594-621: open, read all, `Truncate(0)` | `LoadSpec` |
| `json.Unmarshal`, `checkVisibleDevice` | `ParseSpec` (or `Reject`) |
| `addHook` 208-249: the scan for our hook, the early return for VIRTUAL | `AddHook` |
| `CreateVDevice` and `updateEnvAndPostHook` | `SkipSplit`, `SplitDevice`, `SplitTooLarge` |
| `addDevice`, `addDeviceToSpec` | `AddDevice` |
| `WriteAt` | `WriteSpec` |
| `execRunc` | `ExecRunc` |
| every `return fmt.Errorf`, panic or kill | `Reject` where the state decides it, else `Die` |
| runc: load, prestart, run and end, poststop, delete | `CreateContainer`, `Prestart`, `PrestartFails`, `Stop`, `Delete` |
| `DestroyEntrance` | `DestroyVNpu`, `DestroyRefused`, `DestroyDies` |

Abstractions. A device list is the set of its ids; that is exact for what
`CreateVDevice` asks (exactly one id), because the list without adjacent
duplicates has length 1 exactly when all entries are equal. `ASCEND_VNPU_SPECS`
is "none", a template `CreateVDevice` knows, or one it does not. Only davinci
nodes are in `devs`; the manager devices are the same for all containers.
`run` and other commands that go straight to runc are not modelled (engines use
`create`).

One thing in the code deserves a note, because the safety of bundle reuse hangs
on it. After a split, `updateEnvAndPostHook` marks the container VIRTUAL in
`config.json` but leaves `ASCEND_VISIBLE_DEVICES` at the physical id. A second
`create` on that bundle carries the poststop hook of the first and skips the
split; it would later destroy a vNPU that may belong to another container by
then. It never gets there: it looks for `/dev/vdavinci<physical id>`, which does
not exist. The mutant `UpdateEnvVisible`, which rewrites the variable as the
unit test expects, breaks exactly this.

### 2.2 ContainerSetup

`pc` runs over the steps of one process, first the hook's image, then the cli's:

    config -> lists -> options -> parse -> enter -> stat -> point -> check -> bind -> remount -> (stat) ... -> leave -> started
                                                                                      (failed from anywhere)

| Code | Action |
|---|---|
| `getContainerConfig`, no `ASCEND_VISIBLE_DEVICES` | `ReadConfig` |
| `readMountConfig`, one line: `os.Stat`, file or directory list, or neither | `TakeEntry` |
| `os.Stat` or `filepath.Abs` fails, `continue`; the scanner stops with an error nobody reads | `EntryMissed`; `ScanStops` |
| next list; all lists read; list missing or too long | `NextList`, `ListsRead`, `ListRefused` |
| `parseRuntimeOptions`, `parseSoftLinkMode`, `getArgs`, `doExec` | `ExecCli`, `OptionsRefused` |
| `Process`: `ParseOneCmdArg` per mount, then `--options` | `ParseMount`, `ParseOptions`, `ArgsRefused` |
| `DoPrepare`, `EnterNsByPath`, `IsOptionNoDrvSet` | `EnterNs` |
| `MountFile`/`MountDir`: `stat`, skip if missing or if `stat` fails | `StatSource`, `SourceMissed`, `AllMounted` |
| `MakeMountPoints`, `MakeDirWithParent` | `MakePoint`, `PointRefused` |
| `checkSrcFile`; `lstat` or `readdir` fails and the check goes on | `CheckSource`, `SourceRefused`; `CheckMissed` |
| `mount(MS_BIND)`, `mount(MS_REMOUNT \| MS_RDONLY)` | `Bind`, `BindRefused`, `Remount` |
| `EnterNsByFd` | `LeaveNs` |
| any other call that fails, any check of the programs' own files | `Fault` |

The host changes a path with `Change`. A path has a kind: missing, file, a file
the checks refuse for its mode or size, link to a file, directory, directory with
a link in it, or something else (a device, a socket), which the hook puts in
neither of its lists and says nothing of.

Four failures go unnoticed: the hook passes over a path it cannot `stat`
(`EntryMissed`) and never reads `scanner.Err()`, so that a read error or a line
that is too long ends the list (`ScanStops`; what was read of the line is taken
for a path, which is not white-listed), the cli passes over a source it cannot `stat`
(`SourceMissed`), and `checkSrcFile` lets pass what `lstat` or `readdir` does not
tell it (`CheckMissed`). `missed` has the paths such a failure concerned, `gone`
those that were no file and no directory at some moment; `StartedComplete` says
that no other path is lost. Changes and unnoticed failures together are at most
`MaxChanges`.

`realpath` of a path that is not
there gives ENOENT and the path itself, so `CheckFileLegality` accepts it
(`Legal`). `lstat` on a link sees neither a file nor a directory, so
`checkSrcFile` looks no further (`SourceOk`): links are refused by the argument
check alone, directories with links by the source check alone. A mode that is
wrong on a directory, or a link in a parent directory, has the same effect as
`refused` and has no kind of its own.

### 2.3 LogRotation

`pc[p]` is the next system call of process `p` in its call of `Logger`:

    idle -> access (-> creat) -> resolve -> measure -> resolve again -> open -> write -> idle
                                            measure -> unlink -> rename -> chmod -> access again (-> creat again) -> resolve again

| Code | Action |
|---|---|
| `Logger`, `DivertAndWrite` | `Call` |
| `CreateLog`: `access`, `creat` | `Exists`, `Creat` |
| `realpath` in `GetLogSize`, `LogFileProcess` | `Resolve` |
| `GetLogSizeProcess`, the comparison in `LogConvertStorage` | `Measure` |
| `LogLoop`: `unlink`, `rename`, `chmod` | `Unlink`, `Rename`, `Chmod` |
| `WriteLogInfo`: `fopen`, `fwrite` with `fclose` | `Open`, `Write` |
| any early `return`, a failing `CheckExistsFile`, a kill | `Fault` |

A file is an inode, so that a process with the log open goes on writing to the
file it opened after the name has moved on. Length is counted in lines. `fwrite`
only fills the buffer of the stream, and a line fits in it, so the file grows
once, at `fclose`. The four calls `access`, `creat`, `rename` and `open` really
are separate; the `CheckExistsFile` before `unlink` and `rename` only refuses,
which is a fault.

With overlapping calls lines do get lost: `creat` truncates a log another
process made in the meantime, and two rotations in a row drop a log that holds
less than the limit. `SequentialKeepsRecent` says that this is all: without
overlap the record is gapless and recent, also across kills.

### 2.4 Installer

A run is a command line (`run`) and the next step of its script:

    install:    dirs -> copy (six times) -> list -> so -> daemon -> temp -> move -> args
    upgrade:    dirs -> copy (six times) -> list -> so -> args
    uninstall:  script -> daemon -> temp -> move -> config -> remove

| Code | Action |
|---|---|
| `run_main.sh` from the parameters to the call of a function | `Begin` |
| `mkdir`s of `install`, directory tests of `upgrade` | `MakeDirs` |
| one `cp` of an executable or of `uninstall.sh` | `CopyPart` |
| `base.list` of the type; `add_so`; `save_install_args` | `PutList`, `AddSo`, `SaveArgs` |
| helper: `createJsonString` with `modifyDaemon`; `writeJson` | `Helper` (or `HelperBroken`), `WriteTemp` |
| `mv -f daemon.json.<PPID> daemon.json` | `MoveTemp` |
| `uninstall` up to the helper; the two `rm -rf` | `Script`; `RemoveConfig`, `RemoveTree` |
| a check that refuses, a command that fails, a kill | `Fault`, with `Partly` for the write in progress |

`Fault` either ends the run or, at the steps whose commands the scripts do not
check, lets it go on (`unnoticed`). `HelperBroken` is the helper of the installed
tree after a copy that was cut off: a shell reports an error for a damaged
program, but runs an empty file as an empty script, with success; the `mv` after
it then fails unnoticed. Of `daemon.json` the model has what `modifyDaemon`
reads and changes, and "user" for all the rest. Two runs never overlap; the
README of the repository does not provide for that, and nothing prevents it.

`upgrade` picks the first recorded type in its own order, installs that type's list,
and records this type next to the one it was given, if any. `UpgradedConsistent`
says that this is all the record then has, whatever earlier and stopped runs had
left in it. With two types in the record the next upgrade may pick the other one; an
upgrade without a type makes record and list agree.

### 2.5 EnvLines and BundleEnv

A line of `process.env` is its name, whether blanks surround the name, the number
of `=` in it and its value; a value is a sequence of entries (a number, a range,
a chip name, a word). `EnvLines` has one operator per function:

| Code | Operator |
|---|---|
| runtime `getValueByKey` (first exact name; nothing behind a line without `=`) | `GetValueByKey` |
| runtime `getValueByDeviceKey` (the first value with "Ascend", else the last) | `GetValueByDeviceKey` |
| dcmi `extractVpuParam` | `ExtractVpuParam` |
| `parseDevices`, `parseAscendDevices`, `removeDuplication` | `Parses`, `Listed`, `SortSlice`, `RemoveDuplication` |
| `updateEnvAndPostHook`, `addLDEnv`, `addEnvToDevicePlugin` | `WithVirtual`, `AddLDEnv`, `AddEnvToDevicePlugin` |
| hook `getValueByKey`, `parseRuntimeOptions`, `doPrestartHook` | `HookPanics`, `OptionsValid` with `OptionsLength`, `HookVerdict` |

`sort.Slice` gets a comparison of indices instead of values; what comes out
depends on the library's algorithm. `SortSlice` leaves a list of up to twelve
entries in place (insertion sort with `i < j` never swaps) and gives any order
for longer ones. Repetitions that are not neighbours stay, hence
`DevicesAsAsked`.

`BundleEnv` is `NpuLifecycle`'s create command for one container with these
operators in the place of `vis`, `valid`, `split` and `virt`, and with
`deviceIdList` as a sequence. `Abstract` computes those four from the lines, and
`ImplementsLifecycle` says that every step of a session whose environment is
`Proper` (each variable the programs look for is set at most once, without
blanks, with one `=`, and no line lacks one) is the step `NpuLifecycle` has at
that point. For other environments this is false, and the other invariants say
what still holds: `SplitSeesOnlyVNpu` however odd the lines are.

The hook refuses options longer than 128 characters and environments of more than
65535 lines (`MaxOptions`, `MaxLines`). `OptionsLength` computes the former for
options the hook knows, written without blanks; unknown ones are refused anyhow. The
runtime's edits can take both over the limit: `Spoiled` are the options that
`,VIRTUAL` makes invalid, the empty ones and those of 121 to 128 characters.
`HookFollows` says that for proper variables within `MaxLines` these are the only
ones for which the verdict changes.

### 2.6 DcmiQueries

A host is what the driver would say: the cards, the number of devices of each,
logic ids, names, product type; also the manager nodes in `/dev` and the size of
`libdcmi.so`. A session asks, in this order, for the chip name (if the list has
`Ascend...` names: `ask.type` is the type they name, and a name of another type is
an error, `main.go:355`), for the chip of a physical id (if there is to be a
vNPU), for the chip name again and for the product type. Each question runs through

    open -> (logic) -> list -> count -> ask ... -> (create) -> close

| Code | Action |
|---|---|
| `Initialize`, `dcmiInit_dl`; `ShutDown`, then `parseAscendDevices` 355 | `Open`, `OpenFails`; `Close` |
| `GetCardList`; `GetDeviceNumInCard` | `ListCards`; `CountDevices`, `SkipCard` |
| `FindDevice`: physical to logic id; logic id of one device | `LogicOfPhysical`; `AskLogicId` |
| `GetChipName`, `GetProductType` on one device | `AskName`, `AskProduct`, `SkipDevice` |
| end of the loops | `NextDevice`, `SearchEnds` |
| `dcmi_create_vdevice` and the hook's arguments | `CreateVDevice` |
| any `return ..., err` | `QueryFails` |
| `addManagerDevice`, `addAscend310BManagerDevice` | `AddManagerDevice` |
| destroy: `EntryCheck`; `DeclareDcmiApiAndCheck`; `DcmiDestroyProcess` | `CheckArgs`; `LoadForDestroy`; `Destroy`, `DestroyFails` |

`ManagerDevicesRight` holds for a reason that is not in the functions
themselves: when no device answers, `GetProductType` returns "" without an
error, and a container on an Atlas 200 is to get nodes that board does not have;
the session then fails because the nodes are missing. `HostAssumption` says what
this takes for granted, an Atlas 200 without common manager nodes and chips of
one kind, and that each device a card counts can be asked. `Healthy` says what a
host must be to be served, the type the list names included.

### 2.7 LogDirectory

Names are numbers in lexical order; some are backups of the program's own log,
the others belong to strangers (the cli's log, the hook's).

| Code | Action |
|---|---|
| `filepath.Walk`: names read; `lstat` of one | `ReadNames`; `Look` |
| the function it calls: count, error, prefix, link | `Consider` |
| `os.Chmod` | `Chmod` |
| `return nil` of `ChangeRuntimeLogMode` | `WalkEnds` |
| hwlog: new backup; oldest removed | `Rotate`; `Prune` |
| `LogLoop`: `unlink` and `rename`; the file comes back | `StrangerGoes`; `StrangerComes` |

The function hands on the error of `lstat` before it looks at the prefix, so a
stranger's file that goes at the wrong moment ends a create command whose
`config.json` is already written; in `NpuLifecycle` that is `Die` at `written`.

## 3. The runs

| Run | Checks | Shows |
|---|---|---|
| `lifecycle_safety` | `TypeOK`, `HooksNameOwn`, `SplitIsolated`, `NoSilentLeak`, `HookIffDevices`, `ImplementsPool` | ownership of vNPUs over two containers, two sessions each, two faults |
| `lifecycle_live` | `EveryVNpuReturned` | nothing stays behind, under fairness |
| `visible_after_split` | `VisibleNamesVNpu` (violated) | finding 1 |
| `setup_safety` | `TypeOK`, `StartedReadOnly`, `StartedComplete`, `MountsJustified`, `StableVetted`, `SetupEnds` | what a started or abandoned container has mounted, and that the hook ends |
| `setup_vanish` | `MissingSourceRefused` (violated) | finding 2 |
| `setup_options` | `OptionsUnderstood` (violated) | finding 3 |
| `log_safety` | `TypeOK`, `SizeBounded`, `LinesInOrder`, `SequentialKeepsRecent` | length, order and loss of log lines under concurrent rotation |
| `installer_safety` | `TypeOK`, `NamedIsThere`, `SuccessIsTrue`, `UserSettingsKept`, `DefaultDefined`, `ErrorHasCause` | what stopped and repeated runs leave behind, and what "success" means |
| `bundle_safety` | `TypeOK`, `SplitSeesOnlyVNpu`, `DevicesAsAsked`, `HookFollows`, `LibraryPathKept`, `ImplementsLifecycle` | what five lookups make of 34 environments in two sessions, and whether the hook still agrees |
| `bundle_options` | `EmptyOptionsAccepted` (violated) | finding 4 |
| `dcmi_safety` | `TypeOK`, `VNpuOnAskedChip`, `ManagerDevicesRight`, `ErrorHasCause`, `DestroyedOrCause`, `SessionEnds` | which chip is split, which nodes are added and when a session fails, on thirteen hosts with failing calls |
| `logdir_safety` | `TypeOK`, `FailureHasCause`, `DoneReadOnly`, `WalksEnd` | when a walk over a changing directory fails, and what one that succeeds has done |

Deadlock is not checked: containers, setups and installations end, and rounds
are bounded.

**Bounds of the lifecycle runs.** Two containers (symmetric in the safety run)
are enough for a foreign vNPU: one that owns it and one whose hook names it.
Two sessions each give the reused bundle and the id handed out again. Two faults
let an error happen in each session, or in both containers. The two physical
NPUs have card and device numbers that differ, so that swapping them shows. The
three vNPU ids are one everybody accepts, one above destroy's `ID_MAX`, and one
above the runtime's limit; the limits keep their order, `VdevMax` is lowered
from MaxInt32 to 99999. The seven requests are: two plain devices, none, a list
that does not parse, a split, a split of two devices, an unknown template, and
an existing vNPU named by the user. The live run has no symmetry, fewer
requests, two vNPU ids and one fault.

**Bounds of the setup runs.** Two white-listed paths, of which one begins as
any kind and the other as missing, file or directory (21 hosts; a change makes either
anything), and one the cli does not know; two root file systems; thirteen requests with
the list used twice, a path listed twice, an empty, an unknown and an over-long
list, a list with the unknown path, each option in both orders, each link mode.
`MaxEntries = 2`, `MaxMounts = 3` and `MaxArgc = 15` put requests on both sides
of each limit. Two changes let a path vanish and come back between any two looks
at it, or both paths change once, or a path change and a failure go unnoticed.

**Bounds of the log run.** Two processes with four lines each and a limit of
one line: enough for two rotations of each, for both to be in a rotation at
once, and for a process that holds a file open across two rotations of the
other. Four inodes are what two names and two open files can refer to, so the
file system never runs out of them (`LogAssumption`). Two faults. Processes and
inodes are symmetric. `SizeBounded` is tight: the limit plus both lines is reached.

**Bounds of the installer runs.** Three runs and two faults: a fault in the
first run, a fault in the second, and a third that finds what both left. Nine
command lines: an install with libraries of the operating system and one without,
for Docker at two paths, and one for iSula at the first of them; upgrades with
and without a type; removals for both engines, one of them with the PPID of an
earlier run. Three of the five types stand for all: the first two in the order
an upgrade looks for them, one of those with libraries, and a later one.
`daemon.json` begins missing, not parsable, with another default runtime,
without runtimes, or with an entry that is no object.

**Bounds of the bundle runs.** Sixteen proper environments (no split, split, several
devices, repetitions, ranges, chip names of the right and the wrong type, what does
not parse, an existing vNPU, the device plugin), two with options set to nothing,
four with options as long as the hook accepts, as long as they may be before a
split, or longer, twelve odd ones (a variable twice, a torn line before what counts,
blanks, two `=`). Two sessions, on one bundle or two, two faults, three devices and
two vNPU ids, so that the second session of a bundle can be tempted to split again.
`InPlace = 3` stands for twelve, the length up to which Go's sort does not move
anything here, `MaxDevice = 2` for 128, `MaxOptions = 15` for 128 characters and
`MaxLines = 5` for 65535 lines, so that two sessions reach both. vNPU ids above the
runtime's limit are left to `NpuLifecycle`.

**Bounds of the dcmi run.** Thirteen hosts. Seven ordinary ones: each chip
type, one to three cards, card and logic ids in other orders and with gaps, a
first device without a name, a library only the runtime accepts, the manager
node under its other name. Six odd ones: no card, a negative card id, more
devices than allowed, a logic id above the limit, a card id above destroy's, a
library nobody accepts. Lists of plain numbers and of each of the four chip types,
so that most do not match the host. Physical ids are logic ids but for two that change
places; of two that are unknown, one has no logic id within `FindDevice`'s limit,
and one has a logic id that no device has. Three calls fail at most, as many as
the largest host has devices to pass over. `MaxCards = 3`, `MaxDevices = 2` and
`MaxLogic = 4` scale 64, 4 and 127, so that the largest logic id stays below the
number of devices there can be; library sizes are in MB.

**Bounds of the log directory run.** Two walks, three changes, a directory with
up to two strangers (one sorted before and one behind the backups) and three
backups, so that it can hold one name more than `MaxFileNum = 5` (for 32) allows;
the first backup is a link, if it is there. Three changes are enough for a file
to go before either walk, or a rotation and the prune it causes.

**Fairness.** `NpuLifecycle`: weak fairness of each container's `RuntimeStep` and
`RuncStep` (a process that can go on does; the operating system schedules it) and of
`Stop` (every container ends some day). None for the engine, which need not create
anything, nor for faults. `ContainerSetup`: weak fairness of `Hook \/ Cli`, one
sequential process. `DcmiQueries`: weak fairness of `Next`, which is one process at
a time. `LogDirectory`: weak fairness of each walk; the loggers need not do
anything, and cannot keep a walk from going on. None of these needs strong fairness:
a step of a process that is enabled stays enabled until it or a fault is taken, but
for `SplitDevice` when another container takes the last id, and then `Reject` is
enabled instead.

## 4. What the violated runs show

1. `visible_after_split`: `runtime/main_test.go:377` expects
   `ASCEND_VISIBLE_DEVICES=100` after vNPU 100 was split off device 0;
   `updateEnvAndPostHook` (`runtime/main.go:562-592`) leaves the variable alone.
   See 2.1 for why merely changing it would be worse.
2. `setup_vanish`: `checkSrcFile` (`cli/src/u_mount.c:29`) returns `bool`, and for
   a source that does not exist `return -1`, which is `true`. `mount` then fails
   by itself, unless the source is back by then: it is mounted without the checks.
3. `setup_options`: the hook accepts `VIRTUAL,NODRV` (`hook/main_test.go:67`) and
   passes it on; the cli compares with `NODRV,VIRTUAL` (`cli/src/main.c:171`) and
   refuses, so such a container does not start.

4. `bundle_options`: `updateEnvAndPostHook` (`runtime/main.go:575`) appends
   `,VIRTUAL` to whatever `ASCEND_RUNTIME_OPTIONS` is; from an empty value, which
   the hook accepts (`hook/main.go:121`) and `runtime/main_test.go:506` uses, it
   makes `,VIRTUAL`, which the hook refuses. The container does not start.

Seen while modelling the installer, and not kept as runs of their own: the
removal deletes `default-runtime` although the installation may have replaced one
of the user's (`install/deb/src/main.go:253`; `uninstall.sh:132` announces "You
will recover Docker's daemon"); without `daemon.json` of the engine it is told
about, `uninstall.sh:137` ends with 0, removes nothing, and `run_main.sh:324`
reports "uninstall success" (the exemption in `UninstalledGone`); no `cp` of
`install` is checked, and `run_main.sh:274` reports "install executable files
success" after one that failed (the exemption `unnoticed`).

## 5. The proofs

All theorems hold for any containers, ids, requests, paths, lists and limits
that satisfy the ASSUMEs, which TLC evaluates on every run.

**NpuLifecycle.** Assumptions: a physical id is no vNPU id (vNPU ids start at
100 on a host with at most 64 NPUs; `IdsAssumption`); engines write specs
without our hooks (`RequestsAssumption`). `IInv` is type correctness and, for
every container, a conjunction by stage. It is needed because `HooksNameOwn` and
`SplitIsolated` speak of started containers only; the invariant says what holds
on the way: before the split the session owns no vNPU (`EarlyInv`), between the
split and the devices it owns just the one its id list and its only hook name
(`JustSplit`), afterwards hooks and devices are those of that vNPU (`Settled`),
and a spec with a poststop hook lists a physical id and is VIRTUAL (`SpecInv`),
which is why a reused bundle is stopped at `AddDevice`. A step of container `c`
changes only `c`'s entries and, in the driver's table, entries owned by `c` or
free; so the proof has a frame lemma for all other containers and one lemma per
action for `c` itself. `Refinement` shows that each step maps to an acquire, a
release, an abandonment or a stutter of `VnpuPool`.

**ContainerSetup.** Assumption: `SetupAssumption`, the types of the constants.
`IInv` has three parts. `HookInv`: every path read so far is on the command line or
lost (`gone` or `missed`), and nothing else is there but what no white list has.
`ParseInv`: the arguments before `n` are white-listed, within the arrays, and legal
unless changed since. `MountInv`: those before `n` are mounted read-only or lost,
and only the bind being worked on is writable. One lemma per group of steps; changes
of the host are harmless since each statement about a path's kind is confined to
paths that have not moved, and `gone` and `missed` only grow.

**LogRotation.** Assumptions: finitely many processes and inodes, two more inodes
than processes. `FilesBounded` says that no file is longer than the limit plus
one line per process. It is not inductive, because a file at that length must
not be written to again, which depends on who is on the way to write. `Pending(i)`
are the processes that have file `i` open, or have decided to write to whatever
is the log and `i` is; `Fits(i)` bounds the length of `i` plus the number of
these while `i` is over the limit. A process becomes pending only by measuring a
file that is not over the limit, and a line moves it from one summand to the
other. The proof has one step per system call (`StepFits`); only `Write` does
arithmetic, the others either empty the file or leave it and take pending
processes away (`NoGrowth`).

`LinesInOrder` speaks of the rotated file and the log one after the other, so it
needs an order between files (`OldFirst`): the rotated file's lines are the
older ones of their process, and a process that still has another file than the
log open has no line in the log. `Past` ties the lines to the process's count,
so that the next one is younger than all. Only `Write` adds a line; all other
steps (`Moves`) empty files, let the log go or make it anew. For
`SequentialKeepsRecent` the invariant is about the one process under way, as long
as no two calls ever overlapped: what it has seen of the two names is still so
when it acts (`Seen`). A rotation drops the rotated file only when the log has
more than `MaxSize` lines, and these are then the last of all (`RecentTail`).

**Installer.** Assumptions: `None`, `Missing` and `Torn` are no contents of a
`daemon.json`, no requested path is `None`, and a `daemon.json` found on the host
defines the default runtime if that is `ascend` (`Sound`). Proved in
`InstallerProofs` are first `UserSettingsKept` and `DefaultDefined`. Neither is
inductive: what becomes `daemon.json` was computed three steps earlier and lay in
a temporary file in between, where a file of an earlier, stopped run may lie as
well. So `IInv` says of the helper's result and of every temporary file that it
is sound (`AllSound`), and of the file about to be renamed that it is this run's and has
the user's settings (`MadeKept`), unless a failure went unnoticed; that is where
the refusal to write over a file left behind is needed. All steps but the three
of the helper and the rename are `Quiet`: they leave `daemon.json` alone, and a
temporary file at worst torn. The lemma `Modified` is about the helper's two
changes, adding and removing the runtime.

The rest of the module has the properties of the installed files. Their further
assumptions (`TreeAssumption`): version numbers, lists and records are told from
"missing" and "torn", `Types` orders members of `TypeSet`, and no `daemon.json`
names the runtime before the first installation. The properties are about what
runs leave behind and say nothing of how a run gets there. `Progress` follows it:
what has been copied, which list has been put, what the helper has made for
`daemon.json`, and that the entry is there from the rename of an installation on
and gone from that of a removal on; each part with the exemption for a failure
that went unnoticed. `Where` says which command is at which step. `NamedIsThere`
and `SuccessIsTrue` rest on `TInv`; the hard steps are the few that remove or
replace what another engine may name.

**EnvLines and BundleEnv.** Assumptions: environments are finite sequences of
lines whose words are texts (`EnvAssumption`, `BundleAssumption`; `Texts` is all
strings in the run), ids, cards and devices are numbers, the container is not one
of the marks for who owns a vNPU, no vNPU id is a physical id, and a truncated
file is no `config.json` (`EmptyAssumption`). All the properties of
`bundle_safety` are proved.

`EnvLinesProofs` has two sorts of lemmas. The lookups are restated by positions
(`Lookups`: the first or the last of the lines at which each of them stops). That
a set of positions has a first one (`FirstPosition`) is taken from the
well-foundedness of strict inclusion. The loops over the device list are
recursive functions, and what they compute is proved for lists of any length:
`CountUp` does the induction (a set of numbers that has 0, and n + 1 with each
n, has all), and `Loop` applies it to a function whose value at n comes from the
value at n - 1. `ListedIds`, `SortedIds` and `RemovedIds` then say that the ids
in the list survive the parse, any order `sort.Slice` leaves them in, and
`removeDuplication`, and that no two neighbours are equal; hence the list counts
as one (`CountsAsOne`) just if it names one id.

The central notion of the first invariant, `BInv`, is `Edited`: a session, and
any number of sessions before it, may have added VIRTUAL to lines of options and
lines behind the engine's, and has changed nothing else. One lemma per lookup
says how its answer changes under `Edited`; `HookFollows` comes from these and from
`EditedOptions` and `EditedVerdict`: an appended VIRTUAL leaves options valid unless
they were empty or had less than eight characters left, and a line already
VIRTUAL is not edited again.
`SplitSeesOnlyVNpu` needs `Owning`: after a split the list is the one vNPU, and a
bundle with devices is VIRTUAL or asks for no split (`SpecOK`), so that a second
session does not split again however the lookups disagree. `LibraryPathKept`
needs the number of sessions: a path that has been added comes from this session
or from an earlier one (`Session`).

The second invariant, `DInv`, follows the ids from the list to the nodes in
`config.json` (`DevicesAsAsked`, `TypeOK`). It is not enough to follow them
within a session: a bundle that was split in an earlier one holds the node of a
vNPU, while its list still names the chip. `DevicesOK` says that such a bundle is
VIRTUAL and its list one chip, whose id is no vNPU's, so that `AddDevice` refuses
it; that is where the disjointness of the ids is needed.

`BundleImplementsLifecycle` has one lemma per action (`...Implements`). Each says
that the step on lines is the step of `NpuLifecycle` under `Abstract`; most are
equations between records. What is not is the split: the rewritten options must be
found by the lookup again, and the template and the list must be what they were
(`WithVirtualFound`, `WithVirtualTemplate`). Only there is it used that the
variables are proper. The theorem is about steps: it does not claim the assumptions
of `NpuLifecycle` about constants for the instance (that ids are at most 99, for
one).

**DcmiQueries.** Assumptions: the limits are numbers in the order they have in
the code (`QueriesAssumption`), and `HostAssumption` of 2.6, with the pair of ids
`FindDevice` starts from naming no device. `VNpuOnAskedChip` needs two facts
about the walk that comes before the split: `TargetInv`, that the logic id looked
for is the one of the physical id, through all the cards; and `FoundInv`, that
what has been found, if anything, has it. The driver's refusal of ids it does not
have excludes the pair a search without a match returns.

`SessionInv` has the rest: the questions still planned (`PlanInv`), a walk that
stays within the driver's list and counts (`WalkInv`), a vNPU on a device some
walk came by, so with a device id below destroy's limit, and a library the
runtime has accepted (`OwnInv`), and a name that some chip gave (`AnswerInv`). For
`ManagerDevicesRight` the decisive lemma is `NodesRight`: a missing product type
leads to the wrong nodes just on an Atlas 200, which does not have them.
`ErrorHasCause` needs an invariant of its own (`Successful`): on a healthy host
without a failing call each walk still has something ahead of it, and each name
it can give is of the type asked for (`HealthyMatch`, `TypeOfMarks`). For a search by
name that is a card; for a search by logic id it is, for every chip asked for,
that the chip has been found or lies ahead (`Ahead`), which each `AskLogicId`
keeps because it passes no device by (`SearchMoves`). `GetCardList`'s filter is
stated by the positions it keeps (`InOrder`), which determine its result;
`ListFacts` is all the proofs need of it.

**LogDirectory.** Assumption: there are finitely many names, all of them ordered,
and the limit is not zero (`DirectoryAssumption`). The properties speak of walks
that have ended; `WalkInv` says of one under way that the names it has read are
there unless lost (`Kept`), that its count and the names still left make up all
the names (`Counted`), that a missing file it has just seen is a lost one
(`Stands`), and that the backups behind it are read-only (`BehindInv`). A count
above the limit then means that there were as many names. The lemma `LeastName`,
that a set of names has a least one, is taken from the well-foundedness of strict
inclusion among the sets of names. Loggers and other walks only remove names
that then count as lost, or make more backups read-only (`LoggersKeep`,
`OthersKeep`).

**Checked before proved.** `TInv`, `BInv`, `DInv`, `OrderInv`, `SeqInv` and
`QInv` (the invariants of the second part of `InstallerProofs`, of
`BundleEnvProofs`, of the two later parts of `LogRotationProofs` and of
`SessionInvariance` of `DcmiQueriesProofs`) were each checked by TLC on the
instance of the component's safety run. The runs kept here check the properties
that follow from them.

**Only model-checked.** The liveness properties (`EveryVNpuReturned`,
`SetupEnds`, `SessionEnds`, `WalksEnd`), which are about fair behaviours and so
about when actions are enabled; and the properties the code
violates. Every invariant and every action property of a passing run has a
theorem.

**Assumed of the outside.** The driver destroys a vNPU only if it is on the chip
named; runc loads `config.json` once per create, runs the poststop hooks once
and goes on if one fails; the bundle is not edited by others between `create`
and runc's load; no listed path lies below another.

## 6. Not modelled, and the plan

In the order of the plan:

1. For the liveness properties, the part that is about single steps: measures
   that each step of a setup, a session or a walk decreases.
2. An abstract all-or-nothing setup that `ContainerSetup` implements, and the
   composition of both state machines: a setup that fails inside a session.

Left out for good: build scripts and package data, log texts, help output, and
the character checks on paths (pure predicates; failing one is a failing step).
