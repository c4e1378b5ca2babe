---------------------------- MODULE NpuLifecycle ----------------------------
(***************************************************************************)
(* The life of containers that ask for Ascend NPUs.                        *)
(*                                                                         *)
(* A container engine writes a bundle (config.json) and runs               *)
(* ascend-docker-runtime create on it.  The runtime reads and truncates    *)
(* the file, adds the prestart hook, splits a virtual NPU (vNPU) off a     *)
(* chip when the container asks for one, adds the device nodes, writes     *)
(* the file back and becomes runc.  runc runs the prestart hook, starts    *)
(* and deletes the container, and runs the poststop hook                   *)
(* ascend-docker-destroy, which gives the vNPU back.  The containers       *)
(* share one driver and nothing else: the runtime keeps no state between   *)
(* two runs but what it writes into config.json.                           *)
(*                                                                         *)
(* runc, the engine and the driver are external; they are modelled as the  *)
(* code uses them.                                                         *)
(***************************************************************************)
EXTENDS Naturals, FiniteSets

CONSTANTS
  Containers,     \* container ids of the engine
  PhysIds,        \* physical NPU ids, /dev/davinci<id>
  VIds,           \* vNPU ids the driver may hand out, /dev/vdavinci<id>
  ChipOf,         \* [card, dev] that FindDevice returns for a physical id
  Requests,       \* the specs engines write into fresh bundles
  IdMax,          \* ID_MAX of destroy/src/main.c: largest id it accepts
  VdevMax,        \* math.MaxInt32 of dcmi.go: largest vdev_id it accepts
  Free, Admin, Orphan,   \* owners of a vNPU that are no container
  NoChip,         \* parent of a vNPU that is not split off
  Empty,          \* content of a truncated config.json
  MaxRounds,      \* bound: sessions (create commands) per container
  MaxFaults       \* bound: calls that fail, or processes killed, in all

Ids == PhysIds \cup VIds

Chip == [card : Nat, dev : Nat]

\* A poststop hook "ascend-docker-destroy card dev vid".
DestroyHook == [card : Nat, dev : Nat, vid : VIds]

\* What config.json says, as far as the runtime looks at it or changes it.
OciSpec == [
  vis    : SUBSET Ids,                       \* ASCEND_VISIBLE_DEVICES, parsed
  valid  : BOOLEAN,                          \* whether that list parses
  split  : {"none", "allowed", "unknown"},   \* ASCEND_VNPU_SPECS
  virt   : BOOLEAN,                          \* VIRTUAL in ASCEND_RUNTIME_OPTIONS
  hooks  : Nat,                              \* ascend-docker-hook in Prestart
  devs   : SUBSET [virt : BOOLEAN, id : Ids],\* davinci devices added
  post   : SUBSET DestroyHook]               \* Poststop

Owners == Containers \cup {Free, Admin, Orphan}

ASSUME IdsAssumption ==
  /\ PhysIds \subseteq Nat
  /\ VIds \subseteq Nat
  /\ PhysIds \cap VIds = {}

ASSUME ConstantsAssumption ==
  /\ ChipOf \in [PhysIds -> Chip]
  /\ NoChip \notin Chip
  /\ Empty \notin OciSpec
  /\ {Free, Admin, Orphan} \cap Containers = {}
  /\ Free # Admin /\ Free # Orphan /\ Admin # Orphan
  /\ IdMax \in Nat /\ VdevMax \in Nat
  /\ MaxRounds \in Nat /\ MaxFaults \in Nat

\* An engine writes specs without our hooks and devices.
ASSUME RequestsAssumption ==
  Requests \subseteq {s \in OciSpec : s.hooks = 0 /\ s.devs = {} /\ s.post = {}}

VARIABLES
  stage,      \* where each container's session is
  disk,       \* config.json of each bundle
  mem,        \* the spec the session's process holds in memory
  ids,        \* deviceIdList of the session's runtime process
  owner,      \* for each vNPU id, the session it was split off for
  parent,     \* for each vNPU id, the chip it is on
  reported,   \* whether a process of the session has exited with an error
  rounds,     \* number of sessions begun
  faults      \* number of faults that happened

vars == <<stage, disk, mem, ids, owner, parent, reported, rounds, faults>>
driver == <<owner, parent>>

\* The stages at which the runtime process is alive, and runc's.
RuntimeStages == {"bundle", "loaded", "parsed", "split", "hooked", "ready", "written"}
LiveStages    == {"creating", "created", "stopped"}
EndStages     == {"failed", "deleted"}
Stages        == {"none", "runc"} \cup RuntimeStages \cup LiveStages \cup EndStages

TypeOK ==
  /\ stage \in [Containers -> Stages]
  /\ disk \in [Containers -> OciSpec \cup {Empty}]
  /\ mem \in [Containers -> OciSpec \cup {Empty}]
  /\ ids \in [Containers -> SUBSET Ids]
  /\ owner \in [VIds -> Owners]
  /\ parent \in [VIds -> Chip \cup {NoChip}]
  /\ reported \in [Containers -> BOOLEAN]
  /\ rounds \in [Containers -> Nat]
  /\ faults \in Nat

Init ==
  /\ stage = [c \in Containers |-> "none"]
  /\ disk = [c \in Containers |-> Empty]
  /\ mem = [c \in Containers |-> Empty]
  /\ ids = [c \in Containers |-> {}]
  /\ owner \in [VIds -> {Free, Admin}]
  /\ parent \in [VIds -> {NoChip} \cup {ChipOf[p] : p \in PhysIds}]
  /\ \A v \in VIds : (parent[v] = NoChip) <=> (owner[v] = Free)
  /\ reported = [c \in Containers |-> FALSE]
  /\ rounds = [c \in Containers |-> 0]
  /\ faults = 0

-----------------------------------------------------------------------------
(* The engine.                                                             *)

\* A new session: what an earlier one of the same container left split off
\* has no process and no config.json left that will give it back.
BeginSession(c) ==
  /\ stage[c] \in {"none"} \cup EndStages
  /\ rounds[c] < MaxRounds
  /\ rounds' = [rounds EXCEPT ![c] = @ + 1]
  /\ stage' = [stage EXCEPT ![c] = "bundle"]
  /\ mem' = [mem EXCEPT ![c] = Empty]
  /\ ids' = [ids EXCEPT ![c] = {}]
  /\ owner' = [v \in VIds |-> IF owner[v] = c THEN Orphan ELSE owner[v]]
  /\ reported' = [reported EXCEPT ![c] = FALSE]
  /\ UNCHANGED <<parent, faults>>

\* The engine writes a bundle and runs "ascend-docker-runtime create" on it.
NewBundle(c, request) ==
  /\ BeginSession(c)
  /\ disk' = [disk EXCEPT ![c] = request]

\* It runs "create" again on the bundle the last session left behind.
ReuseBundle(c) ==
  /\ stage[c] \in EndStages
  /\ BeginSession(c)
  /\ UNCHANGED disk

-----------------------------------------------------------------------------
(* ascend-docker-runtime.                                                  *)

\* The process ends with an error.  Nothing it did is undone: no return
\* path of modifySpecFile writes the file back or destroys a vNPU.
Abort(c) ==
  /\ stage' = [stage EXCEPT ![c] = "failed"]
  /\ mem' = [mem EXCEPT ![c] = Empty]
  /\ ids' = [ids EXCEPT ![c] = {}]
  /\ reported' = [reported EXCEPT ![c] = TRUE]
  /\ UNCHANGED <<disk, driver, rounds>>

\* modifySpecFile reads the whole file and truncates it.
LoadSpec(c) ==
  /\ stage[c] = "bundle"
  /\ stage' = [stage EXCEPT ![c] = "loaded"]
  /\ mem' = [mem EXCEPT ![c] = disk[c]]
  /\ disk' = [disk EXCEPT ![c] = Empty]
  /\ UNCHANGED <<ids, driver, reported, rounds, faults>>

\* Unmarshal and checkVisibleDevice; a container that asks for no device
\* goes straight to the write.
ParseSpec(c) ==
  /\ stage[c] = "loaded"
  /\ mem[c] # Empty
  /\ mem[c].valid
  /\ ids' = [ids EXCEPT ![c] = mem[c].vis]
  /\ stage' = [stage EXCEPT ![c] = IF mem[c].vis = {} THEN "ready" ELSE "parsed"]
  /\ UNCHANGED <<disk, mem, driver, reported, rounds, faults>>

\* Mutant: the scan is left out.
AddPrestartAlways(spec) == [spec EXCEPT !.hooks = @ + 1]

\* addHook's scan of the prestart hooks: ours is added only once.
AddPrestart(spec) ==
  IF spec.hooks = 0 THEN [spec EXCEPT !.hooks = 1] ELSE spec

\* Mutant: the early return for VIRTUAL is left out.
AddHookAlwaysSplits(c) ==
  /\ stage[c] = "parsed"
  /\ mem' = [mem EXCEPT ![c] = AddPrestart(mem[c])]
  /\ stage' = [stage EXCEPT ![c] = "split"]
  /\ UNCHANGED <<disk, ids, driver, reported, rounds, faults>>

\* Mutant: the devices are added before the hooks.
AddHookAfterDevices(c) ==
  /\ stage[c] = "parsed"
  /\ mem' = [mem EXCEPT ![c] = [AddPrestart(mem[c]) EXCEPT !.devs =
               {[virt |-> mem[c].virt, id |-> i] : i \in ids[c]}]]
  /\ stage' = [stage EXCEPT ![c] = IF mem[c].virt THEN "hooked" ELSE "split"]
  /\ UNCHANGED <<disk, ids, driver, reported, rounds, faults>>

\* The part of addHook before CreateVDevice: it returns early, with no
\* split, when the container already names a vNPU.
AddHook(c) ==
  /\ stage[c] = "parsed"
  /\ mem' = [mem EXCEPT ![c] = AddPrestart(mem[c])]
  /\ stage' = [stage EXCEPT ![c] = IF mem[c].virt THEN "hooked" ELSE "split"]
  /\ UNCHANGED <<disk, ids, driver, reported, rounds, faults>>

\* Mutant: card and device change places, as FindDevice returns them.
UpdateEnvSwapped(spec, chip, v) ==
  [spec EXCEPT !.virt = TRUE,
               !.post = @ \cup {[card |-> chip.dev, dev |-> chip.card, vid |-> v]}]

\* Mutant: ASCEND_VISIBLE_DEVICES is rewritten to name the vNPU, so that a
\* second session gets past addDevice with the hook of the first.
UpdateEnvVisible(spec, chip, v) ==
  [spec EXCEPT !.virt = TRUE,
               !.vis = {v},
               !.post = @ \cup {[card |-> chip.card, dev |-> chip.dev, vid |-> v]}]

\* Mutant: the poststop hook is left out.
UpdateEnvNoHook(spec, chip, v) == [spec EXCEPT !.virt = TRUE]

\* Mutant: the arguments of ascend-docker-destroy are in the order card,
\* vNPU, device.
UpdateEnvArgOrder(spec, chip, v) ==
  [spec EXCEPT !.virt = TRUE,
               !.post = @ \cup {[card |-> chip.card, dev |-> v, vid |-> chip.dev]}]

\* updateEnvAndPostHook: VIRTUAL goes into ASCEND_RUNTIME_OPTIONS and the
\* poststop hook is told what to destroy; ASCEND_VISIBLE_DEVICES stays.
UpdateEnvAndPostHook(spec, chip, v) ==
  [spec EXCEPT !.virt = TRUE,
               !.post = @ \cup {[card |-> chip.card, dev |-> chip.dev, vid |-> v]}]

\* CreateVDevice when no (valid) split is asked for.
SkipSplit(c) ==
  /\ stage[c] = "split"
  /\ mem[c].split = "none"
  /\ stage' = [stage EXCEPT ![c] = "hooked"]
  /\ UNCHANGED <<disk, mem, ids, driver, reported, rounds, faults>>

\* What dcmi.CreateVDevice requires before it calls the driver: a known
\* template, exactly one visible device, and one that FindDevice finds.
CanSplit(c, p) ==
  /\ stage[c] = "split"
  /\ mem[c].split = "allowed"
  /\ ids[c] = {p}

\* The driver splits a free vNPU v off the chip of device p.
DriverCreates(c, p, v) ==
  /\ owner[v] = Free
  /\ owner' = [owner EXCEPT ![v] = c]
  /\ parent' = [parent EXCEPT ![v] = ChipOf[p]]

\* addHook's call of CreateVDevice, and updateEnvAndPostHook with the result.
SplitDevice(c) ==
  \E p \in PhysIds, v \in VIds :
    /\ CanSplit(c, p)
    /\ v <= VdevMax
    /\ DriverCreates(c, p, v)
    /\ mem' = [mem EXCEPT ![c] = UpdateEnvAndPostHook(mem[c], ChipOf[p], v)]
    /\ ids' = [ids EXCEPT ![c] = {v}]
    /\ stage' = [stage EXCEPT ![c] = "hooked"]
    /\ UNCHANGED <<disk, reported, rounds, faults>>

\* The driver's id does not fit: an error is returned, the vNPU stays.
SplitTooLarge(c) ==
  \E p \in PhysIds, v \in VIds :
    /\ CanSplit(c, p)
    /\ v > VdevMax
    /\ DriverCreates(c, p, v)
    /\ stage' = [stage EXCEPT ![c] = "failed"]
    /\ mem' = [mem EXCEPT ![c] = Empty]
    /\ ids' = [ids EXCEPT ![c] = {}]
    /\ reported' = [reported EXCEPT ![c] = TRUE]
    /\ UNCHANGED <<disk, rounds, faults>>

\* /dev/davinci<id> or /dev/vdavinci<id> exists.
DeviceNode(virt, id) ==
  IF virt THEN id \in VIds /\ owner[id] # Free ELSE id \in PhysIds

\* addDevice (and addLDEnv): the name of the node follows the VIRTUAL flag.
AddDevice(c) ==
  /\ stage[c] = "hooked"
  /\ \A i \in ids[c] : DeviceNode(mem[c].virt, i)
  /\ mem' = [mem EXCEPT ![c].devs =
               @ \cup {[virt |-> mem[c].virt, id |-> i] : i \in ids[c]}]
  /\ stage' = [stage EXCEPT ![c] = "ready"]
  /\ UNCHANGED <<disk, ids, driver, reported, rounds, faults>>

\* The checks that fail for a reason the state shows.
Rejected(c) ==
  \/ stage[c] = "loaded" /\ mem[c] = Empty
  \/ stage[c] = "loaded" /\ mem[c] # Empty /\ ~ mem[c].valid
  \/ stage[c] = "split" /\ mem[c].split = "unknown"
  \/ /\ stage[c] = "split" /\ mem[c].split = "allowed"
     /\ \/ \A p \in PhysIds : ids[c] # {p}
        \/ \A v \in VIds : owner[v] # Free
  \/ stage[c] = "hooked" /\ \E i \in ids[c] : ~ DeviceNode(mem[c].virt, i)

Reject(c) ==
  /\ Rejected(c)
  /\ Abort(c)
  /\ UNCHANGED faults

\* WriteAt of the marshalled spec.
WriteSpec(c) ==
  /\ stage[c] = "ready"
  /\ disk' = [disk EXCEPT ![c] = mem[c]]
  /\ stage' = [stage EXCEPT ![c] = "written"]
  /\ UNCHANGED <<mem, ids, driver, reported, rounds, faults>>

\* execRunc: the process image is replaced and its memory is gone.
ExecRunc(c) ==
  /\ stage[c] = "written"
  /\ stage' = [stage EXCEPT ![c] = "runc"]
  /\ mem' = [mem EXCEPT ![c] = Empty]
  /\ ids' = [ids EXCEPT ![c] = {}]
  /\ UNCHANGED <<disk, driver, reported, rounds, faults>>

\* Any other failure: a call that returns an error, a panic, a kill, at any
\* point before the container exists.
Die(c) ==
  /\ stage[c] \in RuntimeStages \cup {"runc"}
  /\ faults < MaxFaults
  /\ faults' = faults + 1
  /\ Abort(c)

-----------------------------------------------------------------------------
(* runc and the poststop hook.                                             *)

\* runc loads config.json; from here on it works from its own copy.
CreateContainer(c) ==
  /\ stage[c] = "runc"
  /\ disk[c] # Empty
  /\ mem' = [mem EXCEPT ![c] = disk[c]]
  /\ stage' = [stage EXCEPT ![c] = "creating"]
  /\ UNCHANGED <<disk, ids, driver, reported, rounds, faults>>

\* The prestart hooks succeed.
Prestart(c) ==
  /\ stage[c] = "creating"
  /\ stage' = [stage EXCEPT ![c] = "created"]
  /\ UNCHANGED <<disk, mem, ids, driver, reported, rounds, faults>>

\* A prestart hook fails: runc reports it and deletes the container.
PrestartFails(c) ==
  /\ stage[c] = "creating"
  /\ faults < MaxFaults
  /\ faults' = faults + 1
  /\ stage' = [stage EXCEPT ![c] = "stopped"]
  /\ reported' = [reported EXCEPT ![c] = TRUE]
  /\ UNCHANGED <<disk, mem, ids, driver, rounds>>

\* The container runs, ends, and the engine deletes it.
Stop(c) ==
  /\ stage[c] = "created"
  /\ stage' = [stage EXCEPT ![c] = "stopped"]
  /\ UNCHANGED <<disk, mem, ids, driver, reported, rounds, faults>>

\* CheckLimitId of the three arguments.
WithinLimits(h) == h.card <= IdMax /\ h.dev <= IdMax /\ h.vid <= IdMax

\* The driver has vNPU h.vid on the chip the hook names.
Addresses(h) ==
  /\ owner[h.vid] # Free
  /\ parent[h.vid] = [card |-> h.card, dev |-> h.dev]

\* ascend-docker-destroy gives a vNPU back.
DestroyVNpu(c) ==
  /\ stage[c] = "stopped"
  /\ \E h \in mem[c].post :
       /\ WithinLimits(h)
       /\ Addresses(h)
       /\ owner' = [owner EXCEPT ![h.vid] = Free]
       /\ parent' = [parent EXCEPT ![h.vid] = NoChip]
       /\ mem' = [mem EXCEPT ![c].post = @ \ {h}]
  /\ UNCHANGED <<stage, disk, ids, reported, rounds, faults>>

\* It ends with an error; runc goes on with the next hook.
DestroyFails(c, h) ==
  /\ mem' = [mem EXCEPT ![c].post = @ \ {h}]
  /\ reported' = [reported EXCEPT ![c] = TRUE]
  /\ UNCHANGED <<stage, disk, ids, driver, rounds>>

\* ... because an id is out of its range or the driver knows no such vNPU.
DestroyRefused(c) ==
  /\ stage[c] = "stopped"
  /\ \E h \in mem[c].post : ~ (WithinLimits(h) /\ Addresses(h)) /\ DestroyFails(c, h)
  /\ UNCHANGED faults

\* ... because a call failed or the process was killed.
DestroyDies(c) ==
  /\ stage[c] = "stopped"
  /\ faults < MaxFaults
  /\ faults' = faults + 1
  /\ \E h \in mem[c].post : DestroyFails(c, h)

\* Every poststop hook has run.
Delete(c) ==
  /\ stage[c] = "stopped"
  /\ mem[c].post = {}
  /\ stage' = [stage EXCEPT ![c] = "deleted"]
  /\ mem' = [mem EXCEPT ![c] = Empty]
  /\ UNCHANGED <<disk, ids, driver, reported, rounds, faults>>

-----------------------------------------------------------------------------
RuntimeStep(c) ==
  \/ LoadSpec(c) \/ ParseSpec(c) \/ AddHook(c) \/ SkipSplit(c)
  \/ SplitDevice(c) \/ SplitTooLarge(c) \/ AddDevice(c) \/ Reject(c)
  \/ WriteSpec(c) \/ ExecRunc(c)

RuncStep(c) ==
  \/ CreateContainer(c) \/ Prestart(c)
  \/ DestroyVNpu(c) \/ DestroyRefused(c) \/ Delete(c)

Fault(c) == Die(c) \/ PrestartFails(c) \/ DestroyDies(c)

Step(c) ==
  \/ \E request \in Requests : NewBundle(c, request)
  \/ ReuseBundle(c)
  \/ RuntimeStep(c)
  \/ RuncStep(c)
  \/ Stop(c)
  \/ Fault(c)

Next == \E c \in Containers : Step(c)

Spec == Init /\ [][Next]_vars

\* A live process takes its next step, and every container ends some day;
\* no engine has to start one and no fault has to happen.
Fairness ==
  \A c \in Containers :
    /\ WF_vars(RuntimeStep(c))
    /\ WF_vars(RuncStep(c))
    /\ WF_vars(Stop(c))

FairSpec == Spec /\ Fairness

-----------------------------------------------------------------------------
(* Properties.                                                             *)

\* config.json is final: written by the runtime and not yet given up.
Started(c) == stage[c] \in {"written", "runc"} \cup LiveStages

\* What runc will run after the container: from config.json until it has
\* loaded it, then from its own copy.
PendingHooks(c) ==
  IF stage[c] \in LiveStages THEN mem[c].post ELSE disk[c].post

\* Every poststop hook a started container still carries names a vNPU that
\* was split off for this very session, with the card and device it is on.
\* A config.json that is used again keeps the hook of an earlier session
\* (main.go:584 appends), whose vNPU id may be another container's by now.
HooksNameOwn ==
  \A c \in Containers : Started(c) =>
    \A h \in PendingHooks(c) :
      /\ owner[h.vid] = c
      /\ parent[h.vid] = [card |-> h.card, dev |-> h.dev]

\* A started container that got a vNPU of its own sees that vNPU and no
\* other davinci device, so not the chip it was split off: deviceIdList, the
\* VIRTUAL flag and addDevice agree.
SplitIsolated ==
  \A c \in Containers, v \in VIds :
    Started(c) /\ owner[v] = c => disk[c].devs = {[virt |-> TRUE, id |-> v]}

\* A vNPU outlives the session it was split off for only if some process of
\* that session has ended with an error (or was killed): a create, a run and
\* a delete that all succeed give it back.
NoSilentLeak ==
  \A c \in Containers, v \in VIds :
    owner[v] = c /\ stage[c] \in EndStages => reported[c]

\* A started container has the prestart hook exactly once when it asks for
\* devices, in however many sessions its config.json was used, and not at
\* all when it does not (addHook's scan, main.go:226).
HookIffDevices ==
  \A c \in Containers : Started(c) =>
    disk[c].hooks = IF disk[c].vis = {} THEN 0 ELSE 1

\* The vNPUs behave as the pool of VnpuPool: a session splits off at most
\* one, only the session that split a vNPU off destroys it, and an orphan or
\* one of the administrator's is never destroyed.
Pool == INSTANCE VnpuPool WITH
  Clients <- Containers, Units <- VIds, holder <- owner
ImplementsPool == Pool!Spec

\* Every vNPU is given back in the end, unless a process of its session
\* ended with an error: none stays behind unnoticed because a hook never ran.
EveryVNpuReturned ==
  \A c \in Containers, v \in VIds :
    (owner[v] = c) ~> (owner[v] = Free \/ reported[c])

\* What runtime/main_test.go:377 expects of updateEnvAndPostHook: after a
\* split ASCEND_VISIBLE_DEVICES names the vNPU.  The code leaves it alone.
VisibleNamesVNpu ==
  \A c \in Containers, v \in VIds :
    owner[v] = c /\ stage[c] \in {"hooked", "ready"} => mem[c].vis = {v}

-----------------------------------------------------------------------------
(* The inductive invariant: HooksNameOwn, SplitIsolated, NoSilentLeak and   *)
(* HookIffDevices speak of started containers only; this says what makes    *)
(* them true when a session gets there.                                     *)

\* What holds of every spec, on disk or in memory.  A spec that names a
\* vNPU to destroy asks for VIRTUAL devices but still lists a physical id:
\* that is why no second session gets past addDevice with it.
SpecInv(s) ==
  /\ s.post # {} => s.virt /\ \E p \in PhysIds : s.vis = {p}
  /\ s.split = "allowed" /\ ~ s.virt => s.devs = {}
  /\ s.hooks \in {0, 1}
  /\ s.vis = {} => s.hooks = 0

OwnHook(c, h) ==
  /\ owner[h.vid] = c
  /\ parent[h.vid] = [card |-> h.card, dev |-> h.dev]

NoVNpu(c) == \A v \in VIds : owner[v] # c

\* The session has split v off, and knows it.
JustSplit(c) ==
  \E v \in VIds :
    /\ ids[c] = {v}
    /\ \A w \in VIds : owner[w] = c => w = v
    /\ mem[c].virt
    /\ mem[c].devs = {}
    /\ \E h \in mem[c].post : mem[c].post = {h} /\ h.vid = v /\ OwnHook(c, h)

\* The session's hooks and devices are those of the vNPU it owns, if any.
Settled(c, hooks, devs) ==
  /\ \A h \in hooks : OwnHook(c, h)
  /\ \A v \in VIds : owner[v] = c =>
       /\ devs = {[virt |-> TRUE, id |-> v]}
       /\ ~ reported[c] => \E h \in hooks : h.vid = v

HookOk(s) == s.hooks = IF s.vis = {} THEN 0 ELSE 1

MemInv(c) ==
  /\ mem[c] # Empty => SpecInv(mem[c])
  /\ stage[c] \in {"parsed", "split", "hooked", "ready", "written"} \cup LiveStages
       => mem[c] # Empty

EarlyInv(c) ==
  /\ stage[c] \in {"none", "bundle", "loaded", "parsed", "split"} => NoVNpu(c)
  /\ stage[c] \in {"parsed", "split"} => ids[c] = mem[c].vis /\ mem[c].vis # {}
  /\ stage[c] \in {"split", "hooked"} => mem[c].vis # {} /\ mem[c].hooks = 1
  /\ stage[c] = "split" => ~ mem[c].virt

HookedInv(c) == stage[c] = "hooked" =>
  /\ mem[c].virt \/ mem[c].split = "none"
  /\ \/ ids[c] = mem[c].vis /\ NoVNpu(c)
     \/ JustSplit(c)

ReadyInv(c) == stage[c] \in {"ready", "written"} =>
  /\ HookOk(mem[c])
  /\ Settled(c, mem[c].post, mem[c].devs)

DiskInv(c) ==
  /\ disk[c] # Empty => SpecInv(disk[c])
  /\ Started(c) =>
       /\ disk[c] # Empty
       /\ HookOk(disk[c])
       /\ Settled(c, PendingHooks(c), disk[c].devs)

EndInv(c) ==
  stage[c] \in EndStages => \A v \in VIds : owner[v] = c => reported[c]

SessionInv(c) ==
  /\ MemInv(c) /\ EarlyInv(c) /\ HookedInv(c)
  /\ ReadyInv(c) /\ DiskInv(c) /\ EndInv(c)

\* Inductive: what each session knows of its vNPU at every point of the way.
IInv == TypeOK /\ \A c \in Containers : SessionInv(c)
=============================================================================
