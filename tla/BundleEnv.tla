----------------------------- MODULE BundleEnv ------------------------------
(***************************************************************************)
(* One container's bundle from the engine to runc, as often as it is used, *)
(* with its environment line by line.                                      *)
(*                                                                         *)
(* This is the create command of NpuLifecycle in the detail that module    *)
(* leaves out: what it calls vis, valid, split and virt is looked up here  *)
(* in lines that the runtime itself changes on the way.                    *)
(***************************************************************************)
EXTENDS EnvLines

CONSTANTS
  Envs,           \* the environments engines write into fresh bundles
  c, PhysIds, VIds, ChipOf, IdMax, VdevMax, Free, Admin, Orphan, NoChip,
  Empty, MaxRounds, MaxFaults          \* as in NpuLifecycle

ASSUME BundleAssumption ==
  /\ PhysIds \subseteq Nat /\ VIds \subseteq Nat /\ PhysIds \cap VIds = {}
  /\ \A v \in VIds : v <= VdevMax      \* larger ones: NpuLifecycle
  /\ Envs \subseteq Seq(Lines)
  /\ ChipOf \in [PhysIds -> [card : Nat, dev : Nat]]
  /\ c \notin {Free, Admin, Orphan}
  /\ MaxRounds \in Nat /\ MaxFaults \in Nat

VARIABLES
  stage, disk, mem, owner, parent, reported, rounds, faults, \* of NpuLifecycle
  ids,            \* deviceIdList, a sequence
  asked           \* history: the environment the engine wrote

vars == <<stage, disk, mem, owner, parent, reported, rounds, faults, ids, asked>>

\* config.json: the environment, whether the prestart hook is there, the
\* davinci devices added, the poststop hooks.
Node == [virt : BOOLEAN, id : Nat]
DestroyHook == [card : Nat, dev : Nat, vid : VIds]
ConfigJson ==
  [env : Seq(Lines), hooks : Nat, devs : SUBSET Node, post : SUBSET DestroyHook]

\* The same in NpuLifecycle: vis, valid, split and virt for the environment.
OciSpec ==
  [vis : SUBSET Nat, valid : BOOLEAN, split : {"none", "allowed", "unknown"},
   virt : BOOLEAN, hooks : Nat, devs : SUBSET Node, post : SUBSET DestroyHook]

\* A truncated file is no config.json.
ASSUME EmptyAssumption == Empty \notin ConfigJson \cup OciSpec

\* As the engine writes it.
Fresh(env) == [env |-> env, hooks |-> 0, devs |-> {}, post |-> {}]

EndStages == {"failed"}

TypeOK ==
  /\ stage \in {"none", "bundle", "loaded", "parsed", "split", "hooked", "ready",
                "written", "runc", "failed"}
  /\ \A spec \in {disk, mem} \ {Empty} :
       /\ spec \in ConfigJson /\ spec.hooks \in {0, 1}
       /\ \A d \in spec.devs : d.virt => d.id \in VIds
  /\ ids \in Seq(Nat)
  /\ owner \in [VIds -> {Free, Admin, Orphan, c}]
  /\ rounds \in 0 .. MaxRounds /\ faults \in 0 .. MaxFaults

Init ==
  /\ stage = "none" /\ disk = Empty /\ mem = Empty
  /\ owner \in [VIds -> {Free, Admin}]
  /\ parent \in [VIds -> {NoChip} \cup {ChipOf[p] : p \in PhysIds}]
  /\ \A v \in VIds : (parent[v] = NoChip) <=> (owner[v] = Free)
  /\ reported = FALSE /\ rounds = 0 /\ faults = 0
  /\ ids = <<>> /\ asked = <<>>

BeginSession ==
  /\ stage \in {"none"} \cup EndStages
  /\ rounds < MaxRounds
  /\ rounds' = rounds + 1
  /\ stage' = "bundle" /\ mem' = Empty /\ ids' = <<>> /\ reported' = FALSE
  /\ owner' = [v \in VIds |-> IF owner[v] = c THEN Orphan ELSE owner[v]]
  /\ UNCHANGED <<parent, faults>>

NewBundle(env) == BeginSession /\ disk' = Fresh(env) /\ asked' = env

ReuseBundle == stage \in EndStages /\ BeginSession /\ UNCHANGED <<disk, asked>>

Abort ==
  /\ stage' = "failed" /\ mem' = Empty /\ ids' = <<>> /\ reported' = TRUE
  /\ UNCHANGED <<disk, owner, parent, rounds, asked>>

LoadSpec ==
  /\ stage = "bundle"
  /\ stage' = "loaded" /\ mem' = disk /\ disk' = Empty
  /\ UNCHANGED <<owner, parent, reported, rounds, faults, ids, asked>>

\* checkVisibleDevice.
ParseSpec ==
  /\ stage = "loaded"
  /\ mem # Empty
  /\ LET val == GetValueByDeviceKey(mem.env)
     IN  /\ Parses(val)
         /\ \E list \in SortSlice(Listed(val)) : ids' = RemoveDuplication(list)
         /\ stage' = IF val = <<>> THEN "ready" ELSE "parsed"
  /\ UNCHANGED <<disk, mem, owner, parent, reported, rounds, faults, asked>>

\* Mutant: the prestart hook is added without a look at those there are.
AddHookAlways ==
  /\ stage = "parsed"
  /\ mem' = [mem EXCEPT !.hooks = @ + 1]
  /\ stage' = IF Virtual(mem.env) THEN "hooked" ELSE "split"
  /\ UNCHANGED <<disk, owner, parent, reported, rounds, faults, ids, asked>>

\* addHook up to the split.
AddHook ==
  /\ stage = "parsed"
  /\ mem' = [mem EXCEPT !.hooks = 1]
  /\ stage' = IF Virtual(mem.env) THEN "hooked" ELSE "split"
  /\ UNCHANGED <<disk, owner, parent, reported, rounds, faults, ids, asked>>

SkipSplit ==
  /\ stage = "split"
  /\ ExtractVpuParam(mem.env) = "none"
  /\ stage' = "hooked"
  /\ UNCHANGED <<disk, mem, owner, parent, reported, rounds, faults, ids, asked>>

\* Mutant: updateEnvAndPostHook is not called.
SplitDeviceForgets ==
  \E p \in PhysIds, v \in VIds :
    /\ stage = "split"
    /\ ExtractVpuParam(mem.env) = "allowed"
    /\ ids = <<p>>
    /\ owner[v] = Free
    /\ owner' = [owner EXCEPT ![v] = c]
    /\ parent' = [parent EXCEPT ![v] = ChipOf[p]]
    /\ stage' = "hooked"
    /\ UNCHANGED <<disk, mem, ids, reported, rounds, faults, asked>>

\* CreateVDevice, then updateEnvAndPostHook.
SplitDevice ==
  \E p \in PhysIds, v \in VIds :
    /\ stage = "split"
    /\ ExtractVpuParam(mem.env) = "allowed"
    /\ ids = <<p>>
    /\ owner[v] = Free
    /\ owner' = [owner EXCEPT ![v] = c]
    /\ parent' = [parent EXCEPT ![v] = ChipOf[p]]
    /\ mem' = [mem EXCEPT !.env = WithVirtual(@), !.post = @ \cup
                 {[card |-> ChipOf[p].card, dev |-> ChipOf[p].dev, vid |-> v]}]
    /\ ids' = <<v>>
    /\ stage' = "hooked"
    /\ UNCHANGED <<disk, reported, rounds, faults, asked>>

\* The nodes of deviceIdList, and whether they are there.
Nodes == {[virt |-> Virtual(mem.env), id |-> n] : n \in ToSet(ids)}
NodeExists(d) ==
  IF d.virt THEN d.id \in VIds /\ owner[d.id] # Free ELSE d.id \in PhysIds

\* addDevice and addLDEnv.
AddDevice ==
  /\ stage = "hooked"
  /\ \A d \in Nodes : NodeExists(d)
  /\ mem' = [mem EXCEPT !.devs = @ \cup Nodes, !.env = AddLDEnv(@)]
  /\ stage' = "ready"
  /\ UNCHANGED <<disk, owner, parent, reported, rounds, faults, ids, asked>>

Rejected ==
  \/ stage = "loaded" /\ (IF mem = Empty THEN TRUE
                          ELSE ~ Parses(GetValueByDeviceKey(mem.env)))
  \/ stage = "split" /\ ExtractVpuParam(mem.env) = "unknown"
  \/ /\ stage = "split" /\ ExtractVpuParam(mem.env) = "allowed"
     /\ (\A p \in PhysIds : ids # <<p>>) \/ (\A v \in VIds : owner[v] # Free)
  \/ stage = "hooked" /\ \E d \in Nodes : ~ NodeExists(d)

Reject == Rejected /\ Abort /\ UNCHANGED faults

\* addEnvToDevicePlugin, and WriteAt.
WriteSpec ==
  /\ stage = "ready"
  /\ disk' = [mem EXCEPT !.env = AddEnvToDevicePlugin(@)]
  /\ stage' = "written"
  /\ UNCHANGED <<mem, owner, parent, reported, rounds, faults, ids, asked>>

ExecRunc ==
  /\ stage = "written"
  /\ stage' = "runc" /\ mem' = Empty /\ ids' = <<>>
  /\ UNCHANGED <<disk, owner, parent, reported, rounds, faults, asked>>

\* Any failure or kill, of the runtime or of runc.
Die ==
  /\ stage \notin {"none"} \cup EndStages
  /\ faults < MaxFaults
  /\ faults' = faults + 1
  /\ Abort

Next ==
  \/ \E env \in Envs : NewBundle(env)
  \/ ReuseBundle
  \/ LoadSpec \/ ParseSpec \/ AddHook \/ SkipSplit \/ SplitDevice
  \/ AddDevice \/ Reject \/ WriteSpec \/ ExecRunc
  \/ Die

Spec == Init /\ [][Next]_vars

-----------------------------------------------------------------------------
(* Properties.                                                             *)

Wanted == GetValueByDeviceKey(asked)
WantedIds == UNION {Wanted[i].lo .. Wanted[i].hi : i \in DOMAIN Wanted}

Written == stage \in {"written", "runc"}
Owned == {v \in VIds : owner[v] = c}

\* Whatever the environment looks like, and however the four lookups take
\* it: a bundle that goes to runc with a vNPU of its own has the node of
\* that vNPU and no other davinci node.
SplitSeesOnlyVNpu ==
  Written /\ Owned # {} => disk.devs = {[virt |-> TRUE, id |-> v] : v \in Owned}

\* A bundle without a vNPU has exactly the devices the list names, though
\* the list is neither sorted nor freed of all repetitions (main.go:322); and
\* a list that names one device, however often, and no other counts as one
\* (CreateVDevice asks for the length).
DevicesAsAsked ==
  /\ Written /\ Owned = {} /\ disk.hooks = 1 => {d.id : d \in disk.devs} = WantedIds
  /\ stage = "parsed" => ((Len(ids) = 1) <=> (Cardinality(WantedIds) = 1))

\* With proper variables, and as long as the lines do not become too many,
\* the hook is asked to do what the user asked of the runtime: it skips a
\* container without devices, and accepts the options after the runtime's
\* edits just if it accepts the user's, unless ",VIRTUAL" spoils them (empty
\* ones: EmptyOptionsAccepted; or hook main.go:124).  And with any, a container
\* that was given devices is skipped, and so starts without the driver, only
\* if the list is set more than once: the hook reads the first and the
\* runtime the last (hook main.go:210).
HookFollows ==
  /\ Written /\ Proper(asked) /\ Len(disk.env) <= MaxLines =>
       \/ HookVerdict(disk.env) = HookVerdict(asked)
       \/ /\ HookVerdict(asked) = "accepts" /\ HookVerdict(disk.env) = "refuses"
          /\ \E i \in DOMAIN asked : asked[i].key = "OPTIONS" /\ Spoiled(asked[i].val)
  /\ Written /\ disk.hooks = 1 /\ HookVerdict(disk.env) = "skips" =>
       Cardinality({i \in DOMAIN asked : Named(asked[i], "VISIBLE")}) > 1

\* With proper variables and devices, the library path in force (the last
\* line) is the user's, then the driver's, in each session on the bundle.
LibraryPathKept ==
  Written /\ disk.hooks = 1 /\ Proper(asked) =>
    LET i == SelectLastInSeq(disk.env, LAMBDA l : Named(l, "LD_LIBRARY_PATH"))
        mine == GetValueByKey(asked, "LD_LIBRARY_PATH")
    IN  \E n \in 1 .. MaxRounds : disk.env[i].val = mine \o [k \in 1 .. n |-> Driver]

\* Options set to nothing are valid for the hook ("" has none), but not what
\* a split makes of them: the container cannot start.
EmptyOptionsAccepted ==
  Written /\ Proper(asked) /\ HookVerdict(asked) = "accepts" =>
    HookVerdict(disk.env) = "accepts"

-----------------------------------------------------------------------------
(* With proper variables the bundle behaves as NpuLifecycle says: each of  *)
(* its steps is a step there, whatever the sessions before were asked for. *)

Abstract(spec) ==
  LET val == GetValueByDeviceKey(spec.env)
  IN  [vis   |-> IF Parses(val) THEN ToSet(Listed(val)) ELSE {},
       valid |-> Parses(val),
       split |-> ExtractVpuParam(spec.env),
       virt  |-> Virtual(spec.env),
       hooks |-> spec.hooks, devs |-> spec.devs, post |-> spec.post]

AbstractOrEmpty(spec) == IF spec = Empty THEN Empty ELSE Abstract(spec)

Requested == {Abstract(Fresh(env)) : env \in {e \in Envs : Proper(e)}}

Lifecycle == INSTANCE NpuLifecycle WITH
  Containers <- {c},
  Requests <- Requested,
  stage <- [x \in {c} |-> stage],
  disk <- [x \in {c} |-> AbstractOrEmpty(disk)],
  mem <- [x \in {c} |-> AbstractOrEmpty(mem)],
  ids <- [x \in {c} |-> ToSet(ids)],
  reported <- [x \in {c} |-> reported],
  rounds <- [x \in {c} |-> rounds]
ImplementsLifecycle ==
  Lifecycle!Init /\
  [][Proper(asked') =>
       IF stage' = "bundle"
         THEN Lifecycle!NewBundle(c, Abstract(Fresh(asked'))) \/ Lifecycle!ReuseBundle(c)
         ELSE Lifecycle!RuntimeStep(c) \/ Lifecycle!Die(c)]_vars
=============================================================================
