---------------------------- MODULE DcmiQueries -----------------------------
(***************************************************************************)
(* What ascend-docker-runtime and ascend-docker-destroy ask the driver.    *)
(*                                                                         *)
(* One session: the runtime looks for the name of a chip (to match it with *)
(* the type in a list of "Ascend..." names), finds the chip of a physical  *)
(* id and splits a vNPU off it, looks for the chip name again and for the  *)
(* product type to choose the manager devices; later destroy gives the     *)
(* vNPU back.  Each                                                        *)
(* question loads libdcmi.so, walks over cards and devices with one call   *)
(* of the driver per step, and unloads it.  Any call may fail.             *)
(*                                                                         *)
(* NpuLifecycle has all of this as the constant ChipOf and single steps.   *)
(***************************************************************************)
EXTENDS Integers, FiniteSets, SequencesExt

CONSTANTS
  Hosts,          \* the hosts, see Host below
  Asks,           \* what the container asks for, see Ask below
  MaxCards,       \* hiAIMaxCardNum
  MaxDevices,     \* hiAIMaxDeviceNum
  MaxLogic,       \* math.MaxInt8, the largest logic id of GetDeviceLogicID
  IdMax,          \* ID_MAX of destroy
  RuntimeLimit,   \* size the runtime accepts of libdcmi.so
  DestroyLimit,   \* size destroy accepts, exclusive
  NotFound,       \* the pair of MaxInt32 FindDevice starts from
  None, MaxFaults

\* A host: the card ids the driver lists, how many devices it says each has,
\* of each device the logic id, the chip name (the set of the type marks it
\* contains, {"blank"} if the chip gives no text at all) and whether the
\* product is an Atlas 200; the logic id of each physical id; the manager
\* nodes in /dev; the size of libdcmi.so.
Host == [cards : Seq(Int), num : [Int -> Int], logic : [Int \X Int -> Int],
         name : [Int \X Int -> SUBSET {"310B", "310P", "310", "910", "blank"}],
         atlas200 : BOOLEAN, logicOf : [Nat -> Int],
         nodes : SUBSET {"davinci_manager", "davinci_manager_docker", "common", "310B"},
         lib : Nat]

\* A physical id, the chip type its list names (the number in the list is
\* then taken for the physical id) or None, and whether a vNPU is wanted.
Types == {"Ascend310B", "Ascend310P", "Ascend310", "Ascend910"}
Ask == [phys : Nat, type : Types \cup {None}, split : BOOLEAN]

ASSUME QueriesAssumption ==
  /\ \A a \in Asks : a.type \in Types \cup {None}
  /\ MaxCards \in Nat /\ MaxDevices \in Nat /\ MaxFaults \in Nat
  /\ MaxLogic \in Nat /\ MaxLogic < MaxCards * MaxDevices   \* 127, 64 * 4
  /\ IdMax \in Nat /\ MaxDevices <= IdMax                  \* 4, 65535
  /\ RuntimeLimit \in Nat /\ DestroyLimit \in Nat

\* The devices a card says it has can be asked, no device has the ids that
\* stand for none, the chips of a host are of one kind, and an Atlas 200 has
\* no common manager devices (what addManagerDevice takes for granted).
ASSUME HostAssumption == \A h \in Hosts :
  /\ h.cards \in Seq(Int) /\ h.lib \in Nat
  /\ DOMAIN h.logic \subseteq Int \X Nat
  /\ NotFound \notin DOMAIN h.logic /\ None \notin DOMAIN h.logic
  /\ \A card \in ToSet(h.cards) :
       h.num[card] \in Int /\ \A d \in 0 .. h.num[card] - 1 : <<card, d>> \in DOMAIN h.logic
  /\ \A a, b \in DOMAIN h.logic : h.name[a] = h.name[b] \/ {"blank"} \in {h.name[a], h.name[b]}
  /\ h.atlas200 => "common" \notin h.nodes

VARIABLES
  host, ask,      \* chosen at the start
  plan,           \* the questions still to be asked, the first is going on
  at,             \* the next call
  cards,          \* GetCardList's answer
  num, dev,       \* GetDeviceNumInCard's answer, the next device
  target, found,  \* FindDevice: the logic id, the chip [card, dev]
  name, product,  \* the answers of GetChipName and GetProductType
  nodes,          \* manager devices added
  opens,          \* dlopen less dlclose in the process
  vnpu,           \* the chip the vNPU was split off, and None without one
  hook,           \* arguments of the poststop hook
  faults

search == <<cards, num, dev, target, found>>
answers == <<name, product, nodes>>
vars == <<host, ask, plan, at, search, answers, opens, vnpu, hook, faults>>

Devices == {cd \in DOMAIN host.logic : cd[1] \in ToSet(host.cards) /\ cd[2] < host.num[cd[1]]}

TypeOK ==
  /\ at \in {"open", "logic", "list", "count", "ask", "create", "close", "manager",
             "ready", "error", "args", "load", "destroy", "destroyed", "refused"}
  /\ ToSet(plan) \subseteq {"match", "find", "name", "product"}
  /\ num \in 0 .. MaxDevices /\ dev \in 0 .. num
  /\ \A i \in DOMAIN cards : cards[i] >= 0
  /\ found \in DOMAIN host.logic \cup {NotFound}
  /\ opens \in IF at \in {"logic", "list", "count", "ask", "create", "close", "destroy"} THEN {1}
               ELSE IF at \in {"error", "refused"} THEN {0, 1} ELSE {0}
  /\ vnpu \in DOMAIN host.logic \cup {None}
  /\ faults \in 0 .. MaxFaults

Init ==
  /\ host \in Hosts /\ ask \in Asks
  /\ \/ ask.type # None /\ ask.split /\ plan = <<"match", "find", "name", "product">>
     \/ ask.type # None /\ ~ ask.split /\ plan = <<"match", "name", "product">>
     \/ ask.type = None /\ ask.split /\ plan = <<"find", "name", "product">>
     \/ ask.type = None /\ ~ ask.split /\ plan = <<"name", "product">>
  /\ at = "open" /\ cards = <<>> /\ num = 0 /\ dev = 0
  /\ target = 0 /\ found = NotFound
  /\ name = {} /\ product = "" /\ nodes = {}
  /\ opens = 0 /\ vnpu = None /\ hook = None /\ faults = 0

Asking(q) == plan # <<>> /\ Head(plan) = q
Naming == Asking("match") \/ Asking("name")    \* both call GetChipName
GoTo(place) == at' = place

\* A call that fails, on top of what its answer decides.
CallFails == faults < MaxFaults /\ faults' = faults + 1

-----------------------------------------------------------------------------
(* The runtime.                                                            *)

\* Initialize: dcmiInit_dl, RealFileChecker of the library, dcmi_init.
Open ==
  /\ at = "open"
  /\ host.lib <= RuntimeLimit
  /\ opens' = opens + 1
  /\ GoTo(IF Asking("find") THEN "logic" ELSE "list")
  /\ UNCHANGED <<host, ask, plan, search, answers, vnpu, hook, faults>>

\* It fails; ShutDown is not called, but the process ends.
OpenFails ==
  /\ at = "open"
  /\ \/ host.lib > RuntimeLimit /\ UNCHANGED faults
     \/ CallFails
  /\ GoTo("error")
  /\ UNCHANGED <<host, ask, plan, search, answers, opens, vnpu, hook>>

\* The question ends with an error: the deferred ShutDown, and the error
\* goes all the way up.
Errs ==
  /\ GoTo("error")
  /\ opens' = opens - 1
  /\ UNCHANGED <<host, ask, plan, search, answers, vnpu, hook>>

\* FindDevice's first call; the limit is hiAIMaxCardNum * hiAIMaxDeviceNum.
LogicOk == host.logicOf[ask.phys] \in 0 .. (MaxCards * MaxDevices - 1)

LogicOfPhysical ==
  /\ at = "logic"
  /\ LogicOk
  /\ target' = host.logicOf[ask.phys]
  /\ found' = NotFound
  /\ GoTo("list")
  /\ UNCHANGED <<host, ask, plan, cards, num, dev, answers, opens, vnpu, hook, faults>>

\* Mutant: negative ids are kept.
ListCardsAll ==
  /\ at = "list"
  /\ Len(host.cards) \in 1 .. MaxCards
  /\ cards' = host.cards
  /\ num' = 0 /\ dev' = 0
  /\ GoTo("count")
  /\ UNCHANGED <<host, ask, plan, target, found, answers, opens, vnpu, hook, faults>>

\* What GetCardList keeps of the driver's list: not the negative ids.
Listed == {i \in DOMAIN host.cards : host.cards[i] >= 0}
InOrder(order) ==
  ToSet(order) = Listed /\ \A i, j \in DOMAIN order : i < j => order[i] < order[j]

\* GetCardList.
ListCards ==
  /\ at = "list"
  /\ Len(host.cards) \in 1 .. MaxCards
  /\ \E n \in 0 .. Len(host.cards) : \E order \in [1 .. n -> Listed] :
       InOrder(order) /\ cards' = [i \in 1 .. n |-> host.cards[order[i]]]
  /\ num' = 0 /\ dev' = 0
  /\ GoTo("count")
  /\ UNCHANGED <<host, ask, plan, target, found, answers, opens, vnpu, hook, faults>>

NumOk == host.num[Head(cards)] \in 1 .. MaxDevices

\* GetDeviceNumInCard of the next card.
CountDevices ==
  /\ at = "count" /\ cards # <<>>
  /\ NumOk
  /\ num' = host.num[Head(cards)] /\ dev' = 0
  /\ GoTo("ask")
  /\ UNCHANGED <<host, ask, plan, cards, target, found, answers, opens, vnpu, hook, faults>>

\* GetChipName and GetProductType pass over a card whose count fails.
SkipCard ==
  /\ at = "count" /\ cards # <<>> /\ ~ Asking("find")
  /\ \/ ~ NumOk /\ UNCHANGED faults
     \/ CallFails
  /\ cards' = Tail(cards)
  /\ UNCHANGED <<host, ask, plan, at, num, dev, target, found, answers, opens, vnpu, hook>>

This == <<Head(cards), dev>>

\* The end of the loops' bodies.
NextDevice ==
  IF dev + 1 < num THEN dev' = dev + 1 /\ UNCHANGED <<cards, at>>
  ELSE dev' = 0 /\ cards' = Tail(cards) /\ GoTo("count")

LogicIdOk == host.logic[This] \in 0 .. MaxLogic

\* GetDeviceLogicID; the search goes on behind a match.
AskLogicId ==
  /\ at = "ask" /\ Asking("find")
  /\ LogicIdOk
  /\ found' = IF host.logic[This] = target THEN This ELSE found
  /\ NextDevice
  /\ UNCHANGED <<host, ask, plan, num, target, answers, opens, vnpu, hook, faults>>

\* The first answer ends the question: GetChipInfo must have some text,
\* "not supported" is an answer of GetProductType.
AskName ==
  /\ at = "ask" /\ Naming
  /\ host.name[This] # {"blank"}
  /\ name' = host.name[This]
  /\ GoTo("close")
  /\ UNCHANGED <<host, ask, plan, search, product, nodes, opens, vnpu, hook, faults>>

AskProduct ==
  /\ at = "ask" /\ Asking("product")
  /\ product' = IF host.atlas200 THEN "Atlas 200" ELSE "not support"
  /\ GoTo("close")
  /\ UNCHANGED <<host, ask, plan, search, name, nodes, opens, vnpu, hook, faults>>

\* Mutant: a device that does not answer starts the search over.
SkipDeviceStartsOver ==
  /\ at = "ask" /\ ~ Asking("find")
  /\ \/ Naming /\ host.name[This] = {"blank"} /\ UNCHANGED faults
     \/ CallFails
  /\ GoTo("list")
  /\ UNCHANGED <<host, ask, plan, search, answers, opens, vnpu, hook>>

\* A device that does not answer is passed over.
SkipDevice ==
  /\ at = "ask" /\ ~ Asking("find")
  /\ \/ Naming /\ host.name[This] = {"blank"} /\ UNCHANGED faults
     \/ CallFails
  /\ NextDevice
  /\ UNCHANGED <<host, ask, plan, num, target, found, answers, opens, vnpu, hook>>

\* No card is left: FindDevice returns what it has, GetProductType "".
SearchEnds ==
  /\ at = "count" /\ cards = <<>> /\ ~ Naming
  /\ GoTo(IF Asking("find") THEN "create" ELSE "close")
  /\ product' = IF Asking("product") THEN "" ELSE product
  /\ UNCHANGED <<host, ask, plan, search, name, nodes, opens, vnpu, hook, faults>>

\* Mutant: the hook is told device and card.
CreateVDeviceArgOrder ==
  /\ at = "create"
  /\ found \in Devices
  /\ vnpu' = found
  /\ hook' = [card |-> found[2], dev |-> found[1]]
  /\ GoTo("close")
  /\ UNCHANGED <<host, ask, plan, search, answers, opens, faults>>

\* Mutant: FindDevice's two results change places.
CreateVDeviceSwapped ==
  /\ at = "create"
  /\ found # NotFound /\ <<found[2], found[1]>> \in Devices
  /\ vnpu' = <<found[2], found[1]>>
  /\ hook' = [card |-> found[2], dev |-> found[1]]
  /\ GoTo("close")
  /\ UNCHANGED <<host, ask, plan, search, answers, opens, faults>>

\* CreateVDevice on the chip found, then the hook's arguments.
CreateVDevice ==
  /\ at = "create"
  /\ found \in Devices
  /\ vnpu' = found
  /\ hook' = [card |-> found[1], dev |-> found[2]]
  /\ GoTo("close")
  /\ UNCHANGED <<host, ask, plan, search, answers, opens, faults>>

\* The answers that are errors: the driver itself refuses MaxInt32 ids.
QueryErrs ==
  \/ at = "logic" /\ ~ LogicOk
  \/ at = "list" /\ Len(host.cards) \notin 1 .. MaxCards
  \/ at = "count" /\ Asking("find") /\ cards # <<>> /\ ~ NumOk
  \/ at = "count" /\ Naming /\ cards = <<>>
  \/ at = "ask" /\ Asking("find") /\ ~ LogicIdOk
  \/ at = "create" /\ found \notin Devices

\* The calls whose failure is an error.
Vital == at \in {"logic", "list", "create"} \/ (at \in {"count", "ask"} /\ Asking("find"))

QueryFails ==
  /\ \/ QueryErrs /\ UNCHANGED faults
     \/ Vital /\ CallFails
  /\ Errs

\* Mutant: "310" is looked for first, which "310B" contains.
DeviceTypeShortest(marks) ==
  CASE "310" \in marks -> "Ascend310" [] "910" \in marks -> "Ascend910" [] OTHER -> ""

\* GetDeviceTypeByChipName: the order matters, "310B" contains "310".
DeviceType(marks) ==
  CASE "310B" \in marks -> "Ascend310B"
    [] "310B" \notin marks /\ "310P" \in marks -> "Ascend310P"
    [] marks \cap {"310B", "310P"} = {} /\ "310" \in marks -> "Ascend310"
    [] marks \cap {"310B", "310P", "310"} = {} /\ "910" \in marks -> "Ascend910"
    [] OTHER -> ""

\* ShutDown.  A name that is not of the type in the list is an error; the
\* product type is asked for unless the chip is a 310B.
Close ==
  /\ at = "close"
  /\ opens' = opens - 1
  /\ LET rest == Tail(plan)
         wrong == Asking("match") /\ DeviceType(name) # ask.type
         done == rest = <<>> \/ (rest = <<"product">> /\ "310B" \in name)
     IN  /\ plan' = (IF done THEN <<>> ELSE rest)
         /\ GoTo(IF wrong THEN "error" ELSE IF done THEN "manager" ELSE "open")
  /\ UNCHANGED <<host, ask, search, answers, vnpu, hook, faults>>

\* Mutant: without an answer no common devices are added.
WantedNodesIfAnswered ==
  IF product = "not support" THEN {"davinci_manager", "common"} ELSE {"davinci_manager"}

\* addManagerDevice but for the 310B.
WantedNodes ==
  {"davinci_manager"} \cup (IF product = "Atlas 200" THEN {} ELSE {"common"})

\* addAscend310BManagerDevice: what is missing is passed over, but for the
\* manager, which may have either name.
Managers310B ==
  IF "davinci_manager_docker" \in host.nodes THEN {"davinci_manager_docker"}
  ELSE {"davinci_manager"}
Nodes310B == (host.nodes \cap {"310B"}) \cup Managers310B

AddManagerDevice ==
  /\ at = "manager"
  /\ nodes' = IF DeviceType(name) = "Ascend310B" THEN Nodes310B ELSE WantedNodes
  /\ GoTo(IF nodes' \subseteq host.nodes THEN "ready" ELSE "error")
  /\ UNCHANGED <<host, ask, plan, search, name, product, opens, vnpu, hook, faults>>

-----------------------------------------------------------------------------
(* ascend-docker-destroy, a process of its own, once the container is gone. *)

StartDestroy ==
  /\ at = "ready" /\ hook # None
  /\ GoTo("args") /\ opens' = 0
  /\ UNCHANGED <<host, ask, plan, search, answers, vnpu, hook, faults>>

\* EntryCheck, GetAndCheckID.
CheckArgs ==
  /\ at = "args"
  /\ GoTo(IF hook.card \in 0 .. IdMax /\ hook.dev \in 0 .. IdMax THEN "load" ELSE "refused")
  /\ UNCHANGED <<host, ask, plan, search, answers, opens, vnpu, hook, faults>>

\* DeclareDcmiApiAndCheck, DcmiInitProcess.
LoadForDestroy ==
  /\ at = "load"
  /\ GoTo(IF host.lib < DestroyLimit THEN "destroy" ELSE "refused")
  /\ opens' = 1
  /\ UNCHANGED <<host, ask, plan, search, answers, vnpu, hook, faults>>

\* DcmiDestroyProcess, DcmiDlclose.
Destroy ==
  /\ at = "destroy"
  /\ GoTo(IF vnpu = <<hook.card, hook.dev>> THEN "destroyed" ELSE "refused")
  /\ vnpu' = IF vnpu = <<hook.card, hook.dev>> THEN None ELSE vnpu
  /\ opens' = 0
  /\ UNCHANGED <<host, ask, plan, search, answers, hook, faults>>

DestroyFails ==
  /\ at \in {"load", "destroy"}
  /\ CallFails
  /\ GoTo("refused")
  /\ UNCHANGED <<host, ask, plan, search, answers, opens, vnpu, hook>>

-----------------------------------------------------------------------------
Runtime ==
  \/ Open \/ OpenFails \/ LogicOfPhysical \/ ListCards \/ CountDevices \/ SkipCard
  \/ AskLogicId \/ AskName \/ AskProduct \/ SkipDevice \/ SearchEnds
  \/ CreateVDevice \/ QueryFails \/ Close \/ AddManagerDevice

DestroyHook == CheckArgs \/ LoadForDestroy \/ Destroy \/ DestroyFails

Next == Runtime \/ StartDestroy \/ DestroyHook

Spec == Init /\ [][Next]_vars

\* Each process goes on, and the container ends some day.
FairSpec == Spec /\ WF_vars(Next)

-----------------------------------------------------------------------------
(* Properties.                                                             *)

\* The devices that have the logic id of the physical id asked for.
Chips == {cd \in Devices : host.logic[cd] = host.logicOf[ask.phys]}

\* Whatever fails on the way, a vNPU is split off a chip with the physical
\* id asked for, and never off another, and the hook is told that chip:
\* FindDevice starts from ids that no chip has, and every answer it cannot
\* use ends it.
VNpuOnAskedChip ==
  vnpu # None => vnpu \in Chips /\ hook = [card |-> vnpu[1], dev |-> vnpu[2]]

\* What the container needs besides its NPUs.
NeededNodes ==
  IF \E cd \in Devices : "310B" \in host.name[cd] THEN Nodes310B
  ELSE {"davinci_manager"} \cup (IF host.atlas200 THEN {} ELSE {"common"})

\* The marks in the name of a chip of a type.
Marks == [Ascend310B |-> {"310B", "310"}, Ascend310P |-> {"310P", "310"},
          Ascend310 |-> {"310"}, Ascend910 |-> {"910"}]

\* What a host without oddities is, of the type the list names if it does.
Healthy ==
  /\ Len(host.cards) \in 1 .. MaxCards /\ host.lib <= RuntimeLimit
  /\ \A i \in DOMAIN host.cards :
       host.cards[i] >= 0 /\ host.num[host.cards[i]] \in 1 .. MaxDevices
  /\ \A cd \in Devices : host.logic[cd] \in 0 .. MaxLogic /\ host.name[cd] # {"blank"}
  /\ ask.split => Chips # {}
  /\ ask.type # None => \A cd \in Devices : host.name[cd] = Marks[ask.type]
  /\ NeededNodes \subseteq host.nodes

\* A container that starts has the manager devices of its kind of host,
\* though names and products that cannot be read are passed over and no
\* answer at all counts as one (dcmi_api.go:137): the nodes that such an
\* answer adds by mistake are not there, and the session ends.
ManagerDevicesRight == at = "ready" => nodes = NeededNodes

\* On a healthy host a session fails only because a call did: the walks find
\* what is there, in any order of cards and devices, and a name never says
\* another type than the chip's (main.go:355).
ErrorHasCause == Healthy /\ faults = 0 => at # "error"

\* destroy gives the vNPU back unless a call fails, an id is out of its range
\* or the library is one that only the runtime accepts.
DestroyedOrCause ==
  /\ at = "destroyed" => vnpu = None
  /\ at = "refused" /\ faults = 0 =>
       vnpu[1] > IdMax \/ host.lib \in DestroyLimit .. RuntimeLimit

\* The walks end, over whatever cards the driver lists and calls that fail.
SessionEnds == <>(at \in {"ready", "error"})
=============================================================================
