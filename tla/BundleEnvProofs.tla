--------------------------- MODULE BundleEnvProofs ---------------------------
(***************************************************************************)
(* The properties of BundleEnv for all environments of any length, any     *)
(* words and any number of sessions and faults, and that it implements     *)
(* NpuLifecycle.  They rest on how the environment in a bundle differs     *)
(* from the one the engine wrote, whatever the sessions on it were (BInv), *)
(* and on what the list of devices has become (DInv).                      *)
(***************************************************************************)
EXTENDS BundleEnv, EnvLinesProofs

-----------------------------------------------------------------------------
(* The invariant.                                                          *)

Splits == {"parsed", "split", "hooked"}
Working == Splits \cup {"ready", "written"}

\* A config.json, on disk or read, after n sessions on the bundle.
Shape(spec) ==
  spec = [env |-> spec.env, hooks |-> spec.hooks, devs |-> spec.devs, post |-> spec.post]

SpecOK(old, spec, n) ==
  /\ Shape(spec)
  /\ Edited(old, spec.env)
  /\ spec.hooks \in {0, 1}
  /\ spec.devs # {} => Virtual(spec.env) \/ ExtractVpuParam(spec.env) = "none"
  /\ spec.hooks = 1 => GetValueByDeviceKey(old) # <<>>
  /\ Proper(old) => PathsAdded(old, spec.env, n)

Specs ==
  /\ disk # Empty \/ Written => SpecOK(asked, disk, rounds)
  /\ mem # Empty \/ stage \in Working => SpecOK(asked, mem, rounds)

\* Only a second session finds a path that was added; and this one adds its own.
Session ==
  /\ asked \in Seq(Lines) /\ rounds \in 0 .. MaxRounds
  /\ stage # "none" => rounds >= 1
  /\ stage \in Splits => Wanted # <<>>
  /\ stage \in {"bundle", "loaded"} \cup Splits /\ rounds < 2 =>
       /\ disk # Empty => ~ HasPath(asked, disk.env)
       /\ mem # Empty \/ stage \in Working => ~ HasPath(asked, mem.env)
  /\ stage = "ready" /\ Wanted # <<>> => HasPath(asked, mem.env)
  /\ Written /\ Wanted # <<>> => HasPath(asked, disk.env)

\* The container has no vNPU until it splits one off, in a bundle without
\* devices; then the list is this vNPU.
OwnNodes == {[virt |-> TRUE, id |-> v] : v \in Owned}
Owning ==
  /\ owner \in [VIds -> {Free, Admin, Orphan, c}]
  /\ stage \in {"none", "bundle", "loaded", "parsed", "split"} => Owned = {}
  /\ stage = "split" => ~ Virtual(mem.env)
  /\ stage = "hooked" =>
       \/ Owned = {} /\ (Virtual(mem.env) \/ ExtractVpuParam(mem.env) = "none")
       \/ \E v \in VIds : Owned = {v} /\ ids = <<v>> /\ mem.devs = {}
  /\ stage = "ready" /\ Owned # {} => mem.devs = OwnNodes
  /\ Written /\ Owned # {} => disk.devs = OwnNodes

BInv == Specs /\ Session /\ Owning

\* Changes of a config.json, field by field.
LEMMA HooksChanged ==
  ASSUME NEW s, Shape(s), NEW h
  PROVE  LET t == [s EXCEPT !.hooks = h]
         IN  Shape(t) /\ t.env = s.env /\ t.hooks = h /\ t.devs = s.devs /\ t.post = s.post
<1> DEFINE t == [s EXCEPT !.hooks = h]
<1>1. t = [env |-> s.env, hooks |-> h, devs |-> s.devs, post |-> s.post]
  BY DEF Shape
<1> HIDE DEF t
<1>2. Shape(t) /\ t.env = s.env /\ t.hooks = h /\ t.devs = s.devs /\ t.post = s.post
  BY <1>1 DEF Shape
<1> QED BY <1>2 DEF t

LEMMA EnvChanged ==
  ASSUME NEW s, Shape(s), NEW env
  PROVE  LET t == [s EXCEPT !.env = env]
         IN  Shape(t) /\ t.env = env /\ t.hooks = s.hooks /\ t.devs = s.devs /\ t.post = s.post
<1> DEFINE t == [s EXCEPT !.env = env]
<1>1. t = [env |-> env, hooks |-> s.hooks, devs |-> s.devs, post |-> s.post]
  BY DEF Shape
<1> HIDE DEF t
<1>2. Shape(t) /\ t.env = env /\ t.hooks = s.hooks /\ t.devs = s.devs /\ t.post = s.post
  BY <1>1 DEF Shape
<1> QED BY <1>2 DEF t

LEMMA PostChanged ==
  ASSUME NEW s, Shape(s), NEW post
  PROVE  LET t == [s EXCEPT !.post = post]
         IN  Shape(t) /\ t.env = s.env /\ t.hooks = s.hooks /\ t.devs = s.devs /\ t.post = post
<1> DEFINE t == [s EXCEPT !.post = post]
<1>1. t = [env |-> s.env, hooks |-> s.hooks, devs |-> s.devs, post |-> post]
  BY DEF Shape
<1> HIDE DEF t
<1>2. Shape(t) /\ t.env = s.env /\ t.hooks = s.hooks /\ t.devs = s.devs /\ t.post = post
  BY <1>1 DEF Shape
<1> QED BY <1>2 DEF t

LEMMA DevsChanged ==
  ASSUME NEW s, Shape(s), NEW devs
  PROVE  LET t == [s EXCEPT !.devs = devs]
         IN  Shape(t) /\ t.env = s.env /\ t.hooks = s.hooks /\ t.devs = devs /\ t.post = s.post
<1> DEFINE t == [s EXCEPT !.devs = devs]
<1>1. t = [env |-> s.env, hooks |-> s.hooks, devs |-> devs, post |-> s.post]
  BY DEF Shape
<1> HIDE DEF t
<1>2. Shape(t) /\ t.env = s.env /\ t.hooks = s.hooks /\ t.devs = devs /\ t.post = s.post
  BY <1>1 DEF Shape
<1> QED BY <1>2 DEF t

LEMMA LaterSpec ==
  ASSUME NEW old \in Seq(Lines), NEW spec, NEW n \in Nat, SpecOK(old, spec, n),
         NEW m \in Nat, n <= m
  PROVE  SpecOK(old, spec, m)
<1>1. PathsAdded(old, spec.env, n) => PathsAdded(old, spec.env, m)
  <2>1. n >= 2 => m >= 2
    OBVIOUS
  <2> QED BY <2>1, Zenon DEF PathsAdded
<1> QED BY <1>1 DEF SpecOK

LEMMA FreshSpec ==
  ASSUME NEW env \in Seq(Lines), NEW n
  PROVE  SpecOK(env, Fresh(env), n) /\ ~ HasPath(env, Fresh(env).env)
<1>1. \A i \in Len(env) + 1 .. Len(env) : FALSE
  OBVIOUS
<1>2. PathsAdded(env, env, n) /\ ~ HasPath(env, env)
  BY <1>1 DEF PathsAdded, HasPath
<1> QED BY <1>2, EditedSelf DEF SpecOK, Shape, Fresh

LEMMA BundleInit == Init => BInv
<1> SUFFICES ASSUME Init PROVE BInv
  OBVIOUS
<1>1. Specs
  BY DEF Init, Specs, Written, Working, Splits
<1>2. Session
  BY BundleAssumption DEF Init, Session, Written, Splits
<1>3. Owning
  BY BundleAssumption DEF Init, Owning, Owned, Written
<1> QED BY <1>1, <1>2, <1>3 DEF BInv

\* A session begins: the vNPU of the one before is left to nobody.
LEMMA BeginKeepsOwning ==
  ASSUME BInv, BeginSession
  PROVE  Owning'
<1>1. owner' = [v \in VIds |-> IF owner[v] = c THEN Orphan ELSE owner[v]] /\ stage' = "bundle"
  BY DEF BeginSession
<1>2. owner' \in [VIds -> {Free, Admin, Orphan, c}] /\ \A v \in VIds : owner'[v] # c
  BY <1>1, BundleAssumption DEF BInv, Owning
<1>3. Owned' = {}
  BY <1>2 DEF Owned
<1> QED BY <1>1, <1>2, <1>3 DEF Owning, Written

LEMMA NewBundleKeeps == ASSUME BInv, NEW env \in Envs, NewBundle(env) PROVE BInv'
<1>1. /\ asked' = env /\ disk' = Fresh(env) /\ mem' = Empty /\ stage' = "bundle"
      /\ rounds' = rounds + 1 /\ rounds < MaxRounds
  BY DEF NewBundle, BeginSession
<1>2. env \in Seq(Lines)
  BY BundleAssumption
<1>3. SpecOK(asked', disk', rounds') /\ ~ HasPath(asked', disk'.env)
  BY <1>1, <1>2, FreshSpec
<1>4. Specs'
  BY <1>1, <1>3 DEF Specs, Written, Working, Splits
<1>5. rounds' \in 0 .. MaxRounds /\ rounds' >= 1
  BY <1>1, BundleAssumption DEF BInv, Session
<1>6. Session'
  BY <1>1, <1>2, <1>3, <1>5 DEF Session, Written, Working, Splits
<1> QED BY <1>4, <1>6, BeginKeepsOwning DEF BInv, NewBundle

LEMMA ReuseBundleKeeps == ASSUME BInv, ReuseBundle PROVE BInv'
<1>1. /\ asked' = asked /\ disk' = disk /\ mem' = Empty /\ stage' = "bundle"
      /\ rounds' = rounds + 1 /\ rounds < MaxRounds /\ stage # "none"
  BY DEF ReuseBundle, BeginSession, EndStages
<1>2. /\ rounds \in Nat /\ rounds' \in Nat /\ rounds' >= 2 /\ rounds <= rounds'
      /\ rounds' \in 0 .. MaxRounds /\ asked \in Seq(Lines)
  BY <1>1, BundleAssumption DEF BInv, Session
<1>3. Specs'
  <2>1. ASSUME disk # Empty PROVE SpecOK(asked, disk, rounds')
    BY <1>2, <2>1, LaterSpec DEF BInv, Specs
  <2> QED BY <1>1, <2>1 DEF Specs, Written, Working, Splits
<1>4. Session'
  <2>1. rounds' >= 1 /\ ~ (rounds' < 2)
    BY <1>2
  <2> QED BY <1>1, <1>2, <2>1 DEF Session, Written, Splits
<1> QED BY <1>3, <1>4, BeginKeepsOwning DEF BInv, ReuseBundle

LEMMA LoadSpecKeeps == ASSUME BInv, LoadSpec PROVE BInv'
<1>1. /\ stage = "bundle" /\ stage' = "loaded" /\ mem' = disk /\ disk' = Empty
      /\ UNCHANGED <<owner, rounds, asked>>
  BY DEF LoadSpec
<1>2. Specs'
  BY <1>1 DEF BInv, Specs, Written, Working, Splits
<1>3. Session'
  BY <1>1 DEF BInv, Session, Written, Working, Splits
<1>4. Owning'
  BY <1>1 DEF BInv, Owning, Owned, Written
<1> QED BY <1>2, <1>3, <1>4 DEF BInv

LEMMA ParseSpecKeeps == ASSUME BInv, ParseSpec PROVE BInv'
<1>1. /\ stage = "loaded" /\ mem # Empty
      /\ stage' = IF GetValueByDeviceKey(mem.env) = <<>> THEN "ready" ELSE "parsed"
      /\ UNCHANGED <<disk, mem, owner, rounds, asked>>
  BY DEF ParseSpec
<1>2. SpecOK(asked, mem, rounds) /\ asked \in Seq(Lines)
  BY <1>1 DEF BInv, Specs, Session
<1>3. GetValueByDeviceKey(mem.env) = Wanted
  BY <1>2, EditedVisible DEF SpecOK, Wanted
<1>4. stage' \in {"ready", "parsed"} /\ (stage' = "parsed" <=> Wanted # <<>>) /\ Wanted' = Wanted
  BY <1>1, <1>3 DEF Wanted
<1>5. Specs'
  BY <1>1, <1>2, <1>4 DEF BInv, Specs, Written
<1>6. Session'
  BY <1>1, <1>4 DEF BInv, Session, Written, Working, Splits
<1>7. Owning'
  BY <1>1, <1>4 DEF BInv, Owning, Owned, Written
<1> QED BY <1>5, <1>6, <1>7 DEF BInv

LEMMA AddHookKeeps == ASSUME BInv, AddHook PROVE BInv'
<1>1. /\ stage = "parsed" /\ mem' = [mem EXCEPT !.hooks = 1]
      /\ stage' = IF Virtual(mem.env) THEN "hooked" ELSE "split"
      /\ UNCHANGED <<disk, owner, rounds, asked>>
  BY DEF AddHook
<1>2. SpecOK(asked, mem, rounds) /\ Wanted # <<>>
  BY <1>1 DEF BInv, Specs, Session, Working, Splits
<1>3. Shape(mem') /\ mem'.env = mem.env /\ mem'.hooks = 1 /\ mem'.devs = mem.devs
  <2>1. Shape(mem)
    BY <1>2 DEF SpecOK
  <2> QED BY <1>1, <2>1, HooksChanged, Zenon
<1>4. SpecOK(asked, mem', rounds)
  BY <1>2, <1>3 DEF SpecOK, Wanted
<1>5. stage' \in {"hooked", "split"} /\ Wanted' = Wanted /\ Owned' = Owned
  BY <1>1 DEF Wanted, Owned
<1>6. Specs'
  BY <1>1, <1>4, <1>5 DEF BInv, Specs, Written
<1>7. Session'
  BY <1>1, <1>2, <1>3, <1>5 DEF BInv, Session, Written, Working, Splits
<1>8. Owning'
  <2>1. /\ owner \in [VIds -> {Free, Admin, Orphan, c}] /\ Owned = {}
        /\ stage' = "split" => ~ Virtual(mem.env)
        /\ stage' = "hooked" => Virtual(mem.env)
    BY <1>1 DEF BInv, Owning
  <2>2. Virtual(mem'.env) = Virtual(mem.env)
    BY <1>3
  <2> QED BY <1>1, <1>5, <2>1, <2>2 DEF Owning, Written
<1> QED BY <1>6, <1>7, <1>8 DEF BInv

LEMMA SkipSplitKeeps == ASSUME BInv, SkipSplit PROVE BInv'
<1>1. /\ stage = "split" /\ stage' = "hooked" /\ ExtractVpuParam(mem.env) = "none"
      /\ UNCHANGED <<disk, mem, owner, rounds, ids, asked>>
  BY DEF SkipSplit
<1>2. Wanted' = Wanted /\ Owned' = Owned
  BY <1>1 DEF Wanted, Owned
<1>3. Specs'
  BY <1>1 DEF BInv, Specs, Written, Working, Splits
<1>4. Session'
  BY <1>1, <1>2 DEF BInv, Session, Written, Working, Splits
<1>5. Owning'
  BY <1>1, <1>2 DEF BInv, Owning, Written
<1> QED BY <1>3, <1>4, <1>5 DEF BInv

LEMMA SplitDeviceKeeps == ASSUME BInv, SplitDevice PROVE BInv'
<1>1. PICK p \in PhysIds, v \in VIds :
        /\ stage = "split" /\ ExtractVpuParam(mem.env) = "allowed"
        /\ owner' = [owner EXCEPT ![v] = c] /\ ids' = <<v>> /\ stage' = "hooked"
        /\ mem' = [mem EXCEPT !.env = WithVirtual(@), !.post = @ \cup
                     {[card |-> ChipOf[p].card, dev |-> ChipOf[p].dev, vid |-> v]}]
        /\ UNCHANGED <<disk, rounds, asked>>
  BY DEF SplitDevice
<1>2. SpecOK(asked, mem, rounds) /\ asked \in Seq(Lines) /\ ~ Virtual(mem.env) /\ Owned = {}
  BY <1>1 DEF BInv, Specs, Session, Owning, Working, Splits
<1>3. mem.devs = {}
  BY <1>1, <1>2 DEF SpecOK
<1>4. /\ Shape(mem') /\ mem'.env = WithVirtual(mem.env) /\ mem'.hooks = mem.hooks
      /\ mem'.devs = mem.devs
  <2> DEFINE x == WithVirtual(mem.env)
             y == mem.post \cup {[card |-> ChipOf[p].card, dev |-> ChipOf[p].dev, vid |-> v]}
             edited == [mem EXCEPT !.env = x]
  <2>1. mem' = [edited EXCEPT !.post = y] /\ Shape(mem)
    BY <1>1, <1>2 DEF SpecOK
  <2>2. /\ Shape(edited) /\ edited.env = x /\ edited.hooks = mem.hooks
        /\ edited.devs = mem.devs
    BY <2>1, EnvChanged, Zenon
  <2> HIDE DEF y, edited
  <2>3. /\ Shape(mem') /\ mem'.env = edited.env /\ mem'.hooks = edited.hooks
        /\ mem'.devs = edited.devs
    BY <2>1, <2>2, PostChanged, Zenon
  <2> QED BY <2>2, <2>3
<1>5. SpecOK(asked, mem', rounds) /\ (HasPath(asked, mem'.env) <=> HasPath(asked, mem.env))
  <2>1. Edited(asked, mem'.env)
    BY <1>2, <1>4, EditedWithVirtual DEF SpecOK
  <2>2. /\ PathsAdded(asked, mem.env, rounds) => PathsAdded(asked, mem'.env, rounds)
        /\ HasPath(asked, mem.env) <=> HasPath(asked, mem'.env)
    BY <1>2, <1>4, OtherEditsKeepPaths DEF SpecOK
  <2> QED BY <1>2, <1>3, <1>4, <2>1, <2>2 DEF SpecOK
<1>6. Owned' = {v} /\ owner' \in [VIds -> {Free, Admin, Orphan, c}]
  <2>1. owner \in [VIds -> {Free, Admin, Orphan, c}]
    BY DEF BInv, Owning
  <2>2. owner' \in [VIds -> {Free, Admin, Orphan, c}] /\ owner'[v] = c
        /\ \A u \in VIds : u # v => owner'[u] = owner[u]
    BY <1>1, <2>1
  <2> QED BY <1>2, <2>2 DEF Owned
<1>7. Specs'
  BY <1>1, <1>5 DEF BInv, Specs, Written
<1>8. Session'
  BY <1>1, <1>5 DEF BInv, Session, Written, Working, Splits, Wanted
<1>9. Owning'
  BY <1>1, <1>3, <1>4, <1>6 DEF Owning, Written
<1> QED BY <1>7, <1>8, <1>9 DEF BInv

\* The nodes of a container with a vNPU: only a virtual one can be there.
LEMMA AddedNodes ==
  ASSUME BInv, stage = "hooked", \A d \in Nodes : NodeExists(d), Owned # {}
  PROVE  Virtual(mem.env) /\ mem.devs \cup Nodes = OwnNodes
<1>1. PICK v \in VIds : Owned = {v} /\ ids = <<v>> /\ mem.devs = {}
  BY DEF BInv, Owning
<1> DEFINE node == [virt |-> Virtual(mem.env), id |-> v]
<1>2. ToSet(ids) = {v}
  BY <1>1 DEF ToSet
<1>3. Nodes = {node}
  BY <1>2, Zenon DEF Nodes
<1>4. Virtual(mem.env)
  <2> SUFFICES ASSUME ~ Virtual(mem.env) PROVE FALSE
    OBVIOUS
  <2>1. ~ node.virt /\ node.id = v
    OBVIOUS
  <2> HIDE DEF node
  <2>2. v \in PhysIds
    BY <1>3, <2>1 DEF NodeExists
  <2> QED BY <2>2, BundleAssumption
<1>5. node = [virt |-> TRUE, id |-> v]
  <2>1. Virtual(mem.env) = TRUE
    BY <1>4
  <2> QED BY <2>1, Zenon
<1> HIDE DEF node
<1>6. OwnNodes = {[virt |-> TRUE, id |-> v]}
  BY <1>1, Zenon DEF OwnNodes
<1> QED BY <1>1, <1>3, <1>4, <1>5, <1>6

LEMMA AddDeviceKeeps == ASSUME BInv, AddDevice PROVE BInv'
<1>1. /\ stage = "hooked" /\ stage' = "ready" /\ \A d \in Nodes : NodeExists(d)
      /\ mem' = [mem EXCEPT !.devs = @ \cup Nodes, !.env = AddLDEnv(@)]
      /\ UNCHANGED <<disk, owner, rounds, asked>>
  BY DEF AddDevice
<1>2. SpecOK(asked, mem, rounds) /\ asked \in Seq(Lines) /\ rounds \in Nat
  BY <1>1 DEF BInv, Specs, Session, Working, Splits
<1>3. /\ Shape(mem') /\ mem'.env = AddLDEnv(mem.env) /\ mem'.hooks = mem.hooks
      /\ mem'.devs = mem.devs \cup Nodes
  <2> DEFINE x == AddLDEnv(mem.env)
             y == mem.devs \cup Nodes
             filled == [mem EXCEPT !.devs = y]
  <2>1. mem' = [filled EXCEPT !.env = x] /\ Shape(mem)
    BY <1>1, <1>2 DEF SpecOK
  <2>2. /\ Shape(filled) /\ filled.env = mem.env /\ filled.hooks = mem.hooks
        /\ filled.devs = y
    BY <2>1, DevsChanged, Zenon
  <2> HIDE DEF x, filled
  <2>3. /\ Shape(mem') /\ mem'.env = x /\ mem'.hooks = filled.hooks
        /\ mem'.devs = filled.devs
    BY <2>1, <2>2, EnvChanged, Zenon
  <2> QED BY <2>2, <2>3 DEF x
<1>4. Edited(asked, mem'.env) /\ HasPath(asked, mem'.env)
  BY <1>2, <1>3, EditedAddLDEnv, AddLDEnvHasPath DEF SpecOK
<1>5. Proper(asked) => PathsAdded(asked, mem'.env, rounds)
  <2>1. HasPath(asked, mem.env) => rounds >= 2
    BY <1>1, <1>2 DEF BInv, Session, Working, Splits
  <2> QED BY <1>2, <1>3, <2>1, AddLDEnvPaths DEF SpecOK
<1>6. Virtual(mem'.env) \/ ExtractVpuParam(mem'.env) = "none"
  <2>1. Virtual(mem.env) \/ ExtractVpuParam(mem.env) = "none"
    BY <1>1, AddedNodes DEF BInv, Owning
  <2>2. mem.env \in Seq(Lines)
    BY <1>2 DEF SpecOK, Edited
  <2>3. /\ Virtual(mem'.env) = Virtual(mem.env)
        /\ ExtractVpuParam(mem'.env) = ExtractVpuParam(mem.env)
    BY <1>3, <2>2, AddedLookups
  <2> QED BY <2>1, <2>3
<1>7. SpecOK(asked, mem', rounds)
  BY <1>2, <1>3, <1>4, <1>5, <1>6 DEF SpecOK
<1>8. Specs'
  BY <1>1, <1>7 DEF BInv, Specs, Written
<1>9. Session'
  BY <1>1, <1>4 DEF BInv, Session, Written, Splits
<1>10. Owning'
  <2>1. Owned' = Owned /\ OwnNodes' = OwnNodes
    BY <1>1 DEF Owned, OwnNodes
  <2>2. Owned # {} => mem'.devs = OwnNodes
    BY <1>1, <1>3, AddedNodes
  <2>3. owner \in [VIds -> {Free, Admin, Orphan, c}]
    BY DEF BInv, Owning
  <2> QED BY <1>1, <2>1, <2>2, <2>3 DEF Owning, Written
<1> QED BY <1>8, <1>9, <1>10 DEF BInv

\* Rejected or killed: what is on disk stays as it was.
LEMMA AbortKeeps == ASSUME BInv, Abort, stage # "none" PROVE BInv'
<1>1. /\ stage' = "failed" /\ mem' = Empty /\ UNCHANGED <<disk, owner, rounds, asked>>
  BY DEF Abort
<1>2. Specs'
  BY <1>1 DEF BInv, Specs, Written, Working, Splits
<1>3. Session'
  BY <1>1 DEF BInv, Session, Written, Splits
<1>4. Owning'
  BY <1>1 DEF BInv, Owning, Written
<1> QED BY <1>2, <1>3, <1>4 DEF BInv

LEMMA WriteSpecKeeps == ASSUME BInv, WriteSpec PROVE BInv'
<1>1. /\ stage = "ready" /\ stage' = "written"
      /\ disk' = [mem EXCEPT !.env = AddEnvToDevicePlugin(mem.env)]
      /\ UNCHANGED <<mem, owner, rounds, asked>>
  BY DEF WriteSpec
<1>2. SpecOK(asked, mem, rounds) /\ asked \in Seq(Lines) /\ mem.env \in Seq(Lines)
  BY <1>1 DEF BInv, Specs, Session, Working, Splits, SpecOK, Edited
<1>3. /\ Shape(disk') /\ disk'.env = AddEnvToDevicePlugin(mem.env) /\ disk'.hooks = mem.hooks
      /\ disk'.devs = mem.devs
  <2>1. Shape(mem)
    BY <1>2 DEF SpecOK
  <2> QED BY <1>1, <2>1, EnvChanged, Zenon
<1>4. SpecOK(asked, disk', rounds) /\ (HasPath(asked, disk'.env) <=> HasPath(asked, mem.env))
  <2>1. Edited(asked, disk'.env)
    BY <1>2, <1>3, EditedAddEnv DEF SpecOK
  <2>2. /\ PathsAdded(asked, mem.env, rounds) => PathsAdded(asked, disk'.env, rounds)
        /\ HasPath(asked, mem.env) <=> HasPath(asked, disk'.env)
    BY <1>2, <1>3, OtherEditsKeepPaths DEF SpecOK
  <2>3. /\ Virtual(disk'.env) = Virtual(mem.env)
        /\ ExtractVpuParam(disk'.env) = ExtractVpuParam(mem.env)
    BY <1>2, <1>3, AddedLookups
  <2> QED BY <1>2, <1>3, <2>1, <2>2, <2>3 DEF SpecOK
<1>5. Specs'
  BY <1>1, <1>2, <1>4 DEF Specs
<1>6. Session'
  BY <1>1, <1>4 DEF BInv, Session, Written, Splits, Wanted
<1>7. Owning'
  BY <1>1, <1>3 DEF BInv, Owning, Written, Owned, OwnNodes
<1> QED BY <1>5, <1>6, <1>7 DEF BInv

LEMMA ExecRuncKeeps == ASSUME BInv, ExecRunc PROVE BInv'
<1>1. /\ stage = "written" /\ stage' = "runc" /\ mem' = Empty
      /\ UNCHANGED <<disk, owner, rounds, asked>>
  BY DEF ExecRunc
<1>2. Specs'
  BY <1>1 DEF BInv, Specs, Written, Working, Splits
<1>3. Session'
  BY <1>1 DEF BInv, Session, Written, Splits, Wanted
<1>4. Owning'
  BY <1>1 DEF BInv, Owning, Written, Owned, OwnNodes
<1> QED BY <1>2, <1>3, <1>4 DEF BInv

LEMMA BundleStep == BInv /\ [Next]_vars => BInv'
<1> SUFFICES ASSUME BInv, [Next]_vars PROVE BInv'
  OBVIOUS
<1>1. ASSUME NEW env \in Envs, NewBundle(env) PROVE BInv'
  BY <1>1, NewBundleKeeps
<1>2. CASE ReuseBundle
  BY <1>2, ReuseBundleKeeps
<1>3. CASE LoadSpec
  BY <1>3, LoadSpecKeeps
<1>4. CASE ParseSpec
  BY <1>4, ParseSpecKeeps
<1>5. CASE AddHook
  BY <1>5, AddHookKeeps
<1>6. CASE SkipSplit
  BY <1>6, SkipSplitKeeps
<1>7. CASE SplitDevice
  BY <1>7, SplitDeviceKeeps
<1>8. CASE AddDevice
  BY <1>8, AddDeviceKeeps
<1>9. CASE Reject
  <2>1. Abort /\ stage # "none"
    BY <1>9 DEF Reject, Rejected
  <2> QED BY <2>1, AbortKeeps
<1>10. CASE WriteSpec
  BY <1>10, WriteSpecKeeps
<1>11. CASE ExecRunc
  BY <1>11, ExecRuncKeeps
<1>12. CASE Die
  <2>1. Abort /\ stage # "none"
    BY <1>12 DEF Die
  <2> QED BY <2>1, AbortKeeps
<1>13. CASE UNCHANGED vars
  BY <1>13 DEF vars, BInv, Specs, Session, Owning, Written, Wanted, Owned, OwnNodes
<1> QED BY <1>1, <1>2, <1>3, <1>4, <1>5, <1>6, <1>7, <1>8, <1>9, <1>10, <1>11, <1>12, <1>13
        DEF Next

\* Whatever the engine wrote and however often the bundle was used, its
\* environment is the engine's, edited; and what the sessions left agrees
\* with who owns which vNPU.
THEOREM BundleInvariance == Spec => []BInv
BY BundleInit, BundleStep, PTL DEF Spec

-----------------------------------------------------------------------------
(* What follows from it.                                                   *)

\* However the four lookups take the environment: a bundle that goes to runc
\* with a vNPU of its own has the node of that vNPU and no other.
THEOREM SplitAlwaysSeesOnlyVNpu == Spec => []SplitSeesOnlyVNpu
<1>1. BInv => SplitSeesOnlyVNpu
  BY DEF BInv, Owning, OwnNodes, SplitSeesOnlyVNpu
<1> QED BY <1>1, BundleInvariance, PTL

\* The hook gives the verdict on the edited environment that it gives on the
\* engine's, unless VIRTUAL spoils the options, and skips a container with
\* devices only if two lines list them.
THEOREM HookAlwaysFollows == Spec => []HookFollows
<1>1. BInv => HookFollows
  <2> SUFFICES ASSUME BInv, Written PROVE HookFollows
    BY Zenon DEF HookFollows
  <2>1. SpecOK(asked, disk, rounds) /\ asked \in Seq(Lines)
    BY DEF BInv, Specs, Session
  <2>2. Edited(asked, disk.env)
    BY <2>1 DEF SpecOK
  <2>3. ASSUME Proper(asked), Len(disk.env) <= MaxLines
        PROVE  \/ HookVerdict(disk.env) = HookVerdict(asked)
               \/ /\ HookVerdict(asked) = "accepts" /\ HookVerdict(disk.env) = "refuses"
                  /\ \E i \in DOMAIN asked : asked[i].key = "OPTIONS" /\ Spoiled(asked[i].val)
    BY <2>1, <2>2, <2>3, EditedVerdict
  <2>4. ASSUME disk.hooks = 1, HookVerdict(disk.env) = "skips"
        PROVE  Cardinality({i \in DOMAIN asked : Named(asked[i], "VISIBLE")}) > 1
    <3>1. GetValueByDeviceKey(asked) # <<>>
      BY <2>1, <2>4 DEF SpecOK
    <3>2. HookVerdict(asked) = "skips"
      <4>1. /\ ~ (Len(disk.env) > MaxLines)
            /\ ~ HookPanics(disk.env, "VISIBLE") /\ GetValueByKey(disk.env, "VISIBLE") = <<>>
        BY <2>4 DEF HookVerdict
      <4>2. ~ (Len(asked) > MaxLines)
        BY <2>1, <2>2, <4>1, EditedLines, Limits
      <4> QED BY <2>1, <2>2, <4>1, <4>2, EditedVisible DEF HookVerdict
    <3> QED BY <2>1, <3>1, <3>2, SkipsOnlyTwice
  <2> QED BY <2>3, <2>4 DEF HookFollows
<1> QED BY <1>1, BundleInvariance, PTL

\* With proper variables and devices, the library path in force is the
\* user's followed by the driver's, once or (if added twice) twice.
THEOREM LibraryPathAlwaysKept == Spec => []LibraryPathKept
<1>1. BInv => LibraryPathKept
  <2> SUFFICES ASSUME BInv, Written, disk.hooks = 1, Proper(asked)
               PROVE  LET i == SelectLastInSeq(disk.env, LAMBDA l : Named(l, LD))
                          mine == GetValueByKey(asked, LD)
                      IN  \E n \in 1 .. MaxRounds :
                            disk.env[i].val = mine \o [k \in 1 .. n |-> Driver]
    BY Zenon DEF LibraryPathKept, LD
  <2> DEFINE last == SelectLastInSeq(disk.env, LAMBDA l : Named(l, LD))
             mine == GetValueByKey(asked, LD)
             val == disk.env[last].val
  <2>1. /\ SpecOK(asked, disk, rounds) /\ asked \in Seq(Lines)
        /\ rounds \in 0 .. MaxRounds /\ rounds >= 1
    BY DEF BInv, Specs, Session, Written
  <2>2. Edited(asked, disk.env) /\ HasPath(asked, disk.env) /\ PathsAdded(asked, disk.env, rounds)
    BY <2>1 DEF BInv, Session, SpecOK, Wanted
  <2>3. last = Final(Places(disk.env, LD))
    BY Zenon DEF SelectLastInSeq, Final, Places
  <2> HIDE DEF last
  <2>4. last \in Len(asked) + 1 .. Len(disk.env) /\ disk.env[last].key = LD
    BY <2>1, <2>2, <2>3, LastPath
  <2>5. \/ val = mine \o <<Driver>>
        \/ val = <<Driver>> \o <<Driver>> /\ rounds >= 2 /\ mine = <<>>
    <3>1. (\A j \in 1 .. Len(asked) : asked[j].key # LD) => mine = <<>>
      BY <2>1, ProperWithout
    <3> QED BY <2>2, <2>4, <3>1 DEF PathsAdded
  <2> HIDE DEF mine, val
  <2>6. ASSUME NEW D
        PROVE  <<D>> = [k \in 1 .. 1 |-> D] /\ <<>> \o [k \in 1 .. 2 |-> D] = <<D>> \o <<D>>
    OBVIOUS
  <2>7. 1 \in 1 .. MaxRounds /\ (rounds >= 2 => 2 \in 1 .. MaxRounds)
    BY <2>1, BundleAssumption
  <2>8. \E n \in 1 .. MaxRounds : val = mine \o [k \in 1 .. n |-> Driver]
    BY <2>5, <2>6, <2>7, Zenon
  <2> QED BY <2>8 DEF last, mine, val
<1> QED BY <1>1, BundleInvariance, PTL

-----------------------------------------------------------------------------
(* The devices of the list: from the line the engine wrote to the nodes in *)
(* config.json.                                                            *)

IdsOf(spec) == {d.id : d \in spec.devs}

\* The nodes in a bundle are of the ids of the list; but after a split the
\* list still names the chip, and the next session refuses it.
DevicesOK(spec) ==
  /\ spec.devs \subseteq Node /\ \A d \in spec.devs : d.virt => d.id \in VIds
  /\ spec.post \subseteq DestroyHook
  /\ \/ spec.devs = {}
     \/ IdsOf(spec) = WantedIds
     \/ Virtual(spec.env) /\ \E p \in PhysIds : WantedIds = {p}

InBundles ==
  /\ disk # Empty \/ Written => DevicesOK(disk)
  /\ mem # Empty \/ stage \in Working => DevicesOK(mem)

\* From the parse to the split the ids are those of the list, without equal
\* neighbours; and without a split they are given to the container.
InSession ==
  /\ ids \in Seq(Nat)
  /\ stage \in {"parsed", "split"} =>
       ToSet(ids) = WantedIds /\ \A i \in 1 .. Len(ids) - 1 : ids[i] # ids[i + 1]
  /\ stage = "hooked" =>
       IF Owned = {} THEN ToSet(ids) = WantedIds ELSE \E p \in PhysIds : WantedIds = {p}
  /\ stage = "ready" /\ Wanted # <<>> /\ Owned = {} => IdsOf(mem) = WantedIds
  /\ Written /\ Wanted # <<>> /\ Owned = {} => IdsOf(disk) = WantedIds

Bounded ==
  /\ stage \in {"none", "bundle", "loaded", "ready", "written", "runc", "failed"} \cup Splits
  /\ faults \in 0 .. MaxFaults

DInv == InBundles /\ InSession /\ Bounded

LEMMA DevicesInit == Init => DInv
<1> SUFFICES ASSUME Init PROVE DInv
  OBVIOUS
<1>1. stage = "none" /\ disk = Empty /\ mem = Empty /\ ids = <<>> /\ faults = 0
  BY DEF Init
<1>2. ids \in Seq(Nat)
  BY <1>1
<1> QED BY <1>1, <1>2, BundleAssumption
        DEF DInv, InBundles, InSession, Bounded, Written, Working, Splits

\* Where the engine's lines stay, so does what they ask for.
LEMMA SameWanted == ASSUME asked' = asked PROVE Wanted' = Wanted /\ WantedIds' = WantedIds
BY DEF Wanted, WantedIds

LEMMA BeginKeepsDevices ==
  ASSUME DInv, BeginSession
  PROVE  InSession' /\ Bounded'
<1>1. stage' = "bundle" /\ ids' = <<>> /\ faults' = faults
  BY DEF BeginSession
<1>2. ids' \in Seq(Nat)
  BY <1>1
<1> QED BY <1>1, <1>2 DEF DInv, InSession, Bounded, Written, Splits

LEMMA NewBundleGives == ASSUME DInv, NEW env \in Envs, NewBundle(env) PROVE DInv'
<1>1. disk' = Fresh(env) /\ mem' = Empty /\ stage' = "bundle" /\ BeginSession
  BY DEF NewBundle, BeginSession
<1>2. disk'.devs = {} /\ disk'.post = {}
  BY <1>1 DEF Fresh
<1>3. InBundles'
  BY <1>1, <1>2 DEF InBundles, DevicesOK, Working, Splits
<1> QED BY <1>1, <1>3, BeginKeepsDevices DEF DInv

LEMMA ReuseBundleGives == ASSUME DInv, ReuseBundle PROVE DInv'
<1>1. /\ disk' = disk /\ mem' = Empty /\ stage' = "bundle" /\ asked' = asked /\ BeginSession
  BY DEF ReuseBundle, BeginSession
<1>2. InBundles'
  BY <1>1, SameWanted DEF DInv, InBundles, DevicesOK, Working, Splits, Written
<1> QED BY <1>1, <1>2, BeginKeepsDevices DEF DInv

LEMMA LoadSpecGives == ASSUME DInv, LoadSpec PROVE DInv'
<1>1. /\ stage = "bundle" /\ stage' = "loaded" /\ mem' = disk /\ disk' = Empty
      /\ ids' = ids /\ faults' = faults /\ asked' = asked
  BY DEF LoadSpec
<1>2. InBundles'
  BY <1>1, SameWanted DEF DInv, InBundles, DevicesOK, Written, Working, Splits
<1> QED BY <1>1, <1>2 DEF DInv, InSession, Bounded, Written, Splits

\* checkVisibleDevice: what the list names, however it is sorted.
LEMMA ParsedIds ==
  ASSUME BInv, ParseSpec
  PROVE  /\ GetValueByDeviceKey(mem.env) = Wanted /\ Wanted \in Seq(Item) /\ Parses(Wanted)
         /\ ids' \in Seq(Nat) /\ ToSet(ids') = WantedIds /\ ToSet(Listed(Wanted)) = WantedIds
         /\ \A i \in 1 .. Len(ids') - 1 : ids'[i] # ids'[i + 1]
<1>1. /\ stage = "loaded" /\ mem # Empty /\ Parses(GetValueByDeviceKey(mem.env))
      /\ \E list \in SortSlice(Listed(GetValueByDeviceKey(mem.env))) :
           ids' = RemoveDuplication(list)
  BY DEF ParseSpec
<1>2. SpecOK(asked, mem, rounds) /\ asked \in Seq(Lines)
  BY <1>1 DEF BInv, Specs, Session
<1>3. GetValueByDeviceKey(mem.env) = Wanted
  BY <1>2, EditedVisible DEF SpecOK, Wanted
<1>4. Wanted \in Seq(Item)
  BY <1>2, DeviceValue DEF Wanted
<1>5. Listed(Wanted) \in Seq(Nat) /\ ToSet(Listed(Wanted)) = WantedIds
  BY <1>1, <1>3, <1>4, ListedIds DEF WantedIds, IdsIn
<1>6. PICK list \in SortSlice(Listed(Wanted)) : ids' = RemoveDuplication(list)
  BY <1>1, <1>3
<1>7. list \in Seq(Nat) /\ ToSet(list) = WantedIds
  BY <1>5, SortedIds
<1> QED BY <1>1, <1>3, <1>4, <1>5, <1>6, <1>7, RemovedIds

LEMMA ParseSpecGives == ASSUME BInv, DInv, ParseSpec PROVE DInv'
<1>1. /\ stage = "loaded" /\ mem # Empty
      /\ stage' = IF GetValueByDeviceKey(mem.env) = <<>> THEN "ready" ELSE "parsed"
      /\ UNCHANGED <<disk, mem, owner, faults, asked>>
  BY DEF ParseSpec
<1>2. stage' \in {"ready", "parsed"} /\ (stage' = "ready" => Wanted' = <<>>)
  BY <1>1, ParsedIds, SameWanted
<1>3. InBundles'
  BY <1>1, <1>2, SameWanted DEF DInv, InBundles, DevicesOK, Written
<1>4. InSession'
  BY <1>1, <1>2, ParsedIds, SameWanted DEF InSession, Written
<1> QED BY <1>1, <1>2, <1>3, <1>4 DEF DInv, Bounded, Splits

LEMMA AddHookGives == ASSUME BInv, DInv, AddHook PROVE DInv'
<1>1. /\ stage = "parsed" /\ mem' = [mem EXCEPT !.hooks = 1]
      /\ stage' = IF Virtual(mem.env) THEN "hooked" ELSE "split"
      /\ UNCHANGED <<disk, owner, ids, faults, asked>>
  BY DEF AddHook
<1>2. Shape(mem) /\ DevicesOK(mem) /\ Owned = {}
  BY <1>1 DEF BInv, Specs, SpecOK, DInv, InBundles, Working, Splits, Owning
<1>3. mem'.env = mem.env /\ mem'.devs = mem.devs /\ mem'.post = mem.post
  BY <1>1, <1>2, HooksChanged, Zenon
<1>4. DevicesOK(mem)' /\ Owned' = {}
  BY <1>1, <1>2, <1>3, SameWanted DEF DevicesOK, IdsOf, Owned
<1>5. stage' \in {"hooked", "split"}
  BY <1>1
<1>6. InBundles'
  BY <1>1, <1>4, <1>5, SameWanted DEF DInv, InBundles, DevicesOK, Written
<1>7. InSession'
  BY <1>1, <1>4, <1>5, SameWanted DEF DInv, InSession, Written
<1> QED BY <1>1, <1>5, <1>6, <1>7 DEF DInv, Bounded, Splits

LEMMA SkipSplitGives == ASSUME BInv, DInv, SkipSplit PROVE DInv'
<1>1. /\ stage = "split" /\ stage' = "hooked" /\ UNCHANGED <<disk, mem, owner, ids, faults, asked>>
  BY DEF SkipSplit
<1>2. Owned = {} /\ Owned' = {}
  BY <1>1 DEF BInv, Owning, Owned
<1>3. InBundles'
  BY <1>1, SameWanted DEF DInv, InBundles, DevicesOK, Written, Working, Splits
<1>4. InSession'
  BY <1>1, <1>2, SameWanted DEF DInv, InSession, Written
<1> QED BY <1>1, <1>3, <1>4 DEF DInv, Bounded, Splits

LEMMA SplitDeviceGives == ASSUME BInv, DInv, SplitDevice PROVE DInv'
<1>1. PICK p \in PhysIds, v \in VIds :
        /\ stage = "split" /\ ids = <<p>> /\ ExtractVpuParam(mem.env) = "allowed"
        /\ owner' = [owner EXCEPT ![v] = c]
        /\ mem' = [mem EXCEPT !.env = WithVirtual(mem.env), !.post = mem.post \cup
                     {[card |-> ChipOf[p].card, dev |-> ChipOf[p].dev, vid |-> v]}]
        /\ ids' = <<v>> /\ stage' = "hooked" /\ UNCHANGED <<disk, faults, asked>>
  BY DEF SplitDevice
<1>2. Shape(mem) /\ DevicesOK(mem) /\ ToSet(ids) = WantedIds
  BY <1>1 DEF BInv, Specs, SpecOK, DInv, InBundles, InSession, Working, Splits
<1>3. WantedIds = {p}
  BY <1>1, <1>2 DEF ToSet
<1>4. mem.devs = {}
  <2>1. SpecOK(asked, mem, rounds) /\ ~ Virtual(mem.env)
    BY <1>1 DEF BInv, Specs, Owning, Working, Splits
  <2> QED BY <1>1, <2>1 DEF SpecOK
<1>5. /\ mem'.devs = {}
      /\ mem'.post = mem.post \cup {[card |-> ChipOf[p].card, dev |-> ChipOf[p].dev, vid |-> v]}
  <2> DEFINE x == WithVirtual(mem.env)
             y == mem.post \cup {[card |-> ChipOf[p].card, dev |-> ChipOf[p].dev, vid |-> v]}
             edited == [mem EXCEPT !.env = x]
  <2>1. mem' = [edited EXCEPT !.post = y]
    BY <1>1
  <2>2. Shape(edited) /\ edited.devs = mem.devs
    BY <1>2, EnvChanged, Zenon
  <2> HIDE DEF y, edited
  <2>3. mem'.devs = edited.devs /\ mem'.post = y
    BY <2>1, <2>2, PostChanged, Zenon
  <2> QED BY <1>4, <2>2, <2>3 DEF y
<1>6. DevicesOK(mem)'
  <2>1. [card |-> ChipOf[p].card, dev |-> ChipOf[p].dev, vid |-> v] \in DestroyHook
    BY BundleAssumption DEF DestroyHook
  <2> QED BY <1>2, <1>5, <2>1 DEF DevicesOK
<1>7. Owned' # {}
  <2>1. owner \in [VIds -> {Free, Admin, Orphan, c}]
    BY DEF BInv, Owning
  <2> QED BY <1>1, <2>1 DEF Owned
<1>8. ids' \in Seq(Nat)
  BY <1>1, BundleAssumption
<1>9. InBundles'
  BY <1>1, <1>6, SameWanted DEF DInv, InBundles, DevicesOK, Written
<1>10. InSession'
  BY <1>1, <1>3, <1>7, <1>8, SameWanted DEF InSession, Written
<1> QED BY <1>1, <1>9, <1>10 DEF DInv, Bounded, Splits

LEMMA AddDeviceGives == ASSUME BInv, DInv, AddDevice PROVE DInv'
<1>1. /\ stage = "hooked" /\ stage' = "ready" /\ \A d \in Nodes : NodeExists(d)
      /\ mem' = [mem EXCEPT !.devs = mem.devs \cup Nodes, !.env = AddLDEnv(mem.env)]
      /\ UNCHANGED <<disk, owner, ids, faults, asked>>
  BY DEF AddDevice
<1>2. Shape(mem) /\ DevicesOK(mem) /\ mem.env \in Seq(Lines)
  BY <1>1 DEF BInv, Specs, SpecOK, Edited, DInv, InBundles, Working, Splits
<1>3. /\ mem'.env = AddLDEnv(mem.env) /\ mem'.devs = mem.devs \cup Nodes /\ mem'.post = mem.post
  <2> DEFINE x == AddLDEnv(mem.env)
             y == mem.devs \cup Nodes
             filled == [mem EXCEPT !.devs = y]
  <2>1. mem' = [filled EXCEPT !.env = x]
    BY <1>1
  <2>2. Shape(filled) /\ filled.devs = y /\ filled.post = mem.post
    BY <1>2, DevsChanged, Zenon
  <2> HIDE DEF x, y, filled
  <2>3. mem'.env = x /\ mem'.devs = filled.devs /\ mem'.post = filled.post
    BY <2>1, <2>2, EnvChanged, Zenon
  <2> QED BY <2>2, <2>3 DEF x, y
<1>4. Virtual(mem'.env) = Virtual(mem.env)
  BY <1>2, <1>3, AddedLookups
<1>5. ToSet(ids) = {d.id : d \in Nodes}
  <2>1. \A n \in ToSet(ids) : [virt |-> Virtual(mem.env), id |-> n] \in Nodes
    BY DEF Nodes
  <2>2. \A d \in Nodes : d.id \in ToSet(ids)
    BY DEF Nodes
  <2>3. ASSUME NEW n \in ToSet(ids) PROVE \E d \in Nodes : n = d.id
    <3> DEFINE d == [virt |-> Virtual(mem.env), id |-> n]
    <3>1. d \in Nodes /\ d.id = n
      BY <2>1
    <3> HIDE DEF d
    <3> QED BY <3>1
  <2> QED BY <2>2, <2>3
<1>6. IdsOf(mem') = IdsOf(mem) \cup ToSet(ids)
  BY <1>3, <1>5 DEF IdsOf
<1>7. mem'.devs \subseteq Node /\ \A d \in mem'.devs : d.virt => d.id \in VIds
  <2>1. ToSet(ids) \subseteq Nat
    BY DEF DInv, InSession, ToSet
  <2>2. Nodes \subseteq Node
    <3>1. Virtual(mem.env) \in BOOLEAN
      BY DEF Virtual
    <3>2. ASSUME NEW n \in ToSet(ids), NEW b \in BOOLEAN PROVE [virt |-> b, id |-> n] \in Node
      BY <2>1 DEF Node
    <3> QED BY <3>1, <3>2, Zenon DEF Nodes
  <2> QED BY <1>1, <1>2, <1>3, <2>2 DEF DevicesOK, NodeExists
<1>8. Owned' = Owned
  BY <1>1 DEF Owned
<1>9. Owned = {} => IdsOf(mem') = WantedIds
  <2> SUFFICES ASSUME Owned = {} PROVE IdsOf(mem') = WantedIds
    OBVIOUS
  <2>1. ToSet(ids) = WantedIds
    BY <1>1 DEF DInv, InSession
  <2>2. CASE mem.devs = {}
    BY <1>6, <2>1, <2>2 DEF IdsOf
  <2>3. CASE IdsOf(mem) = WantedIds
    BY <1>6, <2>1, <2>3
  <2>4. CASE Virtual(mem.env) /\ \E p \in PhysIds : WantedIds = {p}
    <3>1. PICK p \in PhysIds : WantedIds = {p}
      BY <2>4
    <3>2. PICK d \in Nodes : d.id = p
      BY <1>5, <2>1, <3>1
    <3>3. d.virt
      BY <2>4 DEF Nodes
    <3>4. p \in VIds
      BY <1>1, <3>2, <3>3 DEF NodeExists
    <3> QED BY <3>4, BundleAssumption
  <2> QED BY <1>2, <2>2, <2>3, <2>4 DEF DevicesOK
<1>10. Owned # {} => Virtual(mem.env) /\ \E p \in PhysIds : WantedIds = {p}
  BY <1>1, AddedNodes DEF DInv, InSession
<1>11. DevicesOK(mem)'
  BY <1>2, <1>3, <1>4, <1>7, <1>9, <1>10, <1>1, SameWanted DEF DevicesOK, IdsOf
<1>12. InBundles'
  BY <1>1, <1>11, SameWanted DEF DInv, InBundles, DevicesOK, Written
<1>13. InSession'
  BY <1>1, <1>8, <1>9, SameWanted DEF DInv, InSession, Written, IdsOf
<1> QED BY <1>1, <1>12, <1>13 DEF DInv, Bounded, Splits

LEMMA AbortGives ==
  ASSUME DInv, Abort, stage # "none", faults' \in 0 .. MaxFaults
  PROVE  DInv'
<1>1. /\ stage' = "failed" /\ mem' = Empty /\ ids' = <<>> /\ UNCHANGED <<disk, owner, asked>>
  BY DEF Abort
<1>2. ids' \in Seq(Nat)
  BY <1>1
<1>3. InBundles'
  BY <1>1, SameWanted DEF DInv, InBundles, DevicesOK, Written, Working, Splits
<1> QED BY <1>1, <1>2, <1>3 DEF DInv, InSession, Bounded, Written, Splits

LEMMA WriteSpecGives == ASSUME BInv, DInv, WriteSpec PROVE DInv'
<1>1. /\ stage = "ready" /\ stage' = "written"
      /\ disk' = [mem EXCEPT !.env = AddEnvToDevicePlugin(mem.env)]
      /\ UNCHANGED <<mem, owner, ids, faults, asked>>
  BY DEF WriteSpec
<1>2. Shape(mem) /\ DevicesOK(mem) /\ mem.env \in Seq(Lines)
  BY <1>1 DEF BInv, Specs, SpecOK, Edited, DInv, InBundles, Working, Splits
<1>3. disk'.env = AddEnvToDevicePlugin(mem.env) /\ disk'.devs = mem.devs /\ disk'.post = mem.post
  BY <1>1, <1>2, EnvChanged, Zenon
<1>4. Virtual(disk'.env) = Virtual(mem.env)
  BY <1>2, <1>3, AddedLookups
<1>5. DevicesOK(disk)' /\ IdsOf(disk') = IdsOf(mem)
  BY <1>1, <1>2, <1>3, <1>4, SameWanted DEF DevicesOK, IdsOf
<1>6. Owned' = Owned
  BY <1>1 DEF Owned
<1>7. InBundles'
  BY <1>1, <1>2, <1>5, SameWanted DEF InBundles, DevicesOK
<1>8. InSession'
  BY <1>1, <1>5, <1>6, SameWanted DEF DInv, InSession, Written
<1> QED BY <1>1, <1>7, <1>8 DEF DInv, Bounded, Splits

LEMMA ExecRuncGives == ASSUME DInv, ExecRunc PROVE DInv'
<1>1. /\ stage = "written" /\ stage' = "runc" /\ mem' = Empty /\ ids' = <<>>
      /\ UNCHANGED <<disk, owner, faults, asked>>
  BY DEF ExecRunc
<1>2. ids' \in Seq(Nat) /\ Owned' = Owned
  BY <1>1 DEF Owned
<1>3. InBundles'
  BY <1>1, SameWanted DEF DInv, InBundles, DevicesOK, Written, Working, Splits
<1>4. InSession'
  BY <1>1, <1>2, SameWanted DEF DInv, InSession, Written, IdsOf
<1> QED BY <1>1, <1>3, <1>4 DEF DInv, Bounded, Splits

LEMMA DevicesStep == BInv /\ DInv /\ [Next]_vars => DInv'
<1> SUFFICES ASSUME BInv, DInv, [Next]_vars PROVE DInv'
  OBVIOUS
<1>1. ASSUME NEW env \in Envs, NewBundle(env) PROVE DInv'
  BY <1>1, NewBundleGives
<1>2. CASE ReuseBundle
  BY <1>2, ReuseBundleGives
<1>3. CASE LoadSpec
  BY <1>3, LoadSpecGives
<1>4. CASE ParseSpec
  BY <1>4, ParseSpecGives
<1>5. CASE AddHook
  BY <1>5, AddHookGives
<1>6. CASE SkipSplit
  BY <1>6, SkipSplitGives
<1>7. CASE SplitDevice
  BY <1>7, SplitDeviceGives
<1>8. CASE AddDevice
  BY <1>8, AddDeviceGives
<1>9. CASE Reject
  <2>1. Abort /\ stage # "none" /\ faults' = faults
    BY <1>9 DEF Reject, Rejected
  <2> QED BY <2>1, AbortGives DEF DInv, Bounded
<1>10. CASE WriteSpec
  BY <1>10, WriteSpecGives
<1>11. CASE ExecRunc
  BY <1>11, ExecRuncGives
<1>12. CASE Die
  <2>1. Abort /\ stage # "none" /\ faults' = faults + 1 /\ faults < MaxFaults
    BY <1>12 DEF Die
  <2>2. faults' \in 0 .. MaxFaults
    BY <2>1, BundleAssumption DEF DInv, Bounded
  <2> QED BY <2>1, <2>2, AbortGives
<1>13. CASE UNCHANGED vars
  <2>1. UNCHANGED <<stage, disk, mem, owner, faults, ids, asked>>
    BY <1>13 DEF vars
  <2>2. WantedIds' = WantedIds /\ Wanted' = Wanted /\ Owned' = Owned
    BY <2>1, SameWanted DEF Owned
  <2>3. InBundles' /\ Bounded'
    BY <2>1, <2>2 DEF DInv, InBundles, DevicesOK, IdsOf, Written, Bounded
  <2> QED BY <2>1, <2>2, <2>3 DEF DInv, InSession, Written, IdsOf
<1> QED BY <1>1, <1>2, <1>3, <1>4, <1>5, <1>6, <1>7, <1>8, <1>9, <1>10, <1>11, <1>12, <1>13
        DEF Next

\* The ids of the list, from the parse to the nodes in config.json.
THEOREM DevicesInvariance == Spec => []DInv
BY BundleInvariance, DevicesInit, DevicesStep, PTL DEF Spec

LEMMA TypedSpec ==
  ASSUME NEW old, NEW n, NEW spec, SpecOK(old, spec, n),
         spec.devs \subseteq Node, spec.post \subseteq DestroyHook
  PROVE  spec \in ConfigJson /\ spec # Empty
<1>1. /\ spec = [env |-> spec.env, hooks |-> spec.hooks, devs |-> spec.devs, post |-> spec.post]
      /\ spec.env \in Seq(Lines) /\ spec.hooks \in Nat
      /\ spec.devs \subseteq Node /\ spec.post \subseteq DestroyHook
  BY DEF SpecOK, Shape, Edited
<1>2. spec \in ConfigJson
  BY <1>1 DEF ConfigJson
<1> QED BY <1>2, EmptyAssumption

\* What a config.json may hold, what the session remembers, who owns what.
THEOREM BundleTypes == Spec => []TypeOK
<1>1. BInv /\ DInv => TypeOK
  <2> SUFFICES ASSUME BInv, DInv PROVE TypeOK
    OBVIOUS
  <2>1. ASSUME NEW spec \in {disk, mem}, spec # Empty
        PROVE  /\ spec \in ConfigJson /\ spec.hooks \in {0, 1}
               /\ \A d \in spec.devs : d.virt => d.id \in VIds
    <3>1. SpecOK(asked, spec, rounds) /\ DevicesOK(spec)
      BY <2>1 DEF BInv, Specs, DInv, InBundles
    <3> QED BY <3>1, TypedSpec DEF SpecOK, DevicesOK
  <2>2. ids \in Seq(Nat)
    BY DEF DInv, InSession
  <2>3. owner \in [VIds -> {Free, Admin, Orphan, c}] /\ rounds \in 0 .. MaxRounds
    BY DEF BInv, Owning, Session
  <2> QED BY <2>1, <2>2, <2>3 DEF TypeOK, DInv, Bounded, Splits
<1> QED BY <1>1, BundleInvariance, DevicesInvariance, PTL

\* A bundle without a vNPU has the devices of the list, which is neither
\* sorted nor freed of all repetitions; and a list of one device, however
\* often it names it, and no other is a list of one.
THEOREM DevicesAlwaysAsAsked == Spec => []DevicesAsAsked
<1>1. BInv /\ DInv => DevicesAsAsked
  <2> SUFFICES ASSUME BInv, DInv PROVE DevicesAsAsked
    OBVIOUS
  <2>1. ASSUME Written, Owned = {}, disk.hooks = 1 PROVE IdsOf(disk) = WantedIds
    <3>1. Wanted # <<>>
      BY <2>1 DEF BInv, Specs, SpecOK, Wanted
    <3> QED BY <2>1, <3>1 DEF DInv, InSession
  <2>2. ASSUME stage = "parsed" PROVE (Len(ids) = 1) <=> (Cardinality(WantedIds) = 1)
    BY <2>2, CountsAsOne DEF DInv, InSession
  <2> QED BY <2>1, <2>2 DEF DevicesAsAsked, IdsOf
<1> QED BY <1>1, BundleInvariance, DevicesInvariance, PTL

-----------------------------------------------------------------------------
(* The bundle behaves as NpuLifecycle says.                                *)

\* A container alone: its entry of a function, and the change of it.
LEMMA Alone ==
  ASSUME NEW a
  PROVE  /\ [x \in {c} |-> a][c] = a
         /\ \A b : [[x \in {c} |-> a] EXCEPT ![c] = b] = [x \in {c} |-> b]
         /\ \A d : [[x \in {c} |-> a] EXCEPT ![c].devs = @ \cup d]
                     = [x \in {c} |-> [a EXCEPT !.devs = @ \cup d]]
OBVIOUS

\* A config.json as NpuLifecycle sees it.
LEMMA AbstractIs ==
  ASSUME NEW old, NEW n, NEW spec, SpecOK(old, spec, n),
         spec.devs \subseteq Node, spec.post \subseteq DestroyHook
  PROVE  /\ AbstractOrEmpty(spec) = Abstract(spec) /\ Abstract(spec) \in OciSpec
         /\ Abstract(spec) # Empty
<1> DEFINE val == GetValueByDeviceKey(spec.env)
           split == ExtractVpuParam(spec.env)
           virt == Virtual(spec.env)
           vis == IF Parses(val) THEN ToSet(Listed(val)) ELSE {}
<1>1. spec \in ConfigJson /\ spec # Empty
  BY TypedSpec
<1>2. vis \subseteq Nat
  <2>1. val \in Seq(Item)
    BY <1>1, DeviceValue DEF ConfigJson
  <2> HIDE DEF val
  <2>2. Parses(val) => Listed(val) \in Seq(Nat)
    BY <2>1, ListedIds
  <2> QED BY <2>2 DEF ToSet
<1>3. split \in {"none", "allowed", "unknown"}
  <2>1. \E i : split = CASE i = 0 -> "none"
            [] i # 0 /\ spec.env[i].val \in {<<Word(t)>> : t \in Templates} -> "allowed"
            [] OTHER -> "unknown"
    BY Lookups
  <2> HIDE DEF split
  <2> QED BY <2>1
<1>4. virt \in BOOLEAN /\ Parses(val) \in BOOLEAN
  BY DEF Virtual, Parses
<1>5. Abstract(spec) = [vis |-> vis, valid |-> Parses(val), split |-> split, virt |-> virt,
                        hooks |-> spec.hooks, devs |-> spec.devs, post |-> spec.post]
  BY DEF Abstract
<1> HIDE DEF val, split, virt, vis
<1>6. Abstract(spec) \in OciSpec
  BY <1>1, <1>2, <1>3, <1>4, <1>5 DEF ConfigJson, OciSpec
<1> QED BY <1>1, <1>6, EmptyAssumption DEF AbstractOrEmpty

\* An edit that leaves the lookups of the list and the template alone.
LEMMA AbstractChange ==
  ASSUME NEW s, NEW t,
         GetValueByDeviceKey(t.env) = GetValueByDeviceKey(s.env),
         ExtractVpuParam(t.env) = ExtractVpuParam(s.env)
  PROVE  Abstract(t) = [vis |-> Abstract(s).vis, valid |-> Abstract(s).valid,
                        split |-> Abstract(s).split, virt |-> Virtual(t.env),
                        hooks |-> t.hooks, devs |-> t.devs, post |-> t.post]
BY DEF Abstract

LEMMA LoadSpecImplements == ASSUME LoadSpec PROVE Lifecycle!LoadSpec(c)
<1>1. /\ stage = "bundle" /\ stage' = "loaded" /\ mem' = disk /\ disk' = Empty
      /\ UNCHANGED <<owner, parent, reported, rounds, faults, ids>>
  BY DEF LoadSpec
<1>2. AbstractOrEmpty(mem') = AbstractOrEmpty(disk) /\ AbstractOrEmpty(disk') = Empty
  BY <1>1 DEF AbstractOrEmpty
<1> QED BY <1>1, <1>2, Alone DEF Lifecycle!LoadSpec, Lifecycle!driver

LEMMA BeginSessionImplements == ASSUME BeginSession PROVE Lifecycle!BeginSession(c)
<1>1. /\ stage \in {"none"} \cup EndStages /\ rounds < MaxRounds /\ rounds' = rounds + 1
      /\ stage' = "bundle" /\ mem' = Empty /\ ids' = <<>> /\ reported' = FALSE
      /\ owner' = [v \in VIds |-> IF owner[v] = c THEN Orphan ELSE owner[v]]
      /\ UNCHANGED <<parent, faults>>
  BY DEF BeginSession
<1>2. AbstractOrEmpty(mem') = Empty /\ ToSet(ids') = {}
  BY <1>1 DEF AbstractOrEmpty, ToSet
<1> QED BY <1>1, <1>2, Alone DEF Lifecycle!BeginSession, Lifecycle!EndStages, EndStages

LEMMA NewBundleImplements ==
  ASSUME NEW env \in Envs, NewBundle(env)
  PROVE  Lifecycle!NewBundle(c, Abstract(Fresh(asked')))
<1>1. asked' = env /\ disk' = Fresh(asked') /\ BeginSession
  BY DEF NewBundle
<1>2. disk' # Empty
  <2>1. env \in Seq(Lines)
    BY BundleAssumption
  <2>2. Fresh(env) \in ConfigJson
    BY <2>1 DEF Fresh, ConfigJson
  <2> QED BY <1>1, <2>2, EmptyAssumption
<1>3. AbstractOrEmpty(disk') = Abstract(Fresh(asked'))
  BY <1>1, <1>2 DEF AbstractOrEmpty
<1> QED BY <1>1, <1>3, BeginSessionImplements, Alone DEF Lifecycle!NewBundle

LEMMA ReuseBundleImplements == ASSUME ReuseBundle PROVE Lifecycle!ReuseBundle(c)
<1>1. stage \in EndStages /\ BeginSession /\ disk' = disk
  BY DEF ReuseBundle
<1>2. AbstractOrEmpty(disk') = AbstractOrEmpty(disk)
  BY <1>1
<1> QED BY <1>1, <1>2, BeginSessionImplements, Alone
        DEF Lifecycle!ReuseBundle, Lifecycle!EndStages, EndStages

\* Working on a config.json: what is read is one, and it is the container's.
LEMMA InMemory ==
  ASSUME BInv, DInv, mem # Empty \/ stage \in Working
  PROVE  /\ SpecOK(asked, mem, rounds) /\ DevicesOK(mem) /\ Shape(mem) /\ mem.env \in Seq(Lines)
         /\ AbstractOrEmpty(mem) = Abstract(mem) /\ Abstract(mem) # Empty
<1>1. SpecOK(asked, mem, rounds) /\ DevicesOK(mem)
  BY DEF BInv, Specs, DInv, InBundles
<1> QED BY <1>1, AbstractIs DEF SpecOK, Edited, DevicesOK

LEMMA ParseSpecImplements == ASSUME BInv, DInv, ParseSpec PROVE Lifecycle!ParseSpec(c)
<1>1. /\ stage = "loaded" /\ mem # Empty /\ Parses(GetValueByDeviceKey(mem.env))
      /\ stage' = IF GetValueByDeviceKey(mem.env) = <<>> THEN "ready" ELSE "parsed"
      /\ UNCHANGED <<disk, mem, owner, parent, reported, rounds, faults>>
  BY DEF ParseSpec
<1>2. AbstractOrEmpty(mem) = Abstract(mem) /\ Abstract(mem) # Empty
  BY <1>1, InMemory
<1>3. /\ GetValueByDeviceKey(mem.env) = Wanted /\ Wanted \in Seq(Item)
      /\ ToSet(ids') = ToSet(Listed(Wanted))
  BY ParsedIds
<1>4. Abstract(mem).valid /\ Abstract(mem).vis = ToSet(ids')
  BY <1>1, <1>3 DEF Abstract
<1>5. stage' = IF Abstract(mem).vis = {} THEN "ready" ELSE "parsed"
  BY <1>1, <1>3, <1>4, ListNamesSome
<1>6. AbstractOrEmpty(mem') = AbstractOrEmpty(mem) /\ AbstractOrEmpty(disk') = AbstractOrEmpty(disk)
  BY <1>1
<1> QED BY <1>1, <1>2, <1>4, <1>5, <1>6, Alone DEF Lifecycle!ParseSpec, Lifecycle!driver

LEMMA AddHookImplements == ASSUME BInv, DInv, BInv', DInv', AddHook PROVE Lifecycle!AddHook(c)
<1>1. /\ stage = "parsed" /\ mem' = [mem EXCEPT !.hooks = 1]
      /\ stage' = IF Virtual(mem.env) THEN "hooked" ELSE "split"
      /\ UNCHANGED <<disk, owner, parent, reported, rounds, faults, ids>>
  BY DEF AddHook
<1>2. /\ Shape(mem) /\ mem.hooks \in {0, 1}
      /\ AbstractOrEmpty(mem) = Abstract(mem) /\ AbstractOrEmpty(mem') = Abstract(mem')
  <2>1. stage' \in Working /\ stage \in Working
    BY <1>1 DEF Working, Splits
  <2>2. /\ SpecOK(asked, mem, rounds) /\ DevicesOK(mem)
        /\ SpecOK(asked, mem, rounds)' /\ DevicesOK(mem)'
    BY <2>1 DEF BInv, Specs, DInv, InBundles
  <2>3. AbstractOrEmpty(mem') = Abstract(mem')
    BY <2>2, AbstractIs DEF DevicesOK
  <2> QED BY <2>1, <2>2, <2>3, InMemory DEF SpecOK
<1>3. /\ mem'.env = mem.env /\ mem'.hooks = 1 /\ mem'.devs = mem.devs /\ mem'.post = mem.post
  BY <1>1, <1>2, HooksChanged, Zenon
<1>4. Abstract(mem') = Lifecycle!AddPrestart(Abstract(mem))
  <2> DEFINE a == Abstract(mem)
  <2>1. a = [vis |-> a.vis, valid |-> a.valid, split |-> a.split, virt |-> a.virt,
             hooks |-> a.hooks, devs |-> a.devs, post |-> a.post]
    BY DEF Abstract
  <2>2. /\ a.virt = Virtual(mem.env) /\ a.hooks = mem.hooks /\ a.devs = mem.devs
        /\ a.post = mem.post
    BY DEF Abstract
  <2>3. Abstract(mem') = [vis |-> a.vis, valid |-> a.valid, split |-> a.split, virt |-> a.virt,
                          hooks |-> 1, devs |-> a.devs, post |-> a.post]
    BY <1>3, <2>2, AbstractChange
  <2> HIDE DEF a
  <2> QED BY <1>2, <2>1, <2>2, <2>3 DEF Lifecycle!AddPrestart, a
<1>5. Abstract(mem).virt = Virtual(mem.env) /\ AbstractOrEmpty(disk') = AbstractOrEmpty(disk)
  BY <1>1 DEF Abstract
<1> QED BY <1>1, <1>2, <1>4, <1>5, Alone DEF Lifecycle!AddHook, Lifecycle!driver

LEMMA SkipSplitImplements == ASSUME BInv, DInv, SkipSplit PROVE Lifecycle!SkipSplit(c)
<1>1. /\ stage = "split" /\ ExtractVpuParam(mem.env) = "none" /\ stage' = "hooked"
      /\ UNCHANGED <<disk, mem, owner, parent, reported, rounds, faults, ids>>
  BY DEF SkipSplit
<1>2. AbstractOrEmpty(mem) = Abstract(mem)
  BY <1>1, InMemory DEF Working, Splits
<1>3. Abstract(mem).split = "none"
  BY <1>1 DEF Abstract
<1>4. AbstractOrEmpty(mem') = AbstractOrEmpty(mem) /\ AbstractOrEmpty(disk') = AbstractOrEmpty(disk)
  BY <1>1
<1> QED BY <1>1, <1>2, <1>3, <1>4, Alone DEF Lifecycle!SkipSplit, Lifecycle!driver

LEMMA AddDeviceImplements == ASSUME BInv, DInv, BInv', DInv', AddDevice PROVE Lifecycle!AddDevice(c)
<1>1. /\ stage = "hooked" /\ stage' = "ready" /\ \A d \in Nodes : NodeExists(d)
      /\ mem' = [mem EXCEPT !.devs = mem.devs \cup Nodes, !.env = AddLDEnv(mem.env)]
      /\ UNCHANGED <<disk, owner, parent, reported, rounds, faults, ids>>
  BY DEF AddDevice
<1>2. /\ Shape(mem) /\ mem.env \in Seq(Lines)
      /\ AbstractOrEmpty(mem) = Abstract(mem) /\ AbstractOrEmpty(mem') = Abstract(mem')
  <2>1. stage' \in Working /\ stage \in Working
    BY <1>1 DEF Working, Splits
  <2>2. SpecOK(asked, mem, rounds)' /\ DevicesOK(mem)'
    BY <2>1 DEF BInv, Specs, DInv, InBundles
  <2>3. AbstractOrEmpty(mem') = Abstract(mem')
    BY <2>2, AbstractIs DEF DevicesOK
  <2> QED BY <2>1, <2>3, InMemory
<1>3. /\ mem'.env = AddLDEnv(mem.env) /\ mem'.devs = mem.devs \cup Nodes
      /\ mem'.post = mem.post /\ mem'.hooks = mem.hooks
  <2> DEFINE x == AddLDEnv(mem.env)
             y == mem.devs \cup Nodes
             filled == [mem EXCEPT !.devs = y]
  <2>1. mem' = [filled EXCEPT !.env = x]
    BY <1>1
  <2>2. Shape(filled) /\ filled.devs = y /\ filled.post = mem.post /\ filled.hooks = mem.hooks
    BY <1>2, DevsChanged, Zenon
  <2> HIDE DEF x, y, filled
  <2>3. /\ mem'.env = x /\ mem'.devs = filled.devs
        /\ mem'.post = filled.post /\ mem'.hooks = filled.hooks
    BY <2>1, <2>2, EnvChanged, Zenon
  <2> QED BY <2>2, <2>3 DEF x, y
<1>4. /\ GetValueByDeviceKey(mem'.env) = GetValueByDeviceKey(mem.env)
      /\ ExtractVpuParam(mem'.env) = ExtractVpuParam(mem.env)
      /\ Virtual(mem'.env) = Virtual(mem.env)
  <2>1. Edited(mem.env, mem'.env)
    BY <1>2, <1>3, EditedSelf, EditedAddLDEnv
  <2> QED BY <1>2, <1>3, <2>1, EditedVisible, AddedLookups
<1> DEFINE a == Abstract(mem)
           new == {[virt |-> a.virt, id |-> i] : i \in ToSet(ids)}
<1>5. a.virt = Virtual(mem.env) /\ a.devs = mem.devs /\ a.hooks = mem.hooks /\ a.post = mem.post
  BY DEF Abstract
<1>6. a = [vis |-> a.vis, valid |-> a.valid, split |-> a.split, virt |-> a.virt,
           hooks |-> a.hooks, devs |-> a.devs, post |-> a.post]
  BY DEF Abstract
<1>7. Abstract(mem') = [vis |-> a.vis, valid |-> a.valid, split |-> a.split, virt |-> a.virt,
                        hooks |-> a.hooks, devs |-> a.devs \cup Nodes, post |-> a.post]
  BY <1>3, <1>4, <1>5, AbstractChange
<1>8. Nodes = new
  BY <1>5, Zenon DEF Nodes
<1>9. \A i \in ToSet(ids) : Lifecycle!DeviceNode(a.virt, i)
  <2>1. ASSUME NEW i \in ToSet(ids) PROVE Lifecycle!DeviceNode(a.virt, i)
    <3> DEFINE d == [virt |-> a.virt, id |-> i]
    <3>1. d \in Nodes /\ d.virt = a.virt /\ d.id = i
      BY <1>8
    <3> HIDE DEF d, a
    <3> QED BY <1>1, <3>1 DEF NodeExists, Lifecycle!DeviceNode
  <2> QED BY <2>1
<1>10. AbstractOrEmpty(disk') = AbstractOrEmpty(disk)
  BY <1>1
<1>11. Abstract(mem') = [a EXCEPT !.devs = @ \cup new]
  <2> DEFINE devs == a.devs \cup new
  <2>1. Abstract(mem') = [vis |-> a.vis, valid |-> a.valid, split |-> a.split, virt |-> a.virt,
                          hooks |-> a.hooks, devs |-> devs, post |-> a.post]
    BY <1>7, <1>8
  <2> HIDE DEF a, new, devs
  <2>2. Abstract(mem') = [a EXCEPT !.devs = devs]
    BY <1>6, <2>1
  <2> QED BY <2>2 DEF devs
<1> DEFINE all == [x \in {c} |-> AbstractOrEmpty(mem)]
           lists == [x \in {c} |-> ToSet(ids)]
<1>12. all[c] = a /\ lists[c] = ToSet(ids)
  BY <1>2, Alone
<1>13. {[virt |-> all[c].virt, id |-> i] : i \in lists[c]} = new
  BY <1>12, Zenon
<1>14. [x \in {c} |-> AbstractOrEmpty(mem')]
         = [all EXCEPT ![c].devs = @ \cup {[virt |-> all[c].virt, id |-> i] : i \in lists[c]}]
  <2>1. [x \in {c} |-> AbstractOrEmpty(mem')] = [all EXCEPT ![c].devs = @ \cup new]
    <3> HIDE DEF new
    <3> QED BY <1>2, <1>11, Alone
  <2> HIDE DEF new
  <2> QED BY <2>1, <1>13
<1>15. \A i \in lists[c] : Lifecycle!DeviceNode(all[c].virt, i)
  <2> HIDE DEF a, lists, all
  <2> QED BY <1>9, <1>12
<1> QED BY <1>1, <1>10, <1>14, <1>15, Alone DEF Lifecycle!AddDevice, Lifecycle!driver

LEMMA WriteSpecImplements == ASSUME BInv, DInv, BInv', DInv', WriteSpec PROVE Lifecycle!WriteSpec(c)
<1>1. /\ stage = "ready" /\ stage' = "written"
      /\ disk' = [mem EXCEPT !.env = AddEnvToDevicePlugin(mem.env)]
      /\ UNCHANGED <<mem, owner, parent, reported, rounds, faults, ids>>
  BY DEF WriteSpec
<1>2. /\ Shape(mem) /\ mem.env \in Seq(Lines)
      /\ AbstractOrEmpty(mem) = Abstract(mem) /\ AbstractOrEmpty(disk') = Abstract(disk')
  <2>1. Written' /\ stage \in Working
    BY <1>1 DEF Working, Splits, Written
  <2>2. SpecOK(asked, disk, rounds)' /\ DevicesOK(disk)'
    BY <2>1 DEF BInv, Specs, DInv, InBundles
  <2>3. AbstractOrEmpty(disk') = Abstract(disk')
    BY <2>2, AbstractIs DEF DevicesOK
  <2> QED BY <2>1, <2>3, InMemory
<1>3. /\ disk'.env = AddEnvToDevicePlugin(mem.env) /\ disk'.devs = mem.devs
      /\ disk'.post = mem.post /\ disk'.hooks = mem.hooks
  BY <1>1, <1>2, EnvChanged, Zenon
<1>4. /\ GetValueByDeviceKey(disk'.env) = GetValueByDeviceKey(mem.env)
      /\ ExtractVpuParam(disk'.env) = ExtractVpuParam(mem.env)
      /\ Virtual(disk'.env) = Virtual(mem.env)
  <2>1. Edited(mem.env, disk'.env)
    BY <1>2, <1>3, EditedSelf, EditedAddEnv
  <2> QED BY <1>2, <1>3, <2>1, EditedVisible, AddedLookups
<1>5. Abstract(disk') = Abstract(mem)
  BY <1>3, <1>4, Zenon DEF Abstract
<1>6. AbstractOrEmpty(mem') = AbstractOrEmpty(mem)
  BY <1>1
<1> QED BY <1>1, <1>2, <1>5, <1>6, Alone DEF Lifecycle!WriteSpec, Lifecycle!driver

LEMMA ExecRuncImplements == ASSUME ExecRunc PROVE Lifecycle!ExecRunc(c)
<1>1. /\ stage = "written" /\ stage' = "runc" /\ mem' = Empty /\ ids' = <<>>
      /\ UNCHANGED <<disk, owner, parent, reported, rounds, faults>>
  BY DEF ExecRunc
<1>2. /\ AbstractOrEmpty(mem') = Empty /\ ToSet(ids') = {}
      /\ AbstractOrEmpty(disk') = AbstractOrEmpty(disk)
  BY <1>1 DEF AbstractOrEmpty, ToSet
<1> QED BY <1>1, <1>2, Alone DEF Lifecycle!ExecRunc, Lifecycle!driver

LEMMA AbortImplements == ASSUME Abort PROVE Lifecycle!Abort(c)
<1>1. /\ stage' = "failed" /\ mem' = Empty /\ ids' = <<>> /\ reported' = TRUE
      /\ UNCHANGED <<disk, owner, parent, rounds>>
  BY DEF Abort
<1>2. /\ AbstractOrEmpty(mem') = Empty /\ ToSet(ids') = {}
      /\ AbstractOrEmpty(disk') = AbstractOrEmpty(disk)
  BY <1>1 DEF AbstractOrEmpty, ToSet
<1> QED BY <1>1, <1>2, Alone DEF Lifecycle!Abort, Lifecycle!driver

LEMMA RejectImplements == ASSUME BInv, DInv, Reject PROVE Lifecycle!Reject(c)
<1>1. Rejected /\ Abort /\ faults' = faults
  BY DEF Reject
<1> DEFINE a == Abstract(mem)
<1>2. mem # Empty \/ stage \in Working => AbstractOrEmpty(mem) = a /\ a # Empty
  BY InMemory
<1>3. /\ a.valid = Parses(GetValueByDeviceKey(mem.env)) /\ a.split = ExtractVpuParam(mem.env)
      /\ a.virt = Virtual(mem.env)
  BY DEF Abstract
<1>4. mem = Empty => AbstractOrEmpty(mem) = Empty
  BY DEF AbstractOrEmpty
<1> HIDE DEF a
<1>5. Lifecycle!Rejected(c)
  <2>1. CASE stage = "loaded" /\ (IF mem = Empty THEN TRUE
                                  ELSE ~ Parses(GetValueByDeviceKey(mem.env)))
    BY <2>1, <1>2, <1>3, <1>4, Alone DEF Lifecycle!Rejected
  <2>2. CASE stage = "split" /\ ExtractVpuParam(mem.env) = "unknown"
    BY <2>2, <1>2, <1>3, Alone DEF Lifecycle!Rejected, Working, Splits
  <2>3. CASE /\ stage = "split" /\ ExtractVpuParam(mem.env) = "allowed"
             /\ (\A p \in PhysIds : ids # <<p>>) \/ (\A v \in VIds : owner[v] # Free)
    <3>1. ASSUME NEW p \in PhysIds, ToSet(ids) = {p} PROVE ids = <<p>>
      BY <2>3, <3>1, CountsAsOne DEF DInv, InSession
    <3>2. (\A p \in PhysIds : ToSet(ids) # {p}) \/ (\A v \in VIds : owner[v] # Free)
      BY <2>3, <3>1
    <3> QED BY <2>3, <3>2, <1>2, <1>3, Alone DEF Lifecycle!Rejected, Working, Splits
  <2>4. CASE stage = "hooked" /\ \E d \in Nodes : ~ NodeExists(d)
    <3>1. PICK i \in ToSet(ids) : ~ NodeExists([virt |-> a.virt, id |-> i])
      BY <2>4, <1>3 DEF Nodes
    <3>2. ~ Lifecycle!DeviceNode(a.virt, i)
      BY <3>1 DEF NodeExists, Lifecycle!DeviceNode
    <3> QED BY <2>4, <3>2, <1>2, Alone DEF Lifecycle!Rejected, Working, Splits
  <2> QED BY <1>1, <2>1, <2>2, <2>3, <2>4 DEF Rejected
<1> QED BY <1>1, <1>5, AbortImplements DEF Lifecycle!Reject

LEMMA DieImplements == ASSUME DInv, Die PROVE Lifecycle!Die(c)
<1>1. /\ stage \notin {"none"} \cup EndStages /\ faults < MaxFaults /\ faults' = faults + 1 /\ Abort
  BY DEF Die
<1>2. stage \in Lifecycle!RuntimeStages \cup {"runc"}
  BY <1>1 DEF DInv, Bounded, Splits, EndStages, Lifecycle!RuntimeStages
<1> QED BY <1>1, <1>2, AbortImplements, Alone DEF Lifecycle!Die

LEMMA SplitDeviceImplements ==
  ASSUME BInv, DInv, BInv', DInv', SplitDevice, Proper(asked)
  PROVE  Lifecycle!SplitDevice(c)
<1>1. PICK p \in PhysIds, v \in VIds :
        /\ stage = "split" /\ ExtractVpuParam(mem.env) = "allowed" /\ ids = <<p>>
        /\ owner[v] = Free /\ owner' = [owner EXCEPT ![v] = c]
        /\ parent' = [parent EXCEPT ![v] = ChipOf[p]]
        /\ mem' = [mem EXCEPT !.env = WithVirtual(@), !.post = @ \cup
                     {[card |-> ChipOf[p].card, dev |-> ChipOf[p].dev, vid |-> v]}]
        /\ ids' = <<v>> /\ stage' = "hooked" /\ UNCHANGED <<disk, reported, rounds, faults>>
  BY Zenon DEF SplitDevice
<1> DEFINE hook == {[card |-> ChipOf[p].card, dev |-> ChipOf[p].dev, vid |-> v]}
<1>2. /\ Shape(mem) /\ mem.env \in Seq(Lines) /\ asked \in Seq(Lines) /\ Edited(asked, mem.env)
      /\ AbstractOrEmpty(mem) = Abstract(mem) /\ AbstractOrEmpty(mem') = Abstract(mem')
  <2>1. stage' \in Working /\ stage \in Working
    BY <1>1 DEF Working, Splits
  <2>2. SpecOK(asked, mem, rounds)' /\ DevicesOK(mem)'
    BY <2>1 DEF BInv, Specs, DInv, InBundles
  <2>3. AbstractOrEmpty(mem') = Abstract(mem')
    BY <2>2, AbstractIs DEF DevicesOK
  <2>4. asked \in Seq(Lines)
    BY DEF BInv, Session
  <2> QED BY <2>1, <2>3, <2>4, InMemory DEF SpecOK
<1>3. /\ mem'.env = WithVirtual(mem.env) /\ mem'.devs = mem.devs /\ mem'.hooks = mem.hooks
      /\ mem'.post = mem.post \cup hook
  <2> DEFINE x == WithVirtual(mem.env)
             y == mem.post \cup hook
             edited == [mem EXCEPT !.env = x]
  <2>1. mem' = [edited EXCEPT !.post = y]
    BY <1>1
  <2>2. Shape(edited) /\ edited.env = x /\ edited.devs = mem.devs /\ edited.hooks = mem.hooks
    BY <1>2, EnvChanged, Zenon
  <2> HIDE DEF x, y, edited
  <2>3. /\ mem'.env = edited.env /\ mem'.devs = edited.devs
        /\ mem'.hooks = edited.hooks /\ mem'.post = y
    BY <2>1, <2>2, PostChanged, Zenon
  <2> QED BY <2>2, <2>3 DEF x, y
<1>4. /\ GetValueByDeviceKey(mem'.env) = GetValueByDeviceKey(mem.env)
      /\ ExtractVpuParam(mem'.env) = ExtractVpuParam(mem.env)
      /\ Virtual(mem'.env)
  <2>1. Edited(mem.env, mem'.env)
    BY <1>2, <1>3, EditedSelf, EditedWithVirtual
  <2> QED BY <1>2, <1>3, <2>1, EditedVisible, WithVirtualTemplate, WithVirtualFound
<1> DEFINE a == Abstract(mem)
<1>5. a = [vis |-> a.vis, valid |-> a.valid, split |-> a.split, virt |-> a.virt,
           hooks |-> a.hooks, devs |-> a.devs, post |-> a.post]
  BY DEF Abstract
<1>6. a.split = "allowed" /\ a.devs = mem.devs /\ a.hooks = mem.hooks /\ a.post = mem.post
  BY <1>1 DEF Abstract
<1>7. Virtual(mem'.env) = TRUE
  BY <1>4 DEF Virtual
<1>8. Abstract(mem') = [vis |-> a.vis, valid |-> a.valid, split |-> a.split, virt |-> TRUE,
                        hooks |-> a.hooks, devs |-> a.devs, post |-> a.post \cup hook]
  BY <1>3, <1>4, <1>6, <1>7, AbstractChange
<1>9. Abstract(mem') = Lifecycle!UpdateEnvAndPostHook(a, ChipOf[p], v)
  <2> DEFINE post == a.post \cup hook
  <2> HIDE DEF hook, a
  <2>1. [a EXCEPT !.virt = TRUE, !.post = a.post \cup hook]
          = [vis |-> a.vis, valid |-> a.valid, split |-> a.split, virt |-> TRUE,
             hooks |-> a.hooks, devs |-> a.devs, post |-> post]
    <3>1. ASSUME NEW t, NEW q
          PROVE  [a EXCEPT !.virt = t, !.post = q]
                   = [vis |-> a.vis, valid |-> a.valid, split |-> a.split, virt |-> t,
                      hooks |-> a.hooks, devs |-> a.devs, post |-> q]
      <4> DEFINE b == [a EXCEPT !.virt = t]
      <4>1. b = [vis |-> a.vis, valid |-> a.valid, split |-> a.split, virt |-> t,
                 hooks |-> a.hooks, devs |-> a.devs, post |-> a.post]
        BY <1>5
      <4> HIDE DEF b
      <4>2. [b EXCEPT !.post = q]
              = [vis |-> a.vis, valid |-> a.valid, split |-> a.split, virt |-> t,
                 hooks |-> a.hooks, devs |-> a.devs, post |-> q]
        BY <4>1
      <4> QED BY <4>2 DEF b
    <3> QED BY <3>1, Zenon DEF post
  <2>2. Lifecycle!UpdateEnvAndPostHook(a, ChipOf[p], v)
          = [a EXCEPT !.virt = TRUE, !.post = a.post \cup hook]
    BY DEF Lifecycle!UpdateEnvAndPostHook, hook
  <2> QED BY <1>8, <2>1, <2>2
<1>10. /\ ToSet(ids) = {p} /\ ToSet(ids') = {v} /\ v <= VdevMax
       /\ AbstractOrEmpty(disk') = AbstractOrEmpty(disk)
  <2>1. \A n : ToSet(<<n>>) = {n}
    BY DEF ToSet
  <2> QED BY <1>1, <2>1, BundleAssumption
<1> HIDE DEF a
<1>11. Lifecycle!CanSplit(c, p)
  BY <1>1, <1>2, <1>6, <1>10, Alone DEF Lifecycle!CanSplit, a
<1>12. Lifecycle!DriverCreates(c, p, v)
  BY <1>1 DEF Lifecycle!DriverCreates
<1>13. /\ [x \in {c} |-> AbstractOrEmpty(mem')]
            = [[x \in {c} |-> AbstractOrEmpty(mem)] EXCEPT ![c] =
                 Lifecycle!UpdateEnvAndPostHook([x \in {c} |-> AbstractOrEmpty(mem)][c], ChipOf[p], v)]
       /\ [x \in {c} |-> ToSet(ids')] = [[x \in {c} |-> ToSet(ids)] EXCEPT ![c] = {v}]
       /\ [x \in {c} |-> stage'] = [[x \in {c} |-> stage] EXCEPT ![c] = "hooked"]
  BY <1>1, <1>2, <1>9, <1>10, Alone DEF a
<1>14. UNCHANGED <<[x \in {c} |-> AbstractOrEmpty(disk)], [x \in {c} |-> reported],
                   [x \in {c} |-> rounds], faults>>
  BY <1>1, <1>10
<1> QED BY <1>10, <1>11, <1>12, <1>13, <1>14, Zenon DEF Lifecycle!SplitDevice

LEMMA InitImplements == Init => Lifecycle!Init
<1> SUFFICES ASSUME Init PROVE Lifecycle!Init
  OBVIOUS
<1>1. AbstractOrEmpty(disk) = Empty /\ AbstractOrEmpty(mem) = Empty /\ ToSet(ids) = {}
  BY DEF Init, AbstractOrEmpty, ToSet
<1> QED BY <1>1 DEF Init, Lifecycle!Init

\* With proper variables each step of the bundle is one of NpuLifecycle.
LEMMA StepImplements ==
  ASSUME BInv, DInv, BInv', DInv', Next, Proper(asked')
  PROVE  IF stage' = "bundle"
           THEN Lifecycle!NewBundle(c, Abstract(Fresh(asked'))) \/ Lifecycle!ReuseBundle(c)
           ELSE Lifecycle!RuntimeStep(c) \/ Lifecycle!Die(c)
<1> USE DEF Lifecycle!RuntimeStep
<1>1. ASSUME NEW env \in Envs, NewBundle(env)
      PROVE  stage' = "bundle" /\ Lifecycle!NewBundle(c, Abstract(Fresh(asked')))
  BY <1>1, NewBundleImplements DEF NewBundle, BeginSession
<1>2. ReuseBundle => stage' = "bundle" /\ Lifecycle!ReuseBundle(c)
  BY ReuseBundleImplements DEF ReuseBundle, BeginSession
<1>3. LoadSpec => stage' # "bundle" /\ Lifecycle!RuntimeStep(c)
  BY LoadSpecImplements DEF LoadSpec
<1>4. ParseSpec => stage' # "bundle" /\ Lifecycle!RuntimeStep(c)
  BY ParseSpecImplements DEF ParseSpec
<1>5. AddHook => stage' # "bundle" /\ Lifecycle!RuntimeStep(c)
  BY AddHookImplements DEF AddHook
<1>6. SkipSplit => stage' # "bundle" /\ Lifecycle!RuntimeStep(c)
  BY SkipSplitImplements DEF SkipSplit
<1>7. SplitDevice => stage' # "bundle" /\ Lifecycle!RuntimeStep(c)
  <2>1. SplitDevice => stage' = "hooked" /\ asked' = asked
    BY DEF SplitDevice
  <2>2. SplitDevice => Proper(asked)
    BY <2>1
  <2> QED BY <2>1, <2>2, SplitDeviceImplements
<1>8. AddDevice => stage' # "bundle" /\ Lifecycle!RuntimeStep(c)
  BY AddDeviceImplements DEF AddDevice
<1>9. Reject => stage' # "bundle" /\ Lifecycle!RuntimeStep(c)
  BY RejectImplements DEF Reject, Abort
<1>10. WriteSpec => stage' # "bundle" /\ Lifecycle!RuntimeStep(c)
  BY WriteSpecImplements DEF WriteSpec
<1>11. ExecRunc => stage' # "bundle" /\ Lifecycle!RuntimeStep(c)
  BY ExecRuncImplements DEF ExecRunc
<1>12. Die => stage' # "bundle" /\ Lifecycle!Die(c)
  BY DieImplements DEF Die, Abort
<1> QED BY <1>1, <1>2, <1>3, <1>4, <1>5, <1>6, <1>7, <1>8, <1>9, <1>10, <1>11, <1>12 DEF Next

\* The create command line by line implements the one of NpuLifecycle, for
\* every bundle whose variables are proper.
THEOREM BundleImplementsLifecycle == Spec => ImplementsLifecycle
<1>1. BInv /\ DInv /\ BInv' /\ DInv' /\ [Next]_vars =>
        [Proper(asked') =>
           IF stage' = "bundle"
             THEN Lifecycle!NewBundle(c, Abstract(Fresh(asked'))) \/ Lifecycle!ReuseBundle(c)
             ELSE Lifecycle!RuntimeStep(c) \/ Lifecycle!Die(c)]_vars
  BY StepImplements
<1> QED BY <1>1, InitImplements, BundleInvariance, DevicesInvariance, PTL
        DEF Spec, ImplementsLifecycle
=============================================================================
