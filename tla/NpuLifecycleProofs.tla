------------------------- MODULE NpuLifecycleProofs -------------------------
(***************************************************************************)
(* Proofs about NpuLifecycle for every set of containers, devices and      *)
(* requests.  The invariant IInv says of each container what its session   *)
(* knows of its vNPU, and is inductive in two parts.  A step of c touches  *)
(* nothing that SessionInv(d) speaks of for another container d: only a    *)
(* split and a destroy change a vNPU, a split takes a free one and a       *)
(* destroy one that a poststop hook of c names, which IInv says is c's own *)
(* (StoppedOwn, DriverStep, OtherStep).  And a step of c takes SessionInv  *)
(* of c to the next stage (OwnStep).  The step that needs thought is       *)
(* AddDevice in a bundle used twice: the file still holds the poststop     *)
(* hook of the first session, and the only thing that keeps it from being  *)
(* run is that a physical id has no /dev/vdavinci node (IdsAssumption).    *)
(***************************************************************************)
EXTENDS NpuLifecycle, TLAPS

(* The initial states satisfy the inductive invariant: no session has begun *)
(* and no vNPU belongs to a container. *)
THEOREM InitIInv == Init => IInv
<1> SUFFICES ASSUME Init PROVE IInv
  OBVIOUS
<1>1. TypeOK
  BY ConstantsAssumption DEF Init, TypeOK, Stages, RuntimeStages, LiveStages, EndStages, Owners
<1>2. ASSUME NEW c \in Containers PROVE SessionInv(c)
  BY ConstantsAssumption DEF Init, SessionInv, MemInv, EarlyInv, HookedInv, ReadyInv, DiskInv, EndInv, NoVNpu,
     Started, LiveStages, EndStages
<1> QED BY <1>1, <1>2 DEF IInv

(* What another container's invariant depends on: its own fields and the    *)
(* vNPUs it owns.  A step that leaves these alone keeps SessionInv.         *)
LEMMA Frame ==
  ASSUME TypeOK, NEW d \in Containers, SessionInv(d),
         stage'[d] = stage[d], disk'[d] = disk[d], mem'[d] = mem[d],
         ids'[d] = ids[d], reported'[d] = reported[d],
         \A v \in VIds : owner'[v] = d <=> owner[v] = d,
         \A v \in VIds : owner[v] = d => parent'[v] = parent[v]
  PROVE  SessionInv(d)'
<1>1. /\ mem[d] # Empty => mem[d] \in OciSpec
      /\ disk[d] # Empty => disk[d] \in OciSpec
  BY DEF TypeOK
<1>2. ASSUME NEW h \in DestroyHook, OwnHook(d, h) PROVE OwnHook(d, h)'
  BY <1>2 DEF OwnHook, DestroyHook
<1>3. MemInv(d)'
  BY DEF SessionInv, MemInv
<1>4. EarlyInv(d)'
  BY DEF SessionInv, EarlyInv, NoVNpu
<1>5. HookedInv(d)'
  <2> SUFFICES ASSUME stage[d] = "hooked" PROVE HookedInv(d)'
    BY DEF HookedInv
  <2>1. mem[d] \in OciSpec
    BY <1>1 DEF SessionInv, MemInv
  <2>2. NoVNpu(d) => NoVNpu(d)'
    BY DEF NoVNpu
  <2>3. JustSplit(d) => JustSplit(d)'
    BY <1>2, <2>1 DEF JustSplit, OciSpec
  <2> QED BY <2>2, <2>3 DEF SessionInv, HookedInv
<1>6. ASSUME NEW hooks \in SUBSET DestroyHook, NEW devs, Settled(d, hooks, devs)
      PROVE  /\ \A h \in hooks : OwnHook(d, h)'
             /\ \A v \in VIds : owner'[v] = d =>
                  /\ devs = {[virt |-> TRUE, id |-> v]}
                  /\ ~ reported'[d] => \E h \in hooks : h.vid = v
  BY <1>2, <1>6 DEF Settled
<1>7. ReadyInv(d)'
  <2> SUFFICES ASSUME stage[d] \in {"ready", "written"} PROVE ReadyInv(d)'
    BY DEF ReadyInv
  <2>1. mem[d] \in OciSpec
    BY <1>1 DEF SessionInv, MemInv
  <2>2. mem[d].post \in SUBSET DestroyHook
    BY <2>1 DEF OciSpec
  <2>3. HookOk(mem[d]) /\ Settled(d, mem[d].post, mem[d].devs)
    BY DEF SessionInv, ReadyInv
  <2> QED BY <1>6, <2>2, <2>3 DEF ReadyInv, Settled, HookOk, OwnHook
<1>8. DiskInv(d)'
  <2>1. disk'[d] # Empty => SpecInv(disk'[d])
    BY DEF SessionInv, DiskInv
  <2> SUFFICES ASSUME Started(d) PROVE DiskInv(d)'
    BY <2>1 DEF DiskInv, Started
  <2>2. disk[d] # Empty /\ HookOk(disk[d]) /\ Settled(d, PendingHooks(d), disk[d].devs)
    BY DEF SessionInv, DiskInv
  <2>3. PendingHooks(d) \in SUBSET DestroyHook
    BY <1>1, <2>2 DEF SessionInv, MemInv, PendingHooks, OciSpec
  <2>4. PendingHooks(d)' = PendingHooks(d)
    BY DEF PendingHooks
  <2>5. Settled(d, PendingHooks(d), disk[d].devs)'
    BY <1>6, <2>2, <2>3 DEF Settled, OwnHook, PendingHooks
  <2> QED BY <2>1, <2>2, <2>5 DEF DiskInv, HookOk, Started
<1>9. EndInv(d)'
  BY DEF SessionInv, EndInv
<1> QED BY <1>3, <1>4, <1>5, <1>7, <1>8, <1>9 DEF SessionInv

(* A container at "stopped" holds hooks that name its own vNPUs. *)
LEMMA StoppedOwn ==
  ASSUME IInv, NEW c \in Containers, stage[c] = "stopped"
  PROVE  /\ mem[c] \in OciSpec
         /\ mem[c].post \subseteq DestroyHook
         /\ \A h \in mem[c].post : h.vid \in VIds /\ OwnHook(c, h)
<1>1. mem[c] \in OciSpec
  BY DEF IInv, TypeOK, SessionInv, MemInv, LiveStages
<1>2. mem[c].post \subseteq DestroyHook
  BY <1>1 DEF OciSpec
<1>3. Settled(c, mem[c].post, disk[c].devs)
  BY DEF IInv, SessionInv, DiskInv, Started, PendingHooks, LiveStages
<1> QED BY <1>1, <1>2, <1>3 DEF Settled, DestroyHook

(* What updateEnvAndPostHook does to a spec.                                *)
LEMMA UpdateEnvFields ==
  ASSUME NEW s \in OciSpec, NEW chip \in Chip, NEW v \in VIds
  PROVE  LET h == [card |-> chip.card, dev |-> chip.dev, vid |-> v]
             t == UpdateEnvAndPostHook(s, chip, v)
         IN  /\ t \in OciSpec
             /\ h \in DestroyHook
             /\ t.virt = TRUE
             /\ t.post = s.post \cup {h}
             /\ t.devs = s.devs /\ t.vis = s.vis /\ t.hooks = s.hooks
<1> DEFINE h == [card |-> chip.card, dev |-> chip.dev, vid |-> v]
           q == s.post \cup {h}
           t == UpdateEnvAndPostHook(s, chip, v)
<1>1. h \in DestroyHook
  BY DEF Chip, DestroyHook
<1>2. q \in SUBSET DestroyHook
  BY <1>1 DEF OciSpec
<1>3. t = [s EXCEPT !.virt = TRUE, !.post = q]
  BY DEF UpdateEnvAndPostHook
<1> HIDE DEF h, q, t
<1>4. t \in OciSpec /\ t.virt = TRUE /\ t.post = q
  BY <1>2, <1>3 DEF OciSpec
<1>5. t.devs = s.devs /\ t.vis = s.vis /\ t.hooks = s.hooks
  BY <1>3 DEF OciSpec
<1> QED BY <1>1, <1>4, <1>5 DEF h, q, t

(* Every step keeps every variable in its type.  It needs IInv, which says  *)
(* at which stages the process holds a spec.                                *)
LEMMA TypeStep == ASSUME IInv, NEW c \in Containers, Step(c) PROVE TypeOK'
<1> USE DEF TypeOK
<1>t. TypeOK
  BY DEF IInv
<1>m. stage[c] \in {"parsed", "split", "hooked", "ready", "written"} \cup LiveStages
        => mem[c] \in OciSpec
  BY DEF IInv, SessionInv, MemInv
<1>b. BeginSession(c) => /\ stage' \in [Containers -> Stages]
                         /\ mem' \in [Containers -> OciSpec \cup {Empty}]
                         /\ ids' \in [Containers -> SUBSET Ids]
                         /\ owner' \in [VIds -> Owners]
                         /\ parent' = parent
                         /\ reported' \in [Containers -> BOOLEAN]
                         /\ rounds' \in [Containers -> Nat]
                         /\ faults' = faults
  BY <1>t DEF BeginSession, Stages, RuntimeStages, Owners
<1>1. ASSUME NEW r \in Requests, NewBundle(c, r) PROVE TypeOK'
  BY <1>t, <1>b, <1>1, RequestsAssumption DEF NewBundle
<1>2. CASE ReuseBundle(c)
  BY <1>t, <1>b, <1>2 DEF ReuseBundle
<1>3. CASE LoadSpec(c)
  BY <1>t, <1>3 DEF LoadSpec, driver, Stages, RuntimeStages
<1>4. CASE ParseSpec(c)
  <2>1. mem[c] \in OciSpec
    BY <1>t, <1>4 DEF ParseSpec
  <2>2. mem[c].vis \in SUBSET Ids
    BY <2>1 DEF OciSpec
  <2> QED BY <1>t, <1>4, <2>2 DEF ParseSpec, driver, Stages, RuntimeStages
<1>5. CASE AddHook(c)
  <2>1. mem[c] \in OciSpec
    BY <1>m, <1>5 DEF AddHook
  <2>2. AddPrestart(mem[c]) \in OciSpec
    BY <2>1 DEF AddPrestart, OciSpec
  <2> QED BY <1>t, <1>5, <2>2 DEF AddHook, driver, Stages, RuntimeStages
<1>6. CASE SkipSplit(c)
  BY <1>t, <1>6 DEF SkipSplit, driver, Stages, RuntimeStages
<1>7. CASE SplitDevice(c)
  <2> PICK p \in PhysIds, v \in VIds :
         /\ CanSplit(c, p)
         /\ DriverCreates(c, p, v)
         /\ mem' = [mem EXCEPT ![c] = UpdateEnvAndPostHook(mem[c], ChipOf[p], v)]
         /\ ids' = [ids EXCEPT ![c] = {v}]
         /\ stage' = [stage EXCEPT ![c] = "hooked"]
         /\ UNCHANGED <<disk, reported, rounds, faults>>
    BY <1>7 DEF SplitDevice
  <2>1. mem[c] \in OciSpec
    BY <1>m DEF CanSplit
  <2>2. ChipOf[p] \in Chip
    BY ConstantsAssumption
  <2>4. UpdateEnvAndPostHook(mem[c], ChipOf[p], v) \in OciSpec
    BY <2>1, <2>2, UpdateEnvFields
  <2>5. owner' \in [VIds -> Owners] /\ parent' \in [VIds -> Chip \cup {NoChip}]
    BY <1>t, <2>2 DEF DriverCreates, Owners
  <2>6. {v} \in SUBSET Ids
    BY DEF Ids
  <2> QED BY <1>t, <2>4, <2>5, <2>6 DEF Stages, RuntimeStages
<1>8. CASE SplitTooLarge(c)
  <2> PICK p \in PhysIds, v \in VIds :
         /\ DriverCreates(c, p, v)
         /\ stage' = [stage EXCEPT ![c] = "failed"]
         /\ mem' = [mem EXCEPT ![c] = Empty]
         /\ ids' = [ids EXCEPT ![c] = {}]
         /\ reported' = [reported EXCEPT ![c] = TRUE]
         /\ UNCHANGED <<disk, rounds, faults>>
    BY <1>8 DEF SplitTooLarge
  <2>1. owner' \in [VIds -> Owners] /\ parent' \in [VIds -> Chip \cup {NoChip}]
    BY <1>t, ConstantsAssumption DEF DriverCreates, Owners
  <2> QED BY <1>t, <2>1 DEF Stages, EndStages
<1>9. CASE AddDevice(c)
  <2>1. mem[c] \in OciSpec
    BY <1>m, <1>9 DEF AddDevice
  <2> DEFINE new == mem[c].devs \cup {[virt |-> mem[c].virt, id |-> i] : i \in ids[c]}
  <2>2. new \in SUBSET [virt : BOOLEAN, id : Ids]
    BY <1>t, <2>1 DEF OciSpec
  <2>3. [mem[c] EXCEPT !.devs = new] \in OciSpec
    BY <2>1, <2>2 DEF OciSpec
  <2>4. mem' \in [Containers -> OciSpec \cup {Empty}]
    BY <1>t, <1>9, <2>3 DEF AddDevice
  <2> QED BY <1>t, <1>9, <2>4 DEF AddDevice, driver, Stages, RuntimeStages
<1>a. Abort(c) => /\ stage' \in [Containers -> Stages]
                  /\ mem' \in [Containers -> OciSpec \cup {Empty}]
                  /\ ids' \in [Containers -> SUBSET Ids]
                  /\ reported' \in [Containers -> BOOLEAN]
                  /\ UNCHANGED <<disk, owner, parent, rounds>>
  BY <1>t DEF Abort, driver, Stages, EndStages
<1>10. CASE Reject(c)
  BY <1>t, <1>a, <1>10 DEF Reject
<1>11. CASE WriteSpec(c)
  BY <1>t, <1>11 DEF WriteSpec, driver, Stages, RuntimeStages
<1>12. CASE ExecRunc(c)
  BY <1>t, <1>12 DEF ExecRunc, driver, Stages
<1>13. CASE Die(c)
  BY <1>t, <1>a, <1>13 DEF Die
<1>14. CASE CreateContainer(c)
  BY <1>t, <1>14 DEF CreateContainer, driver, Stages, LiveStages
<1>15. CASE Prestart(c)
  BY <1>t, <1>15 DEF Prestart, driver, Stages, LiveStages
<1>16. CASE PrestartFails(c)
  BY <1>t, <1>16 DEF PrestartFails, driver, Stages, LiveStages
<1>17. CASE Stop(c)
  BY <1>t, <1>17 DEF Stop, driver, Stages, LiveStages
<1>18. ASSUME NEW h, stage[c] = "stopped", h \in mem[c].post,
              mem' = [mem EXCEPT ![c].post = @ \ {h}]
       PROVE  mem' \in [Containers -> OciSpec \cup {Empty}]
  <2>1. mem[c] \in OciSpec
    BY <1>18, StoppedOwn
  <2>2. [mem[c] EXCEPT !.post = @ \ {h}] \in OciSpec
    BY <2>1 DEF OciSpec
  <2> QED BY <1>t, <1>18, <2>2
<1>19. CASE DestroyVNpu(c)
  <2>1. \A h \in mem[c].post : h.vid \in VIds
    BY <1>19, StoppedOwn DEF DestroyVNpu
  <2> QED BY <1>t, <1>18, <1>19, <2>1 DEF DestroyVNpu, Owners
<1>20. CASE DestroyRefused(c)
  BY <1>t, <1>18, <1>20 DEF DestroyRefused, DestroyFails, driver
<1>21. CASE DestroyDies(c)
  <2>1. /\ mem' \in [Containers -> OciSpec \cup {Empty}]
        /\ reported' \in [Containers -> BOOLEAN]
        /\ UNCHANGED <<stage, disk, ids, driver, rounds>>
    BY <1>t, <1>18, <1>21 DEF DestroyDies, DestroyFails
  <2>2. faults' \in Nat
    BY <1>t, <1>21 DEF DestroyDies
  <2> QED BY <1>t, <2>1, <2>2 DEF driver
<1>22. CASE Delete(c)
  BY <1>t, <1>22 DEF Delete, driver, Stages, EndStages
<1> QED
  BY <1>1, <1>2, <1>3, <1>4, <1>5, <1>6, <1>7, <1>8, <1>9, <1>10, <1>11, <1>12, <1>13,
     <1>14, <1>15, <1>16, <1>17, <1>19, <1>20, <1>21, <1>22
  DEF Step, RuntimeStep, RuncStep, Fault

(* What a step of container c does to the vNPUs: a vNPU that is another     *)
(* container's stays that container's, on its chip, and c takes only free   *)
(* ones.                                                                    *)
LEMMA DriverStep ==
  ASSUME IInv, NEW c \in Containers, Step(c), NEW d \in Containers, d # c, NEW v \in VIds
  PROVE  /\ owner'[v] = d <=> owner[v] = d
         /\ owner[v] = d => parent'[v] = parent[v]
<1>t. TypeOK
  BY DEF IInv
<1>1. CASE BeginSession(c)
  BY <1>1, ConstantsAssumption DEF BeginSession
<1>2. ASSUME NEW p \in PhysIds, NEW w \in VIds, DriverCreates(c, p, w)
      PROVE  /\ owner'[v] = d <=> owner[v] = d
             /\ owner[v] = d => parent'[v] = parent[v]
  BY <1>t, <1>2, ConstantsAssumption DEF DriverCreates, TypeOK
<1>3. CASE DestroyVNpu(c)
  <2> PICK h \in mem[c].post : /\ owner' = [owner EXCEPT ![h.vid] = Free]
                               /\ parent' = [parent EXCEPT ![h.vid] = NoChip]
    BY <1>3 DEF DestroyVNpu
  <2>1. h.vid \in VIds /\ owner[h.vid] = c
    BY <1>3, StoppedOwn DEF DestroyVNpu, OwnHook
  <2> QED BY <1>t, <2>1, ConstantsAssumption DEF TypeOK
<1>4. CASE UNCHANGED <<owner, parent>>
  BY <1>4
<1>5. CASE SplitDevice(c) \/ SplitTooLarge(c)
  BY <1>2, <1>5 DEF SplitDevice, SplitTooLarge
<1>6. CASE \E request \in Requests : NewBundle(c, request)
  BY <1>1, <1>6 DEF NewBundle
<1>7. CASE ReuseBundle(c)
  BY <1>1, <1>7 DEF ReuseBundle
<1>8. \/ LoadSpec(c) \/ ParseSpec(c) \/ AddHook(c) \/ SkipSplit(c) \/ AddDevice(c)
      \/ WriteSpec(c) \/ ExecRunc(c) \/ CreateContainer(c) \/ Prestart(c) \/ PrestartFails(c)
      \/ Stop(c) \/ Delete(c)
      => UNCHANGED <<owner, parent>>
  BY DEF LoadSpec, ParseSpec, AddHook, SkipSplit, AddDevice, WriteSpec, ExecRunc,
         CreateContainer, Prestart, PrestartFails, Stop, Delete, driver
<1>9. Reject(c) \/ Die(c) \/ DestroyRefused(c) \/ DestroyDies(c) => UNCHANGED <<owner, parent>>
  BY DEF Reject, Die, Abort, DestroyRefused, DestroyDies, DestroyFails, driver
<1> QED
  BY <1>3, <1>4, <1>5, <1>6, <1>7, <1>8, <1>9 DEF Step, RuntimeStep, RuncStep, Fault

(* A step of container c leaves everything else of another container alone. *)
LEMMA OtherStep ==
  ASSUME IInv, NEW c \in Containers, Step(c), NEW d \in Containers, d # c
  PROVE  SessionInv(d)'
<1>t. TypeOK /\ SessionInv(d)
  BY DEF IInv
<1> DEFINE Same == /\ stage'[d] = stage[d] /\ disk'[d] = disk[d] /\ mem'[d] = mem[d]
                   /\ ids'[d] = ids[d] /\ reported'[d] = reported[d]
<1>1. BeginSession(c) => /\ stage'[d] = stage[d] /\ mem'[d] = mem[d]
                         /\ ids'[d] = ids[d] /\ reported'[d] = reported[d]
  BY <1>t DEF BeginSession, TypeOK
<1>2. (\E request \in Requests : NewBundle(c, request)) \/ ReuseBundle(c) => Same
  BY <1>t, <1>1 DEF NewBundle, ReuseBundle, TypeOK
<1>3. LoadSpec(c) \/ ParseSpec(c) \/ AddHook(c) \/ SkipSplit(c) => Same
  BY <1>t DEF LoadSpec, ParseSpec, AddHook, SkipSplit, TypeOK
<1>4. SplitDevice(c) \/ SplitTooLarge(c) => Same
  BY <1>t DEF SplitDevice, SplitTooLarge, TypeOK
<1>5. AddDevice(c) \/ WriteSpec(c) \/ ExecRunc(c) \/ CreateContainer(c) => Same
  BY <1>t DEF AddDevice, WriteSpec, ExecRunc, CreateContainer, TypeOK
<1>6. Reject(c) \/ Die(c) => Same
  BY <1>t DEF Reject, Die, Abort, TypeOK
<1>7. Prestart(c) \/ PrestartFails(c) \/ Stop(c) \/ Delete(c) => Same
  BY <1>t DEF Prestart, PrestartFails, Stop, Delete, TypeOK
<1>8. DestroyVNpu(c) \/ DestroyRefused(c) \/ DestroyDies(c) => Same
  BY <1>t DEF DestroyVNpu, DestroyRefused, DestroyDies, DestroyFails, TypeOK
<1>9. Same
  BY <1>2, <1>3, <1>4, <1>5, <1>6, <1>7, <1>8 DEF Step, RuntimeStep, RuncStep, Fault
<1>10. \A v \in VIds : /\ owner'[v] = d <=> owner[v] = d
                       /\ owner[v] = d => parent'[v] = parent[v]
  BY DriverStep
<1> QED BY <1>t, <1>9, <1>10, Frame

(* A step of container c keeps what c's own session relies on.              *)
LEMMA OwnStep == ASSUME IInv, NEW c \in Containers, Step(c) PROVE SessionInv(c)'
<1>t. /\ TypeOK
      /\ MemInv(c) /\ EarlyInv(c) /\ HookedInv(c) /\ ReadyInv(c) /\ DiskInv(c) /\ EndInv(c)
  BY DEF IInv, SessionInv
<1>b. ASSUME BeginSession(c) PROVE /\ MemInv(c)' /\ EarlyInv(c)' /\ HookedInv(c)'
                                   /\ ReadyInv(c)' /\ EndInv(c)' /\ ~ Started(c)'
  BY <1>t, <1>b, ConstantsAssumption
  DEF TypeOK, BeginSession, MemInv, EarlyInv, HookedInv, ReadyInv, EndInv, Started,
      LiveStages, EndStages, NoVNpu
<1>1. ASSUME NEW r \in Requests, NewBundle(c, r) PROVE SessionInv(c)'
  <2>1. disk'[c] = r
    BY <1>t, <1>1 DEF NewBundle, TypeOK
  <2>2. SpecInv(r)
    BY RequestsAssumption DEF SpecInv
  <2> QED BY <1>b, <1>1, <2>1, <2>2 DEF NewBundle, DiskInv, SessionInv
<1>2. CASE ReuseBundle(c)
  BY <1>t, <1>b, <1>2 DEF ReuseBundle, DiskInv, SessionInv
<1>3. CASE LoadSpec(c)
  BY <1>t, <1>3
  DEF LoadSpec, driver, TypeOK, SessionInv, MemInv, EarlyInv, HookedInv, ReadyInv, DiskInv,
      EndInv, Started, LiveStages, EndStages, NoVNpu
<1>4. CASE ParseSpec(c)
  <2>1. /\ mem[c] \in OciSpec /\ SpecInv(mem[c]) /\ mem'[c] = mem[c] /\ disk'[c] = disk[c]
        /\ ids'[c] = mem[c].vis /\ NoVNpu(c) /\ owner' = owner
        /\ stage'[c] = IF mem[c].vis = {} THEN "ready" ELSE "parsed"
    BY <1>t, <1>4 DEF ParseSpec, driver, TypeOK, MemInv, EarlyInv
  <2>2. mem[c].vis = {} => mem[c].post = {} /\ mem[c].hooks = 0
    BY <2>1 DEF SpecInv
  <2>3. MemInv(c)' /\ EarlyInv(c)' /\ HookedInv(c)' /\ EndInv(c)'
    BY <2>1, ConstantsAssumption
    DEF MemInv, EarlyInv, HookedInv, EndInv, NoVNpu, LiveStages, EndStages
  <2>4. ReadyInv(c)'
    BY <2>1, <2>2 DEF ReadyInv, HookOk, Settled, NoVNpu
  <2>5. DiskInv(c)'
    BY <1>t, <2>1 DEF DiskInv, Started, LiveStages
  <2> QED BY <2>3, <2>4, <2>5 DEF SessionInv
<1>5. CASE AddHook(c)
  <2>1. /\ mem[c] \in OciSpec /\ SpecInv(mem[c]) /\ disk'[c] = disk[c] /\ ids' = ids
        /\ mem'[c] = AddPrestart(mem[c])
        /\ ids[c] = mem[c].vis /\ mem[c].vis # {} /\ NoVNpu(c) /\ owner' = owner
        /\ stage'[c] = IF mem[c].virt THEN "hooked" ELSE "split"
    BY <1>t, <1>5 DEF AddHook, driver, TypeOK, MemInv, EarlyInv
  <2>2. /\ mem'[c] \in OciSpec /\ mem'[c].hooks = 1
        /\ mem'[c].vis = mem[c].vis /\ mem'[c].virt = mem[c].virt
        /\ mem'[c].post = mem[c].post /\ mem'[c].devs = mem[c].devs
        /\ mem'[c].split = mem[c].split
    BY <2>1 DEF AddPrestart, SpecInv, OciSpec
  <2>3. SpecInv(mem'[c]) /\ mem'[c] # Empty
    BY <2>1, <2>2, ConstantsAssumption DEF SpecInv
  <2>4. MemInv(c)' /\ EarlyInv(c)' /\ HookedInv(c)' /\ ReadyInv(c)' /\ EndInv(c)'
    BY <2>1, <2>2, <2>3
    DEF MemInv, EarlyInv, HookedInv, ReadyInv, EndInv, NoVNpu, LiveStages, EndStages
  <2>5. DiskInv(c)'
    BY <1>t, <2>1 DEF DiskInv, Started, LiveStages
  <2> QED BY <2>4, <2>5 DEF SessionInv
<1>6. CASE SkipSplit(c)
  BY <1>t, <1>6
  DEF SkipSplit, driver, TypeOK, SessionInv, MemInv, EarlyInv, HookedInv, ReadyInv, DiskInv,
      EndInv, Started, LiveStages, EndStages, NoVNpu
<1>7. CASE SplitDevice(c)
  <2> PICK p \in PhysIds, v \in VIds :
         /\ CanSplit(c, p)
         /\ DriverCreates(c, p, v)
         /\ mem' = [mem EXCEPT ![c] = UpdateEnvAndPostHook(mem[c], ChipOf[p], v)]
         /\ ids' = [ids EXCEPT ![c] = {v}]
         /\ stage' = [stage EXCEPT ![c] = "hooked"]
         /\ UNCHANGED <<disk, reported, rounds, faults>>
    BY <1>7 DEF SplitDevice
  <2> DEFINE h == [card |-> ChipOf[p].card, dev |-> ChipOf[p].dev, vid |-> v]
  <2>1. /\ mem[c] \in OciSpec /\ SpecInv(mem[c]) /\ NoVNpu(c)
        /\ mem[c].vis = {p} /\ mem[c].hooks = 1 /\ ~ mem[c].virt /\ mem[c].split = "allowed"
    BY <1>t DEF CanSplit, TypeOK, MemInv, EarlyInv
  <2>2. mem[c].post = {} /\ mem[c].devs = {}
    BY <2>1 DEF SpecInv
  <2>3. ChipOf[p] \in Chip
    BY ConstantsAssumption
  <2>5. mem'[c] = UpdateEnvAndPostHook(mem[c], ChipOf[p], v)
    BY <1>t DEF TypeOK
  <2>6. /\ mem'[c] \in OciSpec /\ mem'[c].virt /\ mem'[c].post = {h} /\ mem'[c].devs = {}
        /\ mem'[c].vis = {p} /\ mem'[c].hooks = 1
    <3> DEFINE t == UpdateEnvAndPostHook(mem[c], ChipOf[p], v)
    <3>1. mem[c] \in OciSpec
      BY <2>1
    <3>3. t \in OciSpec /\ t.virt = TRUE /\ t.hooks = mem[c].hooks
      BY <2>3, <3>1, UpdateEnvFields
    <3>4. t.post = mem[c].post \cup {h}
      BY <2>3, <3>1, UpdateEnvFields
    <3>5. t.devs = mem[c].devs
      BY <2>3, <3>1, UpdateEnvFields
    <3>6. t.vis = mem[c].vis
      BY <2>3, <3>1, UpdateEnvFields
    <3>2. mem'[c] = t
      BY <2>5
    <3> HIDE DEF h, t
    <3> QED BY <2>1, <2>2, <3>2, <3>3, <3>4, <3>5, <3>6
  <2>7. SpecInv(mem'[c]) /\ mem'[c] # Empty
    <3>1. /\ mem'[c].virt /\ mem'[c].vis = {p} /\ mem'[c].hooks = 1 /\ mem'[c] # Empty
      BY <2>6, ConstantsAssumption
    <3>2. mem'[c].vis # {} /\ mem'[c].hooks \in {0, 1}
      BY <3>1
    <3> QED BY <3>1, <3>2, Zenon DEF SpecInv
  <2>8. /\ stage'[c] = "hooked" /\ ids'[c] = {v} /\ disk'[c] = disk[c]
        /\ owner'[v] = c /\ parent'[v] = ChipOf[p]
        /\ \A w \in VIds : owner'[w] = c => w = v
    BY <1>t, <2>1 DEF TypeOK, DriverCreates, NoVNpu
  <2>9. h.vid = v /\ parent'[v] = [card |-> h.card, dev |-> h.dev]
    BY <2>3, <2>8 DEF Chip
  <2> HIDE DEF h
  <2>10. JustSplit(c)'
    BY <2>6, <2>8, <2>9 DEF JustSplit, OwnHook
  <2>11. MemInv(c)' /\ EarlyInv(c)' /\ HookedInv(c)' /\ ReadyInv(c)' /\ EndInv(c)'
    BY <2>6, <2>7, <2>8, <2>10
    DEF MemInv, EarlyInv, HookedInv, ReadyInv, EndInv, EndStages
  <2>12. DiskInv(c)'
    BY <1>t, <2>8 DEF DiskInv, Started, LiveStages
  <2> QED BY <2>11, <2>12 DEF SessionInv
<1>8. CASE SplitTooLarge(c)
  <2>1. /\ stage'[c] = "failed" /\ mem'[c] = Empty /\ disk'[c] = disk[c] /\ reported'[c] = TRUE
    BY <1>t, <1>8 DEF SplitTooLarge, TypeOK
  <2> QED BY <1>t, <2>1
  DEF SessionInv, MemInv, EarlyInv, HookedInv, ReadyInv, DiskInv, EndInv, Started, LiveStages
<1>9. CASE AddDevice(c)
  <2> DEFINE new == {[virt |-> mem[c].virt, id |-> i] : i \in ids[c]}
  <2>1. /\ mem[c] \in OciSpec /\ SpecInv(mem[c]) /\ HookedInv(c) /\ stage[c] = "hooked"
        /\ mem[c].vis # {} /\ mem[c].hooks = 1
    BY <1>t, <1>9 DEF AddDevice, TypeOK, MemInv, EarlyInv
  <2>2. /\ mem'[c] = [mem[c] EXCEPT !.devs = mem[c].devs \cup new]
        /\ stage'[c] = "ready" /\ owner' = owner /\ parent' = parent
        /\ disk'[c] = disk[c] /\ reported' = reported
    BY <1>t, <1>9 DEF AddDevice, driver, TypeOK
  <2>3. /\ mem'[c] \in [vis : SUBSET Ids, valid : BOOLEAN, split : {"none", "allowed", "unknown"},
                        virt : BOOLEAN, hooks : Nat, devs : {mem[c].devs \cup new}, post : SUBSET DestroyHook]
        /\ mem'[c].vis = mem[c].vis /\ mem'[c].hooks = 1 /\ mem'[c].virt = mem[c].virt
        /\ mem'[c].split = mem[c].split /\ mem'[c].post = mem[c].post
        /\ mem'[c].devs = mem[c].devs \cup new
    BY <2>1, <2>2 DEF OciSpec
  <2>4. mem'[c] # Empty
    <3>1. TypeOK'
      BY TypeStep
    <3>2. new \in SUBSET [virt : BOOLEAN, id : Ids]
      BY <1>t, <2>1 DEF TypeOK, OciSpec
    <3>3. mem'[c] \in OciSpec
      BY <2>1, <2>2, <3>2 DEF OciSpec
    <3> QED BY <3>3, ConstantsAssumption
  <2>5. SpecInv(mem'[c]) /\ HookOk(mem'[c])
    BY <2>1, <2>3 DEF SpecInv, HookedInv, JustSplit, HookOk
  <2>6. Settled(c, mem[c].post, mem[c].devs \cup new)
    <3>1. CASE ids[c] = mem[c].vis /\ NoVNpu(c)
      <4>1. ASSUME mem[c].post # {} PROVE FALSE
        <5>1. PICK p \in PhysIds : mem[c].virt /\ ids[c] = {p}
          BY <2>1, <3>1, <4>1 DEF SpecInv
        <5>2. DeviceNode(TRUE, p)
          BY <1>9, <2>1, <5>1 DEF AddDevice, DeviceNode
        <5> QED BY <5>2, IdsAssumption DEF DeviceNode
      <4> QED BY <3>1, <4>1 DEF Settled, NoVNpu
    <3>2. CASE JustSplit(c)
      <4> PICK v \in VIds :
            /\ ids[c] = {v} /\ mem[c].virt /\ mem[c].devs = {}
            /\ \A w \in VIds : owner[w] = c => w = v
            /\ \E h \in mem[c].post : mem[c].post = {h} /\ h.vid = v /\ OwnHook(c, h)
        BY <3>2 DEF JustSplit
      <4>1. mem[c].virt = TRUE
        BY <2>1 DEF OciSpec
      <4>2. mem[c].devs \cup new = {[virt |-> TRUE, id |-> v]}
        BY <4>1
      <4> QED BY <4>2 DEF Settled
    <3> QED BY <2>1, <3>1, <3>2 DEF HookedInv
  <2>7. ReadyInv(c)'
    BY <2>2, <2>3, <2>5, <2>6 DEF ReadyInv, Settled, OwnHook
  <2>8. MemInv(c)' /\ EarlyInv(c)' /\ HookedInv(c)' /\ EndInv(c)'
    BY <2>2, <2>4, <2>5 DEF MemInv, EarlyInv, HookedInv, EndInv, EndStages
  <2>9. DiskInv(c)'
    BY <1>t, <2>2 DEF DiskInv, Started, LiveStages
  <2> QED BY <2>7, <2>8, <2>9 DEF SessionInv
<1>10. CASE Reject(c) \/ Die(c)
  <2>1. /\ stage'[c] = "failed" /\ mem'[c] = Empty /\ disk'[c] = disk[c] /\ reported'[c] = TRUE
    BY <1>t, <1>10 DEF Reject, Die, Abort, TypeOK
  <2> QED BY <1>t, <2>1
  DEF SessionInv, MemInv, EarlyInv, HookedInv, ReadyInv, DiskInv, EndInv, Started, LiveStages
<1>11. CASE WriteSpec(c)
  <2>1. /\ stage[c] = "ready" /\ stage'[c] = "written" /\ disk'[c] = mem[c] /\ mem' = mem
        /\ owner' = owner /\ parent' = parent /\ reported' = reported
        /\ mem[c] # Empty /\ SpecInv(mem[c])
    BY <1>t, <1>11 DEF WriteSpec, driver, TypeOK, MemInv
  <2>2. MemInv(c)' /\ EarlyInv(c)' /\ HookedInv(c)' /\ EndInv(c)'
    BY <2>1 DEF MemInv, EarlyInv, HookedInv, EndInv, EndStages
  <2>3. ReadyInv(c)'
    BY <1>t, <2>1 DEF ReadyInv, Settled, OwnHook, HookOk
  <2>4. DiskInv(c)'
    BY <1>t, <2>1
    DEF DiskInv, ReadyInv, Settled, OwnHook, HookOk, Started, PendingHooks, LiveStages
  <2> QED BY <2>2, <2>3, <2>4 DEF SessionInv
<1>12. CASE ExecRunc(c)
  <2>1. /\ stage[c] = "written" /\ stage'[c] = "runc" /\ disk' = disk /\ mem'[c] = Empty
        /\ owner' = owner /\ parent' = parent /\ reported' = reported
    BY <1>t, <1>12 DEF ExecRunc, driver, TypeOK
  <2>2. MemInv(c)' /\ EarlyInv(c)' /\ HookedInv(c)' /\ ReadyInv(c)' /\ EndInv(c)'
    BY <2>1 DEF MemInv, EarlyInv, HookedInv, ReadyInv, EndInv, EndStages, LiveStages
  <2>3. DiskInv(c)'
    BY <1>t, <2>1 DEF DiskInv, Settled, OwnHook, HookOk, Started, PendingHooks, LiveStages
  <2> QED BY <2>2, <2>3 DEF SessionInv
<1>13. CASE CreateContainer(c)
  <2>1. /\ stage[c] = "runc" /\ stage'[c] = "creating" /\ disk' = disk /\ mem'[c] = disk[c]
        /\ owner' = owner /\ parent' = parent /\ reported' = reported
        /\ disk[c] # Empty /\ SpecInv(disk[c])
    BY <1>t, <1>13 DEF CreateContainer, driver, TypeOK, DiskInv
  <2>2. MemInv(c)' /\ EarlyInv(c)' /\ HookedInv(c)' /\ ReadyInv(c)' /\ EndInv(c)'
    BY <2>1 DEF MemInv, EarlyInv, HookedInv, ReadyInv, EndInv, EndStages, LiveStages
  <2>3. DiskInv(c)'
    BY <1>t, <2>1 DEF DiskInv, Settled, OwnHook, HookOk, Started, PendingHooks, LiveStages
  <2> QED BY <2>2, <2>3 DEF SessionInv
<1>14. CASE Prestart(c) \/ PrestartFails(c) \/ Stop(c)
  <2>1. /\ stage[c] \in LiveStages /\ stage'[c] \in LiveStages /\ disk' = disk /\ mem' = mem
        /\ owner' = owner /\ parent' = parent
        /\ reported[c] => reported'[c]
    BY <1>t, <1>14 DEF Prestart, PrestartFails, Stop, driver, TypeOK, LiveStages
  <2>2. MemInv(c)' /\ EarlyInv(c)' /\ HookedInv(c)' /\ ReadyInv(c)' /\ EndInv(c)'
    BY <1>t, <2>1 DEF MemInv, EarlyInv, HookedInv, ReadyInv, EndInv, EndStages, LiveStages
  <2>3. DiskInv(c)'
    BY <1>t, <2>1 DEF DiskInv, Settled, OwnHook, HookOk, Started, PendingHooks
  <2> QED BY <2>2, <2>3 DEF SessionInv
<1>15. ASSUME NEW h \in mem[c].post, stage[c] = "stopped", stage' = stage, disk' = disk,
              mem' = [mem EXCEPT ![c].post = @ \ {h}],
              reported[c] => reported'[c],
              \/ owner' = [owner EXCEPT ![h.vid] = Free] /\ parent' = [parent EXCEPT ![h.vid] = NoChip]
                 /\ \A g \in mem[c].post : g.vid = h.vid => g = h
              \/ owner' = owner /\ parent' = parent /\ reported'[c]
       PROVE  SessionInv(c)'
  <2>1. /\ mem[c] \in OciSpec /\ SpecInv(mem[c]) /\ mem[c].post \subseteq DestroyHook
        /\ \A g \in mem[c].post : g.vid \in VIds /\ OwnHook(c, g)
    BY <1>t, <1>15, StoppedOwn, ConstantsAssumption DEF MemInv
  <2>2. mem'[c] = [mem[c] EXCEPT !.post = @ \ {h}]
    BY <1>t, <1>15 DEF TypeOK
  <2>3. /\ mem'[c] \in OciSpec /\ mem'[c].post = mem[c].post \ {h}
        /\ mem'[c].vis = mem[c].vis /\ mem'[c].virt = mem[c].virt /\ mem'[c].split = mem[c].split
        /\ mem'[c].devs = mem[c].devs /\ mem'[c].hooks = mem[c].hooks
    BY <2>1, <2>2 DEF OciSpec
  <2>4. SpecInv(mem'[c]) /\ mem'[c] # Empty
    BY <2>1, <2>3, ConstantsAssumption DEF SpecInv
  <2>5. MemInv(c)' /\ EarlyInv(c)' /\ HookedInv(c)' /\ ReadyInv(c)' /\ EndInv(c)'
    BY <1>15, <2>4 DEF MemInv, EarlyInv, HookedInv, ReadyInv, EndInv, EndStages
  <2>6. disk[c] # Empty /\ HookOk(disk[c]) /\ Settled(c, mem[c].post, disk[c].devs)
    BY <1>t, <1>15 DEF DiskInv, Started, PendingHooks, LiveStages
  <2>7. /\ \A g \in mem[c].post \ {h} : OwnHook(c, g)'
        /\ \A v \in VIds : owner'[v] = c =>
             /\ disk[c].devs = {[virt |-> TRUE, id |-> v]}
             /\ ~ reported'[c] => \E g \in mem[c].post \ {h} : g.vid = v
    <3>1. CASE owner' = owner /\ parent' = parent /\ reported'[c]
      BY <2>1, <2>6, <3>1 DEF Settled, OwnHook
    <3>2. CASE /\ owner' = [owner EXCEPT ![h.vid] = Free]
               /\ parent' = [parent EXCEPT ![h.vid] = NoChip]
               /\ \A g \in mem[c].post : g.vid = h.vid => g = h
      <4>1. \A v \in VIds : v # h.vid => owner'[v] = owner[v] /\ parent'[v] = parent[v]
        BY <1>t, <2>1, <3>2 DEF TypeOK
      <4>2. owner'[h.vid] # c
        BY <1>t, <2>1, <3>2, ConstantsAssumption DEF TypeOK
      <4>3. \A g \in mem[c].post \ {h} : OwnHook(c, g)'
        BY <2>1, <3>2, <4>1 DEF OwnHook
      <4>4. \A v \in VIds : owner'[v] = c => v # h.vid /\ owner[v] = c
        BY <4>1, <4>2
      <4>5. ASSUME NEW v \in VIds, owner'[v] = c
            PROVE  /\ disk[c].devs = {[virt |-> TRUE, id |-> v]}
                   /\ ~ reported'[c] => \E g \in mem[c].post \ {h} : g.vid = v
        BY <1>15, <2>6, <4>4, <4>5 DEF Settled
      <4> QED BY <4>3, <4>5
    <3> QED BY <1>15, <3>1, <3>2
  <2>8. DiskInv(c)'
    BY <1>t, <1>15, <2>3, <2>6, <2>7
    DEF DiskInv, Started, PendingHooks, LiveStages, HookOk, Settled, OwnHook
  <2> QED BY <2>5, <2>8 DEF SessionInv
<1>16. CASE DestroyVNpu(c)
  <2> PICK h \in mem[c].post :
        /\ owner' = [owner EXCEPT ![h.vid] = Free]
        /\ parent' = [parent EXCEPT ![h.vid] = NoChip]
        /\ mem' = [mem EXCEPT ![c].post = @ \ {h}]
    BY <1>16 DEF DestroyVNpu
  <2>1. \A g \in mem[c].post : g.vid = h.vid => g = h
    <3>1. ASSUME NEW g \in mem[c].post, g.vid = h.vid PROVE g = h
      <4>1. g \in DestroyHook /\ h \in DestroyHook
        BY <1>16, StoppedOwn DEF DestroyVNpu
      <4>2. parent[h.vid] = [card |-> h.card, dev |-> h.dev]
            /\ parent[h.vid] = [card |-> g.card, dev |-> g.dev]
        BY <1>16, <3>1, StoppedOwn DEF DestroyVNpu, OwnHook
      <4>3. g.card = h.card /\ g.dev = h.dev
        BY <4>2
      <4> QED BY <3>1, <4>1, <4>3 DEF DestroyHook
    <3> QED BY <3>1
  <2> QED BY <1>15, <1>16, <2>1 DEF DestroyVNpu
<1>17. CASE DestroyRefused(c) \/ DestroyDies(c)
  <2> PICK h \in mem[c].post : DestroyFails(c, h)
    BY <1>17 DEF DestroyRefused, DestroyDies
  <2>1. stage[c] = "stopped" /\ reported'[c]
    BY <1>t, <1>17 DEF DestroyRefused, DestroyDies, DestroyFails, TypeOK
  <2> QED BY <1>15, <2>1 DEF DestroyFails, driver
<1>18. CASE Delete(c)
  <2>1. /\ stage[c] = "stopped" /\ stage'[c] = "deleted" /\ disk' = disk /\ mem'[c] = Empty
        /\ owner' = owner /\ reported' = reported /\ mem[c].post = {}
    BY <1>t, <1>18 DEF Delete, driver, TypeOK
  <2>2. \A v \in VIds : owner[v] = c => reported[c]
    BY <1>t, <2>1 DEF DiskInv, Started, PendingHooks, LiveStages, Settled
  <2> QED BY <1>t, <2>1, <2>2
  DEF SessionInv, MemInv, EarlyInv, HookedInv, ReadyInv, DiskInv, EndInv, Started, LiveStages
<1> QED
  BY <1>1, <1>2, <1>3, <1>4, <1>5, <1>6, <1>7, <1>8, <1>9, <1>10, <1>11, <1>12, <1>13,
     <1>14, <1>16, <1>17, <1>18
  DEF Step, RuntimeStep, RuncStep, Fault

(* Every step keeps the inductive invariant. *)
THEOREM IInvStep == IInv /\ [Next]_vars => IInv'
<1> SUFFICES ASSUME IInv, [Next]_vars PROVE IInv'
  OBVIOUS
<1>1. ASSUME NEW c \in Containers, Step(c) PROVE IInv'
  <2>1. TypeOK'
    BY <1>1, TypeStep
  <2>2. ASSUME NEW d \in Containers PROVE SessionInv(d)'
    BY <1>1, OwnStep, OtherStep
  <2> QED BY <2>1, <2>2 DEF IInv
<1>2. CASE UNCHANGED vars
  <2>1. TypeOK'
    BY <1>2 DEF IInv, TypeOK, vars
  <2>2. ASSUME NEW d \in Containers PROVE SessionInv(d)'
    BY <1>2, Frame DEF IInv, vars
  <2> QED BY <2>1, <2>2 DEF IInv
<1> QED BY <1>1, <1>2 DEF Next

(* The inductive invariant holds in every reachable state: what each        *)
(* session knows of its vNPU is so, from create to the last poststop hook.  *)
THEOREM Invariance == Spec => []IInv
BY InitIInv, IInvStep, PTL DEF Spec

(* The types of every reachable state, for every value of the constants. *)
THEOREM TypeCorrect == Spec => []TypeOK
<1>1. IInv => TypeOK
  BY DEF IInv
<1> QED BY <1>1, Invariance, PTL

(* A started container only carries poststop hooks for vNPUs of its own, so *)
(* none is ever destroyed under another container.                          *)
THEOREM HooksOwn == Spec => []HooksNameOwn
<1>1. IInv => HooksNameOwn
  BY DEF IInv, SessionInv, DiskInv, Settled, HooksNameOwn, OwnHook
<1> QED BY <1>1, Invariance, PTL

(* A container that got a vNPU sees that vNPU and no other davinci device.  *)
THEOREM Isolation == Spec => []SplitIsolated
<1>1. IInv => SplitIsolated
  BY DEF IInv, SessionInv, DiskInv, Settled, SplitIsolated
<1> QED BY <1>1, Invariance, PTL

(* A vNPU left behind by a finished session was reported by some process.   *)
THEOREM LeaksReported == Spec => []NoSilentLeak
<1>1. IInv => NoSilentLeak
  BY DEF IInv, SessionInv, EndInv, NoSilentLeak
<1> QED BY <1>1, Invariance, PTL

(* A started container has our prestart hook once if it asks for devices.   *)
THEOREM OneHook == Spec => []HookIffDevices
<1>1. IInv => HookIffDevices
  BY DEF IInv, SessionInv, DiskInv, HookOk, HookIffDevices
<1> QED BY <1>1, Invariance, PTL

(* The vNPUs behave as the pool of VnpuPool: BeginSession is Abandon, the   *)
(* driver's create is Acquire and a poststop hook that succeeds is Release; *)
(* no other step touches a vNPU.                                            *)
THEOREM Refinement == Spec => ImplementsPool
<1>1. Init => Pool!Init
  BY DEF Init, Pool!Init
<1>2. IInv /\ [Next]_vars => [Pool!Next]_owner
  <2> SUFFICES ASSUME IInv, [Next]_vars PROVE [Pool!Next]_owner
    OBVIOUS
  <2>t. TypeOK
    BY DEF IInv
  <2>1. ASSUME NEW c \in Containers, BeginSession(c) PROVE Pool!Next
    BY <2>1 DEF BeginSession, Pool!Next, Pool!Abandon
  <2>2. ASSUME NEW c \in Containers, SplitDevice(c) \/ SplitTooLarge(c) PROVE Pool!Next
    <3>1. PICK v \in VIds : stage[c] = "split" /\ owner[v] = Free /\ owner' = [owner EXCEPT ![v] = c]
      BY <2>2 DEF SplitDevice, SplitTooLarge, CanSplit, DriverCreates
    <3>2. NoVNpu(c)
      BY <3>1 DEF IInv, SessionInv, EarlyInv
    <3>3. Pool!Acquire(c, v)
      BY <3>1, <3>2 DEF NoVNpu, Pool!Acquire
    <3> QED BY <3>3 DEF Pool!Next
  <2>3. ASSUME NEW c \in Containers, DestroyVNpu(c) PROVE Pool!Next
    <3>1. PICK h \in mem[c].post : owner' = [owner EXCEPT ![h.vid] = Free]
      BY <2>3 DEF DestroyVNpu
    <3>2. h.vid \in VIds /\ owner[h.vid] = c
      BY <2>3, StoppedOwn DEF DestroyVNpu, OwnHook
    <3>3. Pool!Release(c, h.vid)
      BY <3>1, <3>2 DEF Pool!Release
    <3> QED BY <3>2, <3>3 DEF Pool!Next
  <2>4. ASSUME NEW c \in Containers, Step(c) PROVE [Pool!Next]_owner
    <3>1. \/ LoadSpec(c) \/ ParseSpec(c) \/ AddHook(c) \/ SkipSplit(c) \/ AddDevice(c)
          \/ WriteSpec(c) \/ ExecRunc(c) \/ CreateContainer(c) \/ Prestart(c)
          \/ PrestartFails(c) \/ Stop(c) \/ Delete(c)
          => UNCHANGED owner
      BY DEF LoadSpec, ParseSpec, AddHook, SkipSplit, AddDevice, WriteSpec, ExecRunc,
             CreateContainer, Prestart, PrestartFails, Stop, Delete, driver
    <3>2. Reject(c) \/ Die(c) \/ DestroyRefused(c) \/ DestroyDies(c) => UNCHANGED owner
      BY DEF Reject, Die, Abort, DestroyRefused, DestroyDies, DestroyFails, driver
    <3>3. (\E request \in Requests : NewBundle(c, request)) \/ ReuseBundle(c) => BeginSession(c)
      BY DEF NewBundle, ReuseBundle
    <3> QED
      BY <2>1, <2>2, <2>3, <2>4, <3>1, <3>2, <3>3 DEF Step, RuntimeStep, RuncStep, Fault
  <2>5. CASE UNCHANGED vars
    BY <2>5 DEF vars
  <2> QED BY <2>4, <2>5 DEF Next
<1> QED BY <1>1, <1>2, Invariance, PTL DEF Spec, ImplementsPool, Pool!Spec
=============================================================================
