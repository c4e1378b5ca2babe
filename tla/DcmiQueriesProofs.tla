------------------------- MODULE DcmiQueriesProofs --------------------------
(***************************************************************************)
(* For every host, question and sequence of failing calls: a vNPU is split *)
(* off a chip that has the physical id asked for, and the poststop hook    *)
(* names that chip; the walks stay within what the driver lists; a         *)
(* container that starts has its manager devices; destroy refuses only for *)
(* the ids and the library; and on a healthy host of any size a session    *)
(* fails only because a call did.                                          *)
(***************************************************************************)
EXTENDS DcmiQueries, TLAPS

\* While the walk of FindDevice is under way it looks for the right id.
TargetInv ==
  at \in {"list", "count", "ask"} /\ Asking("find") => target = host.logicOf[ask.phys]

\* What it has found so far has this id.
FoundInv == found # NotFound => host.logic[found] = host.logicOf[ask.phys]

IInv == host \in Hosts /\ ask \in Asks /\ TargetInv /\ FoundInv /\ VNpuOnAskedChip

\* Initially nothing has been found.
LEMMA InitInv == Init => IInv
  BY DEF Init, IInv, TargetInv, FoundInv, VNpuOnAskedChip

\* What the invariant does not speak of may change.
LEMMA Quiet ==
  ASSUME IInv, UNCHANGED <<host, ask, found, vnpu, hook>>, TargetInv'
  PROVE  IInv'
  BY DEF IInv, FoundInv, VNpuOnAskedChip, Chips, Devices

\* A walk moves on without changing what it looks for.
LEMMA WalkOn ==
  ASSUME IInv, UNCHANGED <<host, ask, plan, target, found, vnpu, hook>>,
         at \in {"list", "count", "ask"}
  PROVE  IInv'
  <1>1. TargetInv'
    BY DEF IInv, TargetInv, Asking
  <1>2. QED
    BY <1>1, Quiet

\* A step to a place outside the walk.
LEMMA Leaves ==
  ASSUME IInv, UNCHANGED <<host, ask, found, vnpu, hook>>,
         at' \notin {"list", "count", "ask"}
  PROVE  IInv'
  <1>1. TargetInv'
    BY DEF TargetInv
  <1>2. QED
    BY <1>1, Quiet

\* Each step of the two programs keeps the invariant.
LEMMA StepInv == IInv /\ [Next]_vars => IInv'
  <1> SUFFICES ASSUME IInv, [Next]_vars PROVE IInv'
    OBVIOUS
  <1> USE DEF GoTo, search, answers
  <1>1. CASE Open
    <2>1. TargetInv'
      BY <1>1 DEF Open, TargetInv, Asking
    <2>2. QED
      BY <1>1, <2>1, Quiet DEF Open
  <1>2. CASE OpenFails
    BY <1>2, Leaves DEF OpenFails
  <1>3. CASE LogicOfPhysical
    BY <1>3 DEF LogicOfPhysical, IInv, TargetInv, FoundInv, VNpuOnAskedChip, Chips, Devices
  <1>4. CASE ListCards \/ CountDevices \/ SkipCard \/ SkipDevice
    <2>1. UNCHANGED <<host, ask, plan, target, found, vnpu, hook>>
      BY <1>4 DEF ListCards, CountDevices, SkipCard, SkipDevice
    <2>2. at \in {"list", "count", "ask"}
      BY <1>4 DEF ListCards, CountDevices, SkipCard, SkipDevice
    <2>3. QED
      BY <2>1, <2>2, WalkOn
  <1>5. CASE AskLogicId
    <2>1. target = host.logicOf[ask.phys]
      BY <1>5 DEF AskLogicId, IInv, TargetInv
    <2>2. FoundInv'
      BY <1>5, <2>1 DEF AskLogicId, IInv, FoundInv
    <2>3. TargetInv'
      BY <1>5, <2>1 DEF AskLogicId, TargetInv
    <2>4. QED
      BY <1>5, <2>2, <2>3 DEF AskLogicId, IInv, VNpuOnAskedChip, Chips, Devices
  <1>6. CASE AskName \/ AskProduct \/ SearchEnds \/ Close
    <2>1. at' \notin {"list", "count", "ask"}
      BY <1>6 DEF AskName, AskProduct, SearchEnds, Close
    <2>2. QED
      BY <1>6, <2>1, Leaves DEF AskName, AskProduct, SearchEnds, Close
  <1>7. CASE CreateVDevice
    <2>1. found # NotFound
      BY <1>7, HostAssumption DEF CreateVDevice, IInv, Devices
    <2>2. found \in Chips
      BY <1>7, <2>1 DEF CreateVDevice, IInv, FoundInv, Chips
    <2>3. QED
      BY <1>7, <2>2 DEF CreateVDevice, IInv, TargetInv, FoundInv, VNpuOnAskedChip, Chips,
        Devices
  <1>8. CASE QueryFails
    BY <1>8, Leaves DEF QueryFails, Errs
  <1>9. CASE AddManagerDevice
    <2>1. at' \notin {"list", "count", "ask"}
      BY <1>9 DEF AddManagerDevice
    <2>2. QED
      BY <1>9, <2>1, Leaves DEF AddManagerDevice
  <1>10. CASE StartDestroy \/ CheckArgs \/ LoadForDestroy \/ DestroyFails
    <2>1. at' \notin {"list", "count", "ask"}
      BY <1>10 DEF StartDestroy, CheckArgs, LoadForDestroy, DestroyFails
    <2>2. QED
      BY <1>10, <2>1, Leaves DEF StartDestroy, CheckArgs, LoadForDestroy, DestroyFails
  <1>11. CASE Destroy
    BY <1>11 DEF Destroy, IInv, TargetInv, FoundInv, VNpuOnAskedChip, Chips, Devices
  <1>12. CASE UNCHANGED vars
    BY <1>12 DEF vars, IInv, TargetInv, FoundInv, VNpuOnAskedChip, Chips, Devices, Asking
  <1>13. QED
    BY <1>1, <1>2, <1>3, <1>4, <1>5, <1>6, <1>7, <1>8, <1>9, <1>10, <1>11, <1>12
    DEF Next, Runtime, DestroyHook

\* The invariant holds in every reachable state.
THEOREM QueriesInvariance == Spec => []IInv
  BY InitInv, StepInv, PTL DEF Spec

\* A vNPU is on a chip with the physical id the container asked for, and the
\* poststop hook names this chip, whatever the driver lists and which calls
\* fail (FindDevice, CreateVDevice).
THEOREM OnAskedChip == Spec => []VNpuOnAskedChip
  <1>1. IInv => VNpuOnAskedChip
    BY DEF IInv
  <1>2. QED
    BY <1>1, QueriesInvariance, PTL

-----------------------------------------------------------------------------
(* The walks and the plan.                                                 *)

Asked == {"logic", "list", "count", "ask", "create", "close"}

WithMatch == {<<"match", "find", "name", "product">>, <<"match", "name", "product">>}
WithFind == {<<"match", "find", "name", "product">>, <<"find", "name", "product">>}
Plans == WithMatch \cup WithFind \cup {<<"name", "product">>, <<"product">>, <<>>}

\* A question is going on while the driver is asked; the calls of FindDevice
\* and CreateVDevice belong to a container that asks for a vNPU, and a name is
\* matched with a type the list names.
PlanInv ==
  /\ plan \in Plans
  /\ at \in Asked \cup {"open"} => plan # <<>>
  /\ at \in {"logic", "create"} => Asking("find")
  /\ at = "manager" => plan = <<>>
  /\ plan \in WithFind => ask.split
  /\ plan \in WithMatch => ask.type # None

\* A walk goes over cards the driver lists and devices it counts.
WalkInv ==
  /\ cards \in Seq(Nat) /\ ToSet(cards) \subseteq ToSet(host.cards)
  /\ num \in 0 .. MaxDevices /\ dev \in 0 .. num
  /\ at = "ask" => cards # <<>> /\ dev < num /\ num = host.num[Head(cards)]

\* Chips that a walk has come by.
Walked == {cd \in Devices : cd[1] >= 0 /\ cd[2] < MaxDevices}

\* A vNPU is on such a chip, destroy runs for one, with the library that
\* the runtime accepted.
OwnInv ==
  /\ found \in Walked \cup {NotFound}
  /\ vnpu \in Walked \cup {None}
  /\ at \in {"args", "load", "destroy"} => vnpu # None
  /\ at \in Asked \cup {"open", "manager", "ready", "error"} /\ vnpu = None => hook = None
  /\ at \notin {"open", "error"} => host.lib <= RuntimeLimit
  /\ faults \in 0 .. MaxFaults

\* The name is the one of a chip that answered.
Answered == \E cd \in Devices : name = host.name[cd] /\ name # {"blank"}

\* The answers addManagerDevice builds on.
AnswerInv ==
  /\ (at = "close" /\ Naming) \/ plan \in {<<"product">>, <<>>} => Answered
  /\ product \in {"", IF host.atlas200 THEN "Atlas 200" ELSE "not support"}

SessionInv == PlanInv /\ WalkInv /\ OwnInv /\ AnswerInv

\* The device cd is still to be asked in this walk.
Ahead(cd) ==
  IF at = "count" THEN cd[1] \in ToSet(cards)
  ELSE cd[1] \in ToSet(Tail(cards)) \/ (cd[1] = Head(cards) /\ dev <= cd[2])

\* No walk comes to its end without an answer.
Successful ==
  /\ at # "error"
  /\ at \in {"count", "ask"} /\ ~ Asking("find") => cards # <<>>
  /\ at \in {"count", "ask"} /\ Asking("find") =>
       \A cd \in Chips : found # NotFound \/ Ahead(cd)
  /\ at = "create" => found # NotFound
  /\ (at = "close" /\ Asking("product")) \/ plan = <<>> => product # "" \/ "310B" \in name

\* On a healthy host, if no call fails.
HealthyInv == Healthy /\ faults = 0 => Successful

\* The plan shrinks from the front.
LEMMA PlanTails ==
  ASSUME plan \in Plans, plan # <<>>
  PROVE  /\ Tail(plan) \in Plans
         /\ Tail(plan) \in WithFind => plan \in WithFind
         /\ Tail(plan) \notin WithMatch
         /\ Tail(plan) = <<"product">> => Head(plan) = "name"
         /\ Tail(plan) = <<>> => plan = <<"product">>
  <1>1. CASE plan = <<"match", "find", "name", "product">>
    <2>1. Tail(plan) = <<"find", "name", "product">>
      BY <1>1
    <2>2. QED
      BY <1>1, <2>1 DEF Plans, WithFind, WithMatch
  <1>2. CASE plan = <<"find", "name", "product">>
    <2>1. Tail(plan) = <<"name", "product">>
      BY <1>2
    <2>2. QED
      BY <1>2, <2>1 DEF Plans, WithFind, WithMatch
  <1>3. CASE plan = <<"match", "name", "product">>
    <2>1. Tail(plan) = <<"name", "product">>
      BY <1>3
    <2>2. QED
      BY <1>3, <2>1 DEF Plans, WithFind, WithMatch
  <1>4. CASE plan = <<"name", "product">>
    <2>1. Tail(plan) = <<"product">>
      BY <1>4
    <2>2. QED
      BY <1>4, <2>1 DEF Plans, WithFind, WithMatch
  <1>5. CASE plan = <<"product">>
    <2>1. Tail(plan) = <<>>
      BY <1>5
    <2>2. QED
      BY <1>5, <2>1 DEF Plans, WithFind, WithMatch
  <1>6. QED
    BY <1>1, <1>2, <1>3, <1>4, <1>5 DEF Plans, WithFind, WithMatch

\* What is asked for.
LEMMA PlanNames ==
  ASSUME plan \in Plans
  PROVE  ToSet(plan) \subseteq {"match", "find", "name", "product"}
  <1> SUFFICES ASSUME NEW i \in DOMAIN plan
               PROVE  plan[i] \in {"match", "find", "name", "product"}
    BY DEF ToSet
  <1>1. CASE plan = <<"match", "find", "name", "product">>
    BY <1>1
  <1>2. CASE plan = <<"find", "name", "product">>
    BY <1>2
  <1>3. CASE plan = <<"match", "name", "product">>
    BY <1>3
  <1>4. CASE plan \in {<<"name", "product">>, <<"product">>, <<>>}
    BY <1>4
  <1>5. QED
    BY <1>1, <1>2, <1>3, <1>4 DEF Plans, WithFind, WithMatch

\* What stands at the front of the plan.
LEMMA PlanHeads ==
  ASSUME plan \in Plans
  PROVE  /\ Asking("product") <=> plan = <<"product">>
         /\ Asking("find") => plan \in WithFind
         /\ Asking("match") => plan \in WithMatch
         /\ plan # <<>> => Asking("find") \/ Naming \/ Asking("product")
  BY DEF Plans, WithFind, WithMatch, Asking, Naming

-----------------------------------------------------------------------------
(* Each part of the invariant holds at the start and is kept.              *)

\* The session begins with the whole plan and without a vNPU.
LEMMA InitSession == Init => PlanInv /\ WalkInv /\ OwnInv /\ AnswerInv
  <1> SUFFICES ASSUME Init PROVE PlanInv /\ WalkInv /\ OwnInv /\ AnswerInv
    OBVIOUS
  <1> DEFINE Without == {<<"match", "name", "product">>, <<"name", "product">>}
  <1>0. /\ (plan \in WithFind /\ ask.split) \/ plan \in Without
        /\ plan \in WithMatch => ask.type # None
    <2> DEFINE full == <<"match", "find", "name", "product">>
               named == <<"match", "name", "product">>
               find == <<"find", "name", "product">>
               short == <<"name", "product">>
    <2>1. \/ ask.type # None /\ ((plan = full /\ ask.split) \/ plan = named)
          \/ plan = find /\ ask.split
          \/ plan = short
      BY DEF Init
    <2>2. full[1] = "match" /\ named[1] = "match" /\ find[1] = "find" /\ short[1] = "name"
      OBVIOUS
    <2>3. WithMatch = {full, named} /\ WithFind = {full, find} /\ Without = {named, short}
      BY DEF WithMatch, WithFind
    <2> HIDE DEF full, named, find, short
    <2> QED BY <2>1, <2>2, <2>3
  <1>1. plan \in Plans /\ plan # <<>>
    BY <1>0 DEF Plans, WithFind, WithMatch
  <1>2. plan \notin {<<"product">>, <<>>} /\ (plan \in WithFind => ask.split)
    BY <1>0 DEF WithFind
  <1>3. PlanInv /\ AnswerInv
    <2>1. at = "open" /\ product = ""
      BY DEF Init
    <2>2. QED
      BY <1>0, <1>1, <1>2, <2>1 DEF PlanInv, AnswerInv, Asked
  <1>4. cards \in Seq(Nat) /\ ToSet(cards) = {}
    <2>1. cards = <<>>
      BY DEF Init
    <2>2. QED
      BY <2>1 DEF ToSet
  <1>5. WalkInv
    <2>1. num = 0 /\ dev = 0 /\ at = "open"
      BY DEF Init
    <2>2. QED
      BY <1>4, <2>1, QueriesAssumption DEF WalkInv
  <1>6. OwnInv
    <2>1. found = NotFound /\ vnpu = None /\ hook = None /\ faults = 0 /\ at = "open"
      BY DEF Init
    <2>2. QED
      BY <2>1, QueriesAssumption DEF OwnInv
  <1>7. QED
    BY <1>3, <1>5, <1>6


\* A step that leaves the plan alone and opens no question of its own.
LEMMA PlanKept ==
  ASSUME PlanInv, UNCHANGED <<plan, ask>>,
         at' \in Asked \cup {"open"} => at \in Asked \cup {"open"},
         at' \in {"logic", "create"} => Asking("find"),
         at' = "manager" => at = "manager"
  PROVE  PlanInv'
  <1>1. Asking("find")' <=> Asking("find")
    BY DEF Asking
  <1>2. QED
    BY <1>1 DEF PlanInv

\* The plan shrinks from the front, and each call belongs to its question.
LEMMA PlanStep == PlanInv /\ [Next]_vars => PlanInv'
  <1> SUFFICES ASSUME PlanInv, [Next]_vars PROVE PlanInv'
    OBVIOUS
  <1> USE DEF GoTo, search, answers, Asked
  <1>1. CASE Open
    BY <1>1, PlanKept DEF Open
  <1>2. CASE OpenFails
    BY <1>2, PlanKept DEF OpenFails
  <1>3. CASE LogicOfPhysical \/ ListCards \/ CountDevices
    BY <1>3, PlanKept DEF LogicOfPhysical, ListCards, CountDevices
  <1>4. CASE SkipCard
    <2>1. UNCHANGED <<plan, ask, at>>
      BY <1>4 DEF SkipCard
    <2>2. QED
      BY <2>1, PlanKept DEF PlanInv
  <1>5. CASE AskLogicId \/ SkipDevice
    <2>1. UNCHANGED <<plan, ask>> /\ at = "ask" /\ at' \in {"ask", "count"}
      BY <1>5 DEF AskLogicId, SkipDevice, NextDevice
    <2>2. QED
      BY <2>1, PlanKept
  <1>6. CASE AskName \/ AskProduct \/ CreateVDevice
    BY <1>6, PlanKept DEF AskName, AskProduct, CreateVDevice
  <1>7. CASE SearchEnds
    <2>1. UNCHANGED <<plan, ask>> /\ at = "count"
          /\ at' = IF Asking("find") THEN "create" ELSE "close"
      BY <1>7 DEF SearchEnds
    <2>2. QED
      BY <2>1, PlanKept
  <1>8. CASE QueryFails
    BY <1>8, PlanKept DEF QueryFails, Errs
  <1>9. CASE Close
    <2> DEFINE rest == Tail(plan)
               wrong == Asking("match") /\ DeviceType(name) # ask.type
               done == rest = <<>> \/ (rest = <<"product">> /\ "310B" \in name)
    <2>1. /\ at = "close" /\ ask' = ask
          /\ plan' = IF done THEN <<>> ELSE rest
          /\ at' = IF wrong THEN "error" ELSE IF done THEN "manager" ELSE "open"
      BY <1>9 DEF Close
    <2> HIDE DEF wrong
    <2>2. plan \in Plans /\ plan # <<>> /\ (plan \in WithFind => ask.split)
      BY <2>1 DEF PlanInv
    <2>3. rest \in Plans /\ (rest \in WithFind => plan \in WithFind) /\ rest \notin WithMatch
      BY <2>2, PlanTails
    <2> HIDE DEF rest
    <2>4. CASE done
      BY <2>1, <2>4 DEF PlanInv, Plans, WithFind, WithMatch
    <2>5. CASE ~ done
      <3>1. plan' = rest /\ rest # <<>> /\ at' \in {"error", "open"}
        BY <2>1, <2>5
      <3>2. QED
        BY <2>1, <2>2, <2>3, <3>1 DEF PlanInv
    <2>6. QED
      BY <2>4, <2>5
  <1>10. CASE AddManagerDevice
    <2>1. UNCHANGED <<plan, ask>> /\ at' \in {"ready", "error"}
      BY <1>10 DEF AddManagerDevice
    <2>2. QED
      BY <2>1, PlanKept
  <1>11. CASE StartDestroy \/ DestroyHook
    <2>1. UNCHANGED <<plan, ask>> /\ at' \in {"args", "load", "destroy", "destroyed", "refused"}
      BY <1>11 DEF StartDestroy, DestroyHook, CheckArgs, LoadForDestroy, Destroy, DestroyFails
    <2>2. QED
      BY <2>1, PlanKept
  <1>12. CASE UNCHANGED vars
    BY <1>12, PlanKept DEF vars, PlanInv
  <1>13. QED
    BY <1>1, <1>2, <1>3, <1>4, <1>5, <1>6, <1>7, <1>8, <1>9, <1>10, <1>11, <1>12
    DEF Next, Runtime


-----------------------------------------------------------------------------

\* The first element and the others.
LEMMA FrontFacts ==
  ASSUME cards \in Seq(Nat), cards # <<>>
  PROVE  /\ Head(cards) \in Nat /\ Tail(cards) \in Seq(Nat)
         /\ ToSet(cards) = {Head(cards)} \cup ToSet(Tail(cards))
  <1>1. Len(cards) \in Nat \ {0} /\ Head(cards) = cards[1] /\ cards[1] \in Nat
    OBVIOUS
  <1>2. Tail(cards) \in Seq(Nat) /\ DOMAIN Tail(cards) = 1 .. Len(cards) - 1
        /\ \A i \in 1 .. Len(cards) - 1 : Tail(cards)[i] = cards[i + 1]
    OBVIOUS
  <1>3. DOMAIN cards = 1 .. Len(cards)
    OBVIOUS
  <1>4. ASSUME NEW i \in DOMAIN cards
        PROVE  cards[i] \in {Head(cards)} \cup ToSet(Tail(cards))
    <2>1. CASE i = 1
      BY <1>1, <2>1
    <2>2. CASE i # 1
      <3>1. i - 1 \in 1 .. Len(cards) - 1 /\ (i - 1) + 1 = i
        BY <1>1, <1>3, <2>2
      <3>2. cards[i] = Tail(cards)[i - 1] /\ i - 1 \in DOMAIN Tail(cards)
        BY <1>2, <3>1
      <3>3. QED
        BY <3>2 DEF ToSet
    <2>3. QED
      BY <2>1, <2>2
  <1>5. Head(cards) \in ToSet(cards)
    BY <1>1, <1>3 DEF ToSet
  <1>6. ASSUME NEW i \in DOMAIN Tail(cards)
        PROVE  Tail(cards)[i] \in ToSet(cards)
    <2>1. Tail(cards)[i] = cards[i + 1] /\ i + 1 \in DOMAIN cards
      BY <1>1, <1>2, <1>3
    <2>2. QED
      BY <2>1 DEF ToSet
  <1>7. ToSet(cards) \subseteq {Head(cards)} \cup ToSet(Tail(cards))
    BY <1>4 DEF ToSet
  <1>8. ToSet(Tail(cards)) \subseteq ToSet(cards)
    BY <1>6 DEF ToSet
  <1>9. QED
    BY <1>1, <1>2, <1>5, <1>7, <1>8

\* What GetCardList answers: cards of the driver's list that are no
\* negative ids, and all of those.
LEMMA ListFacts ==
  ASSUME host \in Hosts, ListCards
  PROVE  /\ cards' \in Seq(Nat) /\ ToSet(cards') \subseteq ToSet(host.cards)
         /\ \A i \in Listed : host.cards[i] \in ToSet(cards')
  <1>0. PICK n \in 0 .. Len(host.cards) : \E order \in [1 .. n -> Listed] :
          InOrder(order) /\ cards' = [i \in 1 .. n |-> host.cards[order[i]]]
    BY DEF ListCards
  <1>1. PICK order \in [1 .. n -> Listed] :
          InOrder(order) /\ cards' = [i \in 1 .. n |-> host.cards[order[i]]]
    BY <1>0
  <1>2. host.cards \in Seq(Int)
    BY HostAssumption
  <1>3. n \in Nat
    BY <1>0, <1>2
  <1>4. \A i \in 1 .. n : order[i] \in DOMAIN host.cards /\ cards'[i] = host.cards[order[i]]
    BY <1>1 DEF Listed
  <1>5. \A i \in 1 .. n : cards'[i] \in Nat
    BY <1>1, <1>2, <1>4 DEF Listed
  <1>6. DOMAIN cards' = 1 .. n
    BY <1>1
  <1>7. cards' \in [1 .. n -> Nat]
    BY <1>1, <1>5
  <1>8. cards' \in Seq(Nat)
    BY <1>3, <1>7
  <1>9. ToSet(cards') \subseteq ToSet(host.cards)
    BY <1>4, <1>6 DEF ToSet
  <1>10. ASSUME NEW i \in Listed PROVE host.cards[i] \in ToSet(cards')
    <2>1. PICK k \in DOMAIN order : order[k] = i
      BY <1>1 DEF InOrder, ToSet
    <2>2. k \in 1 .. n
      BY <1>1, <2>1
    <2>3. QED
      BY <1>4, <1>6, <2>1, <2>2 DEF ToSet
  <1>11. QED
    BY <1>8, <1>9, <1>10

\* The device asked is one the walk has come by.
LEMMA ThisWalked ==
  ASSUME host \in Hosts, WalkInv, at = "ask"
  PROVE  This \in Walked
  <1> DEFINE card == Head(cards)
  <1>1. card \in ToSet(host.cards) /\ card \in Nat /\ dev \in Nat
        /\ num \in Nat /\ dev < num /\ num = host.num[card] /\ num <= MaxDevices
    BY FrontFacts, QueriesAssumption DEF WalkInv
  <1>2. /\ host.num[card] \in Int
        /\ \A d \in 0 .. host.num[card] - 1 : <<card, d>> \in DOMAIN host.logic
    BY <1>1, HostAssumption
  <1>3. dev \in 0 .. host.num[card] - 1
    BY <1>1, <1>2
  <1>4. <<card, dev>> \in DOMAIN host.logic
    BY <1>2, <1>3
  <1>5. This = <<card, dev>> /\ This[1] = card /\ This[2] = dev
    BY DEF This
  <1> HIDE DEF card
  <1>6. dev < MaxDevices /\ card >= 0
    BY <1>1, QueriesAssumption
  <1>7. QED
    BY <1>1, <1>4, <1>5, <1>6 DEF Walked, Devices


-----------------------------------------------------------------------------

\* The host and the container's wish stay what they are.
LEMMA SameHost == [Next]_vars => host' = host /\ ask' = ask
  <1> SUFFICES ASSUME [Next]_vars PROVE host' = host /\ ask' = ask
    OBVIOUS
  <1>1. CASE Runtime
    <2>1. CASE Open \/ OpenFails \/ LogicOfPhysical \/ ListCards \/ CountDevices \/ SkipCard
      BY <2>1 DEF Open, OpenFails, LogicOfPhysical, ListCards, CountDevices, SkipCard
    <2>2. CASE AskLogicId \/ AskName \/ AskProduct \/ SkipDevice \/ SearchEnds
      BY <2>2 DEF AskLogicId, AskName, AskProduct, SkipDevice, SearchEnds
    <2>3. CASE CreateVDevice \/ QueryFails \/ Close \/ AddManagerDevice
      BY <2>3 DEF CreateVDevice, QueryFails, Errs, Close, AddManagerDevice
    <2>4. QED
      BY <1>1, <2>1, <2>2, <2>3 DEF Runtime
  <1>2. CASE StartDestroy \/ DestroyHook
    BY <1>2 DEF StartDestroy, DestroyHook, CheckArgs, LoadForDestroy, Destroy, DestroyFails
  <1>3. CASE UNCHANGED vars
    BY <1>3 DEF vars
  <1>4. QED
    BY <1>1, <1>2, <1>3 DEF Next

\* A walk that does not move, or is left.
LEMMA WalkKept ==
  ASSUME WalkInv, host' = host, UNCHANGED <<cards, num, dev>>, at' = "ask" => at = "ask"
  PROVE  WalkInv'
  BY DEF WalkInv

\* The walk steps to the next device or to the next card.
LEMMA WalkNext ==
  ASSUME WalkInv, host' = host, at = "ask", num' = num, NextDevice
  PROVE  WalkInv'
  <1>1. num \in Nat /\ dev \in Nat /\ cards \in Seq(Nat) /\ cards # <<>>
    BY QueriesAssumption DEF WalkInv
  <1>2. CASE dev + 1 < num
    <2>1. dev' = dev + 1 /\ cards' = cards /\ at' = at
      BY <1>2 DEF NextDevice
    <2>2. dev' \in 0 .. num'
      BY <1>1, <1>2, <2>1
    <2>3. QED
      BY <1>2, <2>1, <2>2 DEF WalkInv
  <1>3. CASE ~ (dev + 1 < num)
    <2>1. dev' = 0 /\ cards' = Tail(cards) /\ at' = "count"
      BY <1>3 DEF NextDevice, GoTo
    <2>2. cards' \in Seq(Nat) /\ ToSet(cards') \subseteq ToSet(cards)
      BY <1>1, <2>1, FrontFacts
    <2>3. dev' \in 0 .. num'
      BY <1>1, <2>1
    <2>4. QED
      BY <2>1, <2>2, <2>3 DEF WalkInv
  <1>4. QED
    BY <1>2, <1>3

\* Each step keeps the walk within the driver's list and counts.
LEMMA WalkStep == host \in Hosts /\ WalkInv /\ [Next]_vars => WalkInv'
  <1> SUFFICES ASSUME host \in Hosts, WalkInv, [Next]_vars PROVE WalkInv'
    OBVIOUS
  <1> USE DEF GoTo, search, answers
  <1>0. host' = host
    BY SameHost
  <1>1. CASE Open \/ OpenFails \/ LogicOfPhysical
    BY <1>0, <1>1, WalkKept DEF Open, OpenFails, LogicOfPhysical
  <1>2. CASE ListCards
    <2>1. cards' \in Seq(Nat) /\ ToSet(cards') \subseteq ToSet(host.cards)
      BY <1>2, ListFacts
    <2>2. num' = 0 /\ dev' = 0 /\ at' = "count"
      BY <1>2 DEF ListCards
    <2>3. QED
      BY <1>0, <2>1, <2>2, QueriesAssumption DEF WalkInv
  <1>3. CASE CountDevices
    <2>1. /\ cards' = cards /\ cards # <<>> /\ at' = "ask" /\ dev' = 0
          /\ num' = host.num[Head(cards)] /\ num' \in 1 .. MaxDevices
      BY <1>3 DEF CountDevices, NumOk
    <2>2. num' \in 0 .. MaxDevices /\ dev' \in 0 .. num' /\ dev' < num'
      BY <2>1, QueriesAssumption
    <2>3. QED
      BY <1>0, <2>1, <2>2 DEF WalkInv
  <1>4. CASE SkipCard
    <2>1. cards # <<>> /\ cards' = Tail(cards) /\ at' = "count" /\ UNCHANGED <<num, dev>>
      BY <1>4 DEF SkipCard
    <2>2. cards' \in Seq(Nat) /\ ToSet(cards') \subseteq ToSet(cards)
      BY <2>1, FrontFacts DEF WalkInv
    <2>3. QED
      BY <1>0, <2>1, <2>2 DEF WalkInv
  <1>5. CASE AskLogicId \/ SkipDevice
    <2>1. at = "ask" /\ num' = num /\ NextDevice
      BY <1>5 DEF AskLogicId, SkipDevice
    <2>2. QED
      BY <1>0, <2>1, WalkNext
  <1>6. CASE AskName \/ AskProduct \/ CreateVDevice
    BY <1>0, <1>6, WalkKept DEF AskName, AskProduct, CreateVDevice
  <1>7. CASE SearchEnds
    BY <1>0, <1>7, WalkKept DEF SearchEnds
  <1>8. CASE QueryFails
    BY <1>0, <1>8, WalkKept DEF QueryFails, Errs
  <1>9. CASE Close
    <2>1. UNCHANGED <<cards, num, dev>> /\ at' \in {"manager", "open", "error"}
      BY <1>9 DEF Close
    <2>2. QED
      BY <1>0, <2>1, WalkKept
  <1>10. CASE AddManagerDevice
    <2>1. UNCHANGED <<cards, num, dev>> /\ at' \in {"ready", "error"}
      BY <1>10 DEF AddManagerDevice
    <2>2. QED
      BY <1>0, <2>1, WalkKept
  <1>11. CASE StartDestroy \/ DestroyHook
    <2>1. UNCHANGED <<cards, num, dev>> /\ at' # "ask"
      BY <1>11 DEF StartDestroy, DestroyHook, CheckArgs, LoadForDestroy, Destroy, DestroyFails
    <2>2. QED
      BY <1>0, <2>1, WalkKept
  <1>12. CASE UNCHANGED vars
    BY <1>12, WalkKept DEF vars
  <1>13. QED
    BY <1>1, <1>2, <1>3, <1>4, <1>5, <1>6, <1>7, <1>8, <1>9, <1>10, <1>11, <1>12
    DEF Next, Runtime


-----------------------------------------------------------------------------

\* The runtime's places.
Running == Asked \cup {"open", "manager", "ready", "error"}

\* A step that finds no chip, splits off nothing and enters no new program.
LEMMA OwnKept ==
  ASSUME OwnInv, host' = host, UNCHANGED <<found, vnpu, hook>>,
         faults' = faults \/ CallFails,
         at' \in {"args", "load", "destroy"} => vnpu # None,
         at' \in Running => at \in Running,
         at' \notin {"open", "error"} => host.lib <= RuntimeLimit
  PROVE  OwnInv'
  <1>1. Walked' = Walked
    BY DEF Walked, Devices
  <1>2. faults' \in 0 .. MaxFaults
    BY QueriesAssumption DEF OwnInv, CallFails
  <1>3. QED
    BY <1>1, <1>2 DEF OwnInv, Running

\* Each step keeps what is known of the chip found and the vNPU.
LEMMA OwnStep == IInv /\ WalkInv /\ OwnInv /\ [Next]_vars => OwnInv'
  <1> SUFFICES ASSUME IInv, WalkInv, OwnInv, [Next]_vars PROVE OwnInv'
    OBVIOUS
  <1> USE DEF GoTo, search, answers
  <1>0. host' = host /\ host \in Hosts /\ Walked' = Walked
    BY SameHost DEF IInv, Walked, Devices
  <1>1. CASE Open
    <2>1. /\ UNCHANGED <<found, vnpu, hook, faults>> /\ at = "open"
          /\ at' \in {"logic", "list"} /\ host.lib <= RuntimeLimit
      BY <1>1 DEF Open
    <2>2. QED
      BY <1>0, <2>1, OwnKept DEF Running, Asked
  <1>2. CASE OpenFails
    BY <1>0, <1>2, OwnKept DEF OpenFails, Running
  <1>3. CASE LogicOfPhysical
    BY <1>0, <1>3 DEF LogicOfPhysical, OwnInv, Asked
  <1>4. CASE ListCards \/ CountDevices \/ SkipCard
    <2>1. /\ UNCHANGED <<found, vnpu, hook>> /\ at \in {"list", "count"}
          /\ at' \in {"count", "ask"} /\ (faults' = faults \/ CallFails)
      BY <1>4 DEF ListCards, CountDevices, SkipCard
    <2>2. QED
      BY <1>0, <2>1, OwnKept DEF OwnInv, Running, Asked
  <1>5. CASE AskLogicId
    <2>1. /\ UNCHANGED <<vnpu, hook, faults>> /\ at = "ask" /\ at' \in {"ask", "count"}
          /\ found' \in {This, found}
      BY <1>5 DEF AskLogicId, NextDevice
    <2>2. This \in Walked
      BY <1>0, <2>1, ThisWalked
    <2>3. QED
      BY <1>0, <2>1, <2>2 DEF OwnInv, Asked
  <1>6. CASE AskName \/ AskProduct
    BY <1>0, <1>6, OwnKept DEF AskName, AskProduct, OwnInv, Running, Asked
  <1>7. CASE SkipDevice
    <2>1. /\ UNCHANGED <<found, vnpu, hook>> /\ at = "ask" /\ at' \in {"ask", "count"}
          /\ (faults' = faults \/ CallFails)
      BY <1>7 DEF SkipDevice, NextDevice
    <2>2. QED
      BY <1>0, <2>1, OwnKept DEF OwnInv, Running, Asked
  <1>8. CASE SearchEnds
    <2>1. /\ UNCHANGED <<found, vnpu, hook, faults>> /\ at = "count"
          /\ at' \in {"create", "close"}
      BY <1>8 DEF SearchEnds
    <2>2. QED
      BY <1>0, <2>1, OwnKept DEF OwnInv, Running, Asked
  <1>9. CASE CreateVDevice
    <2>1. /\ found' = found /\ faults' = faults /\ at = "create" /\ at' = "close"
          /\ found \in Devices /\ vnpu' = found
      BY <1>9 DEF CreateVDevice
    <2>2. found # NotFound /\ found # None
      BY <1>0, <2>1, HostAssumption DEF Devices
    <2>3. QED
      BY <1>0, <2>1, <2>2 DEF OwnInv, Asked
  <1>10. CASE QueryFails
    <2>1. /\ UNCHANGED <<found, vnpu, hook>> /\ at' = "error"
          /\ (faults' = faults \/ CallFails)
      BY <1>10 DEF QueryFails, Errs
    <2>2. at \in Running
      BY <1>10 DEF QueryFails, QueryErrs, Vital, Running, Asked
    <2>3. QED
      BY <1>0, <2>1, <2>2, OwnKept
  <1>11. CASE Close
    <2>1. /\ UNCHANGED <<found, vnpu, hook, faults>> /\ at = "close"
          /\ at' \in {"manager", "open", "error"}
      BY <1>11 DEF Close
    <2>2. QED
      BY <1>0, <2>1, OwnKept DEF OwnInv, Running, Asked
  <1>12. CASE AddManagerDevice
    <2>1. /\ UNCHANGED <<found, vnpu, hook, faults>> /\ at = "manager"
          /\ at' \in {"ready", "error"}
      BY <1>12 DEF AddManagerDevice
    <2>2. QED
      BY <1>0, <2>1, OwnKept DEF OwnInv, Running, Asked
  <1>13. CASE StartDestroy
    <2>1. /\ UNCHANGED <<found, vnpu, hook, faults>> /\ at = "ready"
          /\ at' = "args" /\ hook # None
      BY <1>13 DEF StartDestroy
    <2>2. vnpu # None
      BY <2>1 DEF OwnInv
    <2>3. QED
      BY <1>0, <2>1, <2>2, OwnKept DEF OwnInv, Running, Asked
  <1>14. CASE CheckArgs \/ LoadForDestroy
    <2>1. /\ UNCHANGED <<found, vnpu, hook, faults>> /\ at \in {"args", "load"}
          /\ at' \in {"load", "destroy", "refused"}
      BY <1>14 DEF CheckArgs, LoadForDestroy
    <2>2. QED
      BY <1>0, <2>1, OwnKept DEF OwnInv, Running, Asked
  <1>15. CASE Destroy
    <2>1. /\ UNCHANGED <<found, hook, faults>> /\ at = "destroy"
          /\ at' \in {"destroyed", "refused"} /\ vnpu' \in {vnpu, None}
      BY <1>15 DEF Destroy
    <2>2. QED
      BY <1>0, <2>1 DEF OwnInv, Asked
  <1>16. CASE DestroyFails
    <2>1. /\ UNCHANGED <<found, vnpu, hook>> /\ at \in {"load", "destroy"}
          /\ at' = "refused" /\ CallFails
      BY <1>16 DEF DestroyFails
    <2>2. QED
      BY <1>0, <2>1, OwnKept DEF OwnInv, Running, Asked
  <1>17. CASE UNCHANGED vars
    BY <1>17, OwnKept DEF vars, OwnInv
  <1>18. QED
    BY <1>1, <1>2, <1>3, <1>4, <1>5, <1>6, <1>7, <1>8, <1>9, <1>10, <1>11, <1>12, <1>13,
       <1>14, <1>15, <1>16, <1>17
    DEF Next, Runtime, DestroyHook


-----------------------------------------------------------------------------

\* The library is open while the driver is asked, and closed again by a
\* question that comes to its end.
OpensInv ==
  /\ at \in Running \cup {"args", "load", "destroy", "destroyed", "refused"}
  /\ opens \in IF at \in Asked \cup {"destroy"} THEN {1}
               ELSE IF at \in {"error", "refused"} THEN {0, 1} ELSE {0}

\* Each step keeps the library open exactly as long as it is used.
LEMMA OpensStep == OpensInv /\ [Next]_vars => OpensInv'
  <1> SUFFICES ASSUME OpensInv, [Next]_vars PROVE OpensInv'
    OBVIOUS
  <1> USE DEF GoTo, search, answers, OpensInv, Running, Asked
  <1>1. CASE Open
    <2>1. at = "open" /\ opens' = opens + 1 /\ at' \in {"logic", "list"}
      BY <1>1 DEF Open
    <2>2. QED
      BY <2>1
  <1>2. CASE OpenFails
    BY <1>2 DEF OpenFails
  <1>3. CASE LogicOfPhysical \/ ListCards \/ CountDevices \/ SkipCard
    <2>1. at \in Asked /\ at' \in Asked /\ opens' = opens
      BY <1>3 DEF LogicOfPhysical, ListCards, CountDevices, SkipCard
    <2>2. QED
      BY <2>1
  <1>4. CASE AskLogicId \/ SkipDevice
    <2>1. at \in Asked /\ at' \in Asked /\ opens' = opens
      BY <1>4 DEF AskLogicId, SkipDevice, NextDevice
    <2>2. QED
      BY <2>1
  <1>5. CASE AskName \/ AskProduct \/ CreateVDevice \/ SearchEnds
    <2>1. at \in Asked /\ at' \in Asked /\ opens' = opens
      BY <1>5 DEF AskName, AskProduct, CreateVDevice, SearchEnds
    <2>2. QED
      BY <2>1
  <1>6. CASE QueryFails
    <2>1. at \in Asked
      BY <1>6 DEF QueryFails, QueryErrs, Vital
    <2>2. at' = "error" /\ opens' = opens - 1
      BY <1>6 DEF QueryFails, Errs
    <2>3. QED
      BY <2>1, <2>2
  <1>7. CASE Close
    <2>1. at = "close" /\ opens' = opens - 1 /\ at' \in {"manager", "open", "error"}
      BY <1>7 DEF Close
    <2>2. QED
      BY <2>1
  <1>8. CASE AddManagerDevice
    <2>1. at = "manager" /\ opens' = opens /\ at' \in {"ready", "error"}
      BY <1>8 DEF AddManagerDevice
    <2>2. QED
      BY <2>1
  <1>9. CASE StartDestroy
    BY <1>9 DEF StartDestroy
  <1>10. CASE CheckArgs
    <2>1. at = "args" /\ opens' = opens /\ at' \in {"load", "refused"}
      BY <1>10 DEF CheckArgs
    <2>2. QED
      BY <2>1
  <1>11. CASE LoadForDestroy
    <2>1. opens' = 1 /\ at' \in {"destroy", "refused"}
      BY <1>11 DEF LoadForDestroy
    <2>2. QED
      BY <2>1
  <1>12. CASE Destroy
    <2>1. opens' = 0 /\ at' \in {"destroyed", "refused"}
      BY <1>12 DEF Destroy
    <2>2. QED
      BY <2>1
  <1>13. CASE DestroyFails
    <2>1. at \in {"load", "destroy"} /\ opens' = opens /\ at' = "refused"
      BY <1>13 DEF DestroyFails
    <2>2. QED
      BY <2>1
  <1>14. CASE UNCHANGED vars
    BY <1>14 DEF vars
  <1>15. QED
    BY <1>1, <1>2, <1>3, <1>4, <1>5, <1>6, <1>7, <1>8, <1>9, <1>10, <1>11, <1>12, <1>13, <1>14
    DEF Next, Runtime, DestroyHook

-----------------------------------------------------------------------------

\* No question for a name comes to its end, and the plan does not shrink.
LEMMA AnswerKept ==
  ASSUME AnswerInv, host' = host, UNCHANGED <<plan, name, product>>,
         at' = "close" => at = "close" \/ ~ Naming
  PROVE  AnswerInv'
  <1>1. Answered' <=> Answered
    BY DEF Answered, Devices
  <1>2. Naming' <=> Naming
    BY DEF Naming, Asking
  <1>3. QED
    BY <1>1, <1>2 DEF AnswerInv

\* Each step keeps the name and the product true to the host.
LEMMA AnswerStep == IInv /\ PlanInv /\ WalkInv /\ AnswerInv /\ [Next]_vars => AnswerInv'
  <1> SUFFICES ASSUME IInv, PlanInv, WalkInv, AnswerInv, [Next]_vars PROVE AnswerInv'
    OBVIOUS
  <1> USE DEF GoTo, search, answers
  <1>0. host' = host /\ host \in Hosts /\ Devices' = Devices
    BY SameHost DEF IInv, Devices
  <1>1. CASE Open
    <2>1. UNCHANGED <<plan, name, product>> /\ at' \in {"logic", "list"}
      BY <1>1 DEF Open
    <2>2. QED
      BY <1>0, <2>1, AnswerKept
  <1>2. CASE OpenFails \/ LogicOfPhysical \/ ListCards \/ CountDevices
    BY <1>0, <1>2, AnswerKept DEF OpenFails, LogicOfPhysical, ListCards, CountDevices
  <1>3. CASE SkipCard
    BY <1>0, <1>3, AnswerKept DEF SkipCard
  <1>4. CASE AskLogicId \/ SkipDevice
    <2>1. UNCHANGED <<plan, name, product>> /\ at' \in {"ask", "count"}
      BY <1>4 DEF AskLogicId, SkipDevice, NextDevice
    <2>2. QED
      BY <1>0, <2>1, AnswerKept
  <1>5. CASE AskName
    <2>1. /\ at = "ask" /\ name' = host.name[This] /\ host.name[This] # {"blank"}
          /\ UNCHANGED <<plan, product>>
      BY <1>5 DEF AskName
    <2>2. This \in Devices
      BY <1>0, <2>1, ThisWalked DEF Walked
    <2>3. Answered'
      BY <1>0, <2>1, <2>2 DEF Answered
    <2>4. QED
      BY <1>0, <2>1, <2>3 DEF AnswerInv
  <1>6. CASE AskProduct
    <2>1. /\ product' = IF host.atlas200 THEN "Atlas 200" ELSE "not support"
          /\ UNCHANGED <<plan, name>> /\ ~ Naming
      BY <1>6 DEF AskProduct, Naming, Asking
    <2>2. (Answered' <=> Answered) /\ ~ Naming'
      BY <1>0, <2>1 DEF Answered, Naming, Asking
    <2>3. QED
      BY <1>0, <2>1, <2>2 DEF AnswerInv
  <1>7. CASE SearchEnds
    <2>1. UNCHANGED <<plan, name>> /\ ~ Naming /\ product' \in {"", product}
      BY <1>7 DEF SearchEnds, Naming, Asking
    <2>2. (Answered' <=> Answered) /\ ~ Naming'
      BY <1>0, <2>1 DEF Answered, Naming, Asking
    <2>3. QED
      BY <1>0, <2>1, <2>2 DEF AnswerInv
  <1>8. CASE CreateVDevice
    <2>1. UNCHANGED <<plan, name, product>> /\ at = "create"
      BY <1>8 DEF CreateVDevice
    <2>2. ~ Naming
      BY <2>1 DEF PlanInv, Naming, Asking
    <2>3. QED
      BY <1>0, <2>1, <2>2, AnswerKept
  <1>9. CASE QueryFails
    BY <1>0, <1>9, AnswerKept DEF QueryFails, Errs
  <1>10. CASE Close
    <2> DEFINE rest == Tail(plan)
               done == rest = <<>> \/ (rest = <<"product">> /\ "310B" \in name)
    <2>1. /\ at = "close" /\ at' # "close" /\ UNCHANGED <<name, product>>
          /\ plan' = IF done THEN <<>> ELSE rest
      BY <1>10 DEF Close
    <2>2. plan \in Plans /\ plan # <<>>
      BY <2>1 DEF PlanInv, Asked
    <2>3. (rest = <<"product">> => Head(plan) = "name") /\ (rest = <<>> => plan = <<"product">>)
      BY <2>2, PlanTails
    <2> HIDE DEF rest
    <2>4. rest \in {<<"product">>, <<>>} => Answered
      BY <2>1, <2>2, <2>3 DEF AnswerInv, Naming, Asking
    <2>5. plan' \in {<<"product">>, <<>>} => Answered
      BY <2>1, <2>4
    <2>6. Answered' <=> Answered
      BY <1>0, <2>1 DEF Answered
    <2>7. QED
      BY <1>0, <2>1, <2>5, <2>6 DEF AnswerInv
  <1>11. CASE AddManagerDevice
    <2>1. UNCHANGED <<plan, name, product>> /\ at' \in {"ready", "error"}
      BY <1>11 DEF AddManagerDevice
    <2>2. QED
      BY <1>0, <2>1, AnswerKept
  <1>12. CASE StartDestroy \/ DestroyHook
    <2>1. UNCHANGED <<plan, name, product>> /\ at' # "close"
      BY <1>12 DEF StartDestroy, DestroyHook, CheckArgs, LoadForDestroy, Destroy, DestroyFails
    <2>2. QED
      BY <1>0, <2>1, AnswerKept
  <1>13. CASE UNCHANGED vars
    BY <1>13, AnswerKept DEF vars
  <1>14. QED
    BY <1>1, <1>2, <1>3, <1>4, <1>5, <1>6, <1>7, <1>8, <1>9, <1>10, <1>11, <1>12, <1>13
    DEF Next, Runtime


-----------------------------------------------------------------------------

\* The nodes added are those the host needs, if they are there or the
\* product is known: all its chips are of one kind.
LEMMA NodesRight ==
  ASSUME host \in Hosts, Answered, AddManagerDevice,
         product \in {"", IF host.atlas200 THEN "Atlas 200" ELSE "not support"},
         nodes' \subseteq host.nodes \/ product # "" \/ "310B" \in name
  PROVE  nodes' = NeededNodes
  <1>1. PICK cd \in Devices : name = host.name[cd] /\ name # {"blank"}
    BY DEF Answered
  <1>2. CASE "310B" \in name
    <2>1. DeviceType(name) = "Ascend310B"
      BY <1>2 DEF DeviceType
    <2>2. nodes' = Nodes310B
      BY <2>1 DEF AddManagerDevice
    <2>3. QED
      BY <1>1, <1>2, <2>2 DEF NeededNodes
  <1>3. CASE "310B" \notin name
    <2>1. DeviceType(name) # "Ascend310B"
      BY <1>3 DEF DeviceType
    <2>2. nodes' = WantedNodes
      BY <2>1 DEF AddManagerDevice
    <2>3. ASSUME NEW other \in Devices PROVE "310B" \notin host.name[other]
      <3>1. cd \in DOMAIN host.logic /\ other \in DOMAIN host.logic
        BY <1>1 DEF Devices
      <3>2. host.name[cd] = host.name[other] \/ host.name[other] = {"blank"}
        BY <1>1, <3>1, HostAssumption
      <3>3. CASE host.name[other] = {"blank"}
        <4>1. "310B" \notin {"blank"}
          OBVIOUS
        <4>2. QED
          BY <3>3, <4>1
      <3>4. CASE host.name[cd] = host.name[other]
        BY <1>1, <1>3, <3>4
      <3>5. QED
        BY <3>2, <3>3, <3>4
    <2>4. NeededNodes = {"davinci_manager"} \cup (IF host.atlas200 THEN {} ELSE {"common"})
      BY <2>3 DEF NeededNodes
    <2>5. CASE product = ""
      <3>1. "common" \in nodes'
        BY <2>2, <2>5 DEF WantedNodes
      <3>2. "common" \in host.nodes
        BY <1>3, <2>5, <3>1
      <3>3. ~ host.atlas200
        BY <3>2, HostAssumption
      <3>4. QED
        BY <2>2, <2>4, <2>5, <3>3 DEF WantedNodes
    <2>6. CASE product # ""
      <3>1. product = "Atlas 200" <=> host.atlas200
        BY <2>6
      <3>2. QED
        BY <2>2, <2>4, <3>1 DEF WantedNodes
    <2>7. QED
      BY <2>5, <2>6
  <1>4. QED
    BY <1>2, <1>3

\* The container gets ready only with the right manager devices.
LEMMA ManagerStep ==
  IInv /\ PlanInv /\ AnswerInv /\ ManagerDevicesRight /\ [Next]_vars => ManagerDevicesRight'
  <1> SUFFICES ASSUME IInv, PlanInv, AnswerInv, ManagerDevicesRight, [Next]_vars, at' = "ready"
               PROVE  nodes' = NeededNodes'
    BY DEF ManagerDevicesRight
  <1>0. host \in Hosts /\ host' = host /\ NeededNodes' = NeededNodes
    BY SameHost DEF IInv, NeededNodes, Devices, Nodes310B, Managers310B
  <1> USE DEF GoTo, search, answers
  <1>1. CASE AddManagerDevice
    <2>1. nodes' \subseteq host.nodes /\ at = "manager"
      BY <1>1 DEF AddManagerDevice
    <2>2. Answered /\ product \in {"", IF host.atlas200 THEN "Atlas 200" ELSE "not support"}
      BY <2>1 DEF PlanInv, AnswerInv
    <2>3. QED
      BY <1>0, <1>1, <2>1, <2>2, NodesRight
  <1>2. CASE UNCHANGED vars
    BY <1>0, <1>2 DEF vars, ManagerDevicesRight
  <1>3. CASE Open \/ OpenFails \/ LogicOfPhysical \/ ListCards \/ CountDevices \/ SkipCard
    <2>1. at' # "ready"
      BY <1>3 DEF Open, OpenFails, LogicOfPhysical, ListCards, CountDevices, SkipCard
    <2>2. QED
      BY <2>1
  <1>4. CASE AskLogicId \/ SkipDevice
    <2>1. at' # "ready"
      BY <1>4 DEF AskLogicId, SkipDevice, NextDevice
    <2>2. QED
      BY <2>1
  <1>5. CASE AskName \/ AskProduct \/ SearchEnds \/ CreateVDevice \/ QueryFails \/ Close
    <2>1. at' # "ready"
      BY <1>5 DEF AskName, AskProduct, SearchEnds, CreateVDevice, QueryFails, Errs, Close
    <2>2. QED
      BY <2>1
  <1>6. CASE StartDestroy \/ DestroyHook
    <2>1. at' # "ready"
      BY <1>6 DEF StartDestroy, DestroyHook, CheckArgs, LoadForDestroy, Destroy, DestroyFails
    <2>2. QED
      BY <2>1
  <1>7. QED
    BY <1>1, <1>2, <1>3, <1>4, <1>5, <1>6 DEF Next, Runtime

\* destroy refuses a vNPU of the runtime only for its ids or its library.
LEMMA DestroyStep ==
  IInv /\ OwnInv /\ DestroyedOrCause /\ [Next]_vars => DestroyedOrCause'
  <1> SUFFICES ASSUME IInv, OwnInv, DestroyedOrCause, [Next]_vars PROVE DestroyedOrCause'
    OBVIOUS
  <1>0. host \in Hosts /\ host' = host
    BY SameHost DEF IInv
  <1>1. ASSUME vnpu # None
        PROVE  /\ vnpu = <<vnpu[1], vnpu[2]>> /\ vnpu[1] \in Nat /\ vnpu[2] \in 0 .. IdMax
               /\ hook.card = vnpu[1] /\ hook.dev = vnpu[2]
    <2>1. vnpu \in Walked /\ hook = [card |-> vnpu[1], dev |-> vnpu[2]]
      BY <1>1 DEF OwnInv, IInv, VNpuOnAskedChip
    <2>2. vnpu \in Int \X Nat /\ vnpu[1] >= 0 /\ vnpu[2] < MaxDevices
      BY <1>0, <2>1, HostAssumption DEF Walked, Devices
    <2>3. QED
      BY <2>1, <2>2, QueriesAssumption
  <1> USE DEF GoTo, search, answers
  <1>2. CASE CheckArgs
    <2>1. /\ at = "args" /\ vnpu' = vnpu
          /\ at' = IF hook.card \in 0 .. IdMax /\ hook.dev \in 0 .. IdMax THEN "load" ELSE "refused"
      BY <1>2 DEF CheckArgs
    <2>2. vnpu # None
      BY <2>1 DEF OwnInv
    <2>3. at' = "load" \/ (at' = "refused" /\ vnpu[1] > IdMax)
      BY <1>1, <2>1, <2>2, QueriesAssumption
    <2>4. QED
      BY <2>1, <2>3 DEF DestroyedOrCause
  <1>3. CASE LoadForDestroy
    <2>1. at = "load" /\ at' = IF host.lib < DestroyLimit THEN "destroy" ELSE "refused"
      BY <1>3 DEF LoadForDestroy
    <2>2. host.lib \in Nat /\ host.lib <= RuntimeLimit
      BY <1>0, <2>1, HostAssumption DEF OwnInv
    <2>3. at' = "destroy" \/ (at' = "refused" /\ host.lib \in DestroyLimit .. RuntimeLimit)
      BY <2>1, <2>2, QueriesAssumption
    <2>4. QED
      BY <1>0, <2>3 DEF DestroyedOrCause
  <1>4. CASE Destroy
    <2>1. /\ at = "destroy"
          /\ at' = IF vnpu = <<hook.card, hook.dev>> THEN "destroyed" ELSE "refused"
          /\ vnpu' = IF vnpu = <<hook.card, hook.dev>> THEN None ELSE vnpu
      BY <1>4 DEF Destroy
    <2>2. vnpu = <<hook.card, hook.dev>>
      BY <1>1, <2>1 DEF OwnInv
    <2>3. QED
      BY <2>1, <2>2 DEF DestroyedOrCause
  <1>5. CASE DestroyFails
    <2>1. at' = "refused" /\ faults' = faults + 1 /\ faults \in 0 .. MaxFaults
      BY <1>5 DEF DestroyFails, CallFails, OwnInv
    <2>2. faults' # 0
      BY <2>1, QueriesAssumption
    <2>3. QED
      BY <2>1, <2>2 DEF DestroyedOrCause
  <1>6. CASE UNCHANGED vars
    BY <1>6 DEF vars, DestroyedOrCause
  <1>7. CASE Open \/ OpenFails \/ LogicOfPhysical \/ ListCards \/ CountDevices \/ SkipCard
    <2>1. at' \notin {"destroyed", "refused"}
      BY <1>7 DEF Open, OpenFails, LogicOfPhysical, ListCards, CountDevices, SkipCard
    <2>2. QED
      BY <2>1 DEF DestroyedOrCause
  <1>8. CASE AskLogicId \/ SkipDevice
    <2>1. at' \notin {"destroyed", "refused"}
      BY <1>8 DEF AskLogicId, SkipDevice, NextDevice
    <2>2. QED
      BY <2>1 DEF DestroyedOrCause
  <1>9. CASE AskName \/ AskProduct \/ SearchEnds \/ CreateVDevice
    <2>1. at' \notin {"destroyed", "refused"}
      BY <1>9 DEF AskName, AskProduct, SearchEnds, CreateVDevice
    <2>2. QED
      BY <2>1 DEF DestroyedOrCause
  <1>10. CASE QueryFails \/ Close \/ AddManagerDevice \/ StartDestroy
    <2>1. at' \notin {"destroyed", "refused"}
      BY <1>10 DEF QueryFails, Errs, Close, AddManagerDevice, StartDestroy
    <2>2. QED
      BY <2>1 DEF DestroyedOrCause
  <1>11. QED
    BY <1>2, <1>3, <1>4, <1>5, <1>6, <1>7, <1>8, <1>9, <1>10 DEF Next, Runtime, DestroyHook


-----------------------------------------------------------------------------
(* The walks of a healthy host.                                            *)

\* What Healthy says of the place a walk is at.
LEMMA HealthyPlace ==
  ASSUME host \in Hosts, Healthy, WalkInv
  PROVE  /\ cards # <<>> => NumOk
         /\ at = "ask" => This \in Devices /\ LogicIdOk /\ host.name[This] # {"blank"}
  <1>1. ASSUME cards # <<>> PROVE NumOk
    <2>1. Head(cards) \in ToSet(host.cards)
      BY <1>1, FrontFacts DEF WalkInv
    <2>2. PICK i \in DOMAIN host.cards : host.cards[i] = Head(cards)
      BY <2>1 DEF ToSet
    <2>3. QED
      BY <2>2 DEF Healthy, NumOk
  <1>2. ASSUME at = "ask"
        PROVE  This \in Devices /\ LogicIdOk /\ host.name[This] # {"blank"}
    <2>1. This \in Devices
      BY <1>2, ThisWalked DEF Walked
    <2>2. QED
      BY <2>1 DEF Healthy, LogicIdOk
  <1>3. QED
    BY <1>1, <1>2

\* A chip that is asked for has a logic id within FindDevice's limit.
LEMMA HealthyLogic ==
  ASSUME host \in Hosts, Healthy, ask.split
  PROVE  LogicOk /\ Chips # {}
  <1>1. PICK cd \in Chips : TRUE
    BY DEF Healthy
  <1>2. host.logicOf[ask.phys] \in 0 .. MaxLogic
    BY <1>1 DEF Chips, Healthy
  <1> DEFINE all == MaxCards * MaxDevices
  <1>3. all \in Int /\ MaxLogic \in Nat /\ MaxLogic < all
    BY QueriesAssumption
  <1> HIDE DEF all
  <1>4. host.logicOf[ask.phys] \in 0 .. (all - 1)
    BY <1>2, <1>3
  <1>5. QED
    BY <1>1, <1>4 DEF LogicOk, all

\* The card list of a healthy host has all its cards.
LEMMA HealthyList ==
  ASSUME host \in Hosts, Healthy, ListCards
  PROVE  cards' # <<>> /\ ToSet(host.cards) \subseteq ToSet(cards')
  <1>1. host.cards \in Seq(Int) /\ Len(host.cards) \in 1 .. MaxCards /\ MaxCards \in Nat
    BY HostAssumption, QueriesAssumption DEF Healthy
  <1>2. DOMAIN host.cards = 1 .. Len(host.cards)
    BY <1>1
  <1>3. Listed = DOMAIN host.cards
    BY DEF Listed, Healthy
  <1>4. ToSet(host.cards) \subseteq ToSet(cards')
    BY <1>3, ListFacts DEF ToSet
  <1>5. 1 \in DOMAIN host.cards
    BY <1>1, <1>2
  <1>6. host.cards[1] \in ToSet(cards')
    BY <1>4, <1>5 DEF ToSet
  <1>7. ToSet(<<>>) = {}
    BY DEF ToSet
  <1>8. QED
    BY <1>4, <1>6, <1>7

\* A step within the walk for a chip: what was ahead is found, or still ahead.
LEMMA SearchMoves ==
  ASSUME host \in Hosts, TargetInv, WalkInv, AskLogicId, NEW cd \in Chips, Ahead(cd)
  PROVE  found' # NotFound \/ Ahead(cd)'
  <1> USE DEF GoTo
  <1>1. at = "ask" /\ Asking("find") /\ NextDevice
        /\ found' = IF host.logic[This] = target THEN This ELSE found
    BY DEF AskLogicId
  <1>2. cards \in Seq(Nat) /\ cards # <<>> /\ dev \in Nat /\ num \in Nat
        /\ num = host.num[Head(cards)]
    BY <1>1, QueriesAssumption DEF WalkInv
  <1>3. cd \in Devices /\ host.logic[cd] = target
    BY <1>1 DEF Chips, TargetInv
  <1>4. cd = <<cd[1], cd[2]>> /\ cd[2] \in Nat /\ cd[2] < host.num[cd[1]]
    BY <1>3, HostAssumption DEF Devices
  <1>5. This # NotFound
    <2>1. This \in Devices
      BY <1>1, ThisWalked DEF Walked
    <2>2. QED
      BY <2>1, HostAssumption DEF Devices
  <1>6. cd[1] \in ToSet(Tail(cards)) \/ (cd[1] = Head(cards) /\ dev <= cd[2])
    BY <1>1 DEF Ahead
  <1>7. CASE cd[1] \in ToSet(Tail(cards))
    <2>1. (cards' = cards /\ at' = "ask") \/ (cards' = Tail(cards) /\ at' = "count")
      BY <1>1 DEF NextDevice
    <2>2. QED
      BY <1>7, <2>1 DEF Ahead
  <1>8. CASE cd[1] = Head(cards) /\ dev = cd[2]
    <2>1. cd = This
      BY <1>4, <1>8 DEF This
    <2>2. QED
      BY <1>1, <1>3, <1>5, <2>1
  <1>9. CASE cd[1] = Head(cards) /\ dev < cd[2]
    <2>1. dev + 1 < num /\ dev + 1 <= cd[2]
      BY <1>2, <1>4, <1>9
    <2>2. dev' = dev + 1 /\ cards' = cards /\ at' = "ask"
      BY <1>1, <2>1 DEF NextDevice
    <2>3. QED
      BY <1>9, <2>1, <2>2 DEF Ahead
  <1>10. QED
    BY <1>2, <1>4, <1>6, <1>7, <1>8, <1>9

\* No answer of a healthy host is an error.
LEMMA NoQueryErrs ==
  ASSUME host \in Hosts, Healthy, PlanInv, WalkInv, OwnInv, Successful, QueryErrs
  PROVE  FALSE
  <1>1. CASE at = "logic" /\ ~ LogicOk
    <2>1. ask.split
      BY <1>1, PlanHeads DEF PlanInv
    <2>2. QED
      BY <1>1, <2>1, HealthyLogic
  <1>2. CASE at = "list" /\ Len(host.cards) \notin 1 .. MaxCards
    BY <1>2 DEF Healthy
  <1>3. CASE at = "count" /\ Asking("find") /\ cards # <<>> /\ ~ NumOk
    BY <1>3, HealthyPlace
  <1>4. CASE at = "count" /\ Naming /\ cards = <<>>
    BY <1>4 DEF Successful, Naming, Asking
  <1>5. CASE at = "ask" /\ Asking("find") /\ ~ LogicIdOk
    BY <1>5, HealthyPlace
  <1>6. CASE at = "create" /\ found \notin Devices
    BY <1>6 DEF Successful, OwnInv, Walked
  <1>7. QED
    BY <1>1, <1>2, <1>3, <1>4, <1>5, <1>6 DEF QueryErrs

\* A step to a place where nothing is asked for.
LEMMA SuccessKept ==
  ASSUME Successful, UNCHANGED <<plan, name, product>>,
         at' \notin {"error", "count", "ask", "create"},
         at' = "close" => ~ Asking("product") \/ product # ""
  PROVE  Successful'
  <1>1. Asking("product")' <=> Asking("product")
    BY DEF Asking
  <1>2. QED
    BY <1>1 DEF Successful


\* A chip's type is read from the marks in its name.
LEMMA TypeOfMarks == \A t \in Types : DeviceType(Marks[t]) = t
  <1>1. DeviceType(Marks.Ascend310B) = "Ascend310B"
    BY DEF DeviceType, Marks
  <1>2. DeviceType(Marks.Ascend310P) = "Ascend310P"
    BY DEF DeviceType, Marks
  <1>3. DeviceType(Marks.Ascend310) = "Ascend310"
    BY DEF DeviceType, Marks
  <1>4. DeviceType(Marks.Ascend910) = "Ascend910"
    BY DEF DeviceType, Marks
  <1>5. QED
    BY <1>1, <1>2, <1>3, <1>4 DEF Types

\* On a healthy host the name matches the type in the list.
LEMMA HealthyMatch ==
  ASSUME Healthy, ask \in Asks, PlanInv, Answered, Asking("match")
  PROVE  DeviceType(name) = ask.type
  <1>1. ask.type # None
    BY PlanHeads DEF PlanInv
  <1>2. PICK cd \in Devices : name = host.name[cd]
    BY DEF Answered
  <1>3. name = Marks[ask.type]
    BY <1>1, <1>2 DEF Healthy
  <1>4. ask.type \in Types
    BY <1>1, QueriesAssumption
  <1>5. QED
    BY <1>3, <1>4, TypeOfMarks

\* Without a failing call each step of a healthy host succeeds.
LEMMA HealthyStep ==
  IInv /\ SessionInv /\ HealthyInv /\ [Next]_vars => HealthyInv'
  <1> SUFFICES ASSUME IInv, SessionInv, HealthyInv, [Next]_vars, Healthy', faults' = 0
               PROVE  Successful'
    BY DEF HealthyInv
  <1>d. PlanInv /\ WalkInv /\ OwnInv /\ AnswerInv
    BY DEF SessionInv
  <1> USE DEF GoTo, search, answers
  <1>0. host \in Hosts /\ host' = host /\ ask' = ask
    BY SameHost DEF IInv
  <1>a. Devices' = Devices /\ Chips' = Chips
    BY <1>0 DEF Devices, Chips
  <1>b. Healthy /\ (NeededNodes \subseteq host.nodes)
    <2>1. NeededNodes' = NeededNodes
      BY <1>0, <1>a DEF NeededNodes, Nodes310B, Managers310B
    <2>2. QED
      BY <1>0, <1>a, <2>1 DEF Healthy
  <1>c. ~ CallFails
    BY <1>d, QueriesAssumption DEF OwnInv, CallFails
  <1>1. CASE Open
    <2>1. at = "open" /\ at' \in {"logic", "list"} /\ UNCHANGED <<plan, name, product, faults>>
      BY <1>1 DEF Open
    <2>2. Successful
      BY <1>b, <2>1 DEF HealthyInv
    <2>3. QED
      BY <2>1, <2>2, SuccessKept
  <1>2. CASE OpenFails
    <2>1. host.lib > RuntimeLimit
      BY <1>c, <1>2 DEF OpenFails
    <2>2. host.lib <= RuntimeLimit /\ host.lib \in Nat
      BY <1>0, <1>b, HostAssumption DEF Healthy
    <2>3. QED
      BY <2>1, <2>2, QueriesAssumption
  <1>3. CASE LogicOfPhysical
    <2>1. at' = "list" /\ UNCHANGED <<plan, name, product, faults>>
      BY <1>3 DEF LogicOfPhysical
    <2>2. Successful
      BY <1>b, <2>1 DEF HealthyInv
    <2>3. QED
      BY <2>1, <2>2, SuccessKept
  <1>4. CASE ListCards
    <2>1. at = "list" /\ at' = "count" /\ plan' = plan /\ plan # <<>>
      BY <1>d, <1>4 DEF ListCards, PlanInv, Asked
    <2>2. cards' # <<>> /\ ToSet(host.cards) \subseteq ToSet(cards')
      BY <1>0, <1>b, <1>4, HealthyList
    <2>3. \A cd \in Chips : cd[1] \in ToSet(cards')
      BY <2>2 DEF Chips, Devices
    <2>4. QED
      BY <1>a, <2>1, <2>2, <2>3 DEF Successful, Ahead
  <1>5. CASE CountDevices
    <2>1. /\ at = "count" /\ at' = "ask" /\ UNCHANGED <<plan, cards, found, faults>>
          /\ cards # <<>> /\ dev' = 0 /\ plan # <<>>
      BY <1>d, <1>5 DEF CountDevices, PlanInv, Asked
    <2>2. Successful
      BY <1>b, <2>1 DEF HealthyInv
    <2>3. ASSUME Asking("find"), NEW cd \in Chips
          PROVE  found' # NotFound \/ Ahead(cd)'
      <3>1. found # NotFound \/ cd[1] \in ToSet(cards)
        BY <2>1, <2>2, <2>3 DEF Successful, Ahead
      <3>2. ToSet(cards) = {Head(cards)} \cup ToSet(Tail(cards))
        BY <1>d, <2>1, FrontFacts DEF WalkInv
      <3>3. cd[2] \in Nat
        BY <1>0, HostAssumption DEF Chips, Devices
      <3>4. QED
        BY <2>1, <3>1, <3>2, <3>3 DEF Ahead
    <2>4. Asking("find")' <=> Asking("find")
      BY <2>1 DEF Asking
    <2>5. QED
      BY <1>a, <2>1, <2>3, <2>4 DEF Successful
  <1>6. CASE SkipCard
    <2>1. NumOk
      BY <1>d, <1>0, <1>b, <1>6, HealthyPlace DEF SkipCard
    <2>2. QED
      BY <1>c, <1>6, <2>1 DEF SkipCard
  <1>7. CASE AskLogicId
    <2>1. /\ at = "ask" /\ Asking("find") /\ UNCHANGED <<plan, faults>> /\ at' \in {"ask", "count"}
          /\ plan # <<>>
      BY <1>7 DEF AskLogicId, NextDevice, Asking
    <2>2. Successful
      BY <1>b, <2>1 DEF HealthyInv
    <2>3. ASSUME NEW cd \in Chips
          PROVE  found' # NotFound \/ Ahead(cd)'
      <3>1. CASE found # NotFound
        <4>1. This # NotFound
          BY <1>d, <1>0, <2>1, ThisWalked, HostAssumption DEF Walked, Devices
        <4>2. QED
          BY <1>7, <3>1, <4>1 DEF AskLogicId
      <3>2. CASE Ahead(cd)
        BY <1>d, <1>0, <1>7, <3>2, SearchMoves DEF IInv
      <3>3. QED
        BY <2>1, <2>2, <3>1, <3>2 DEF Successful
    <2>4. Asking("find")'
      BY <2>1 DEF Asking
    <2>5. QED
      BY <1>a, <2>1, <2>3, <2>4 DEF Successful
  <1>8. CASE AskName
    <2>1. at' = "close" /\ plan' = plan /\ plan # <<>> /\ ~ Asking("product")
      BY <1>8 DEF AskName, Naming, Asking
    <2>2. ~ Asking("product")'
      BY <2>1 DEF Asking
    <2>3. QED
      BY <2>1, <2>2 DEF Successful
  <1>9. CASE AskProduct
    <2>1. at' = "close" /\ plan' = plan /\ plan # <<>> /\ product' # ""
      BY <1>9 DEF AskProduct, Asking
    <2>2. QED
      BY <2>1 DEF Successful
  <1>10. CASE SkipDevice
    <2>1. host.name[This] # {"blank"}
      BY <1>d, <1>0, <1>b, <1>10, HealthyPlace DEF SkipDevice
    <2>2. QED
      BY <1>c, <1>10, <2>1 DEF SkipDevice
  <1>11. CASE SearchEnds
    <2>1. /\ at = "count" /\ cards = <<>> /\ UNCHANGED <<plan, found, faults>> /\ plan # <<>>
          /\ at' = IF Asking("find") THEN "create" ELSE "close"
      BY <1>d, <1>11 DEF SearchEnds, PlanInv, Asked
    <2>2. Successful
      BY <1>b, <2>1 DEF HealthyInv
    <2>3. Asking("find")
      BY <2>1, <2>2 DEF Successful
    <2>4. PICK cd \in Chips : TRUE
      BY <1>d, <1>0, <1>b, <2>3, HealthyLogic, PlanHeads DEF PlanInv
    <2>5. found # NotFound \/ cd[1] \in ToSet(cards)
      BY <2>1, <2>2, <2>3 DEF Successful, Ahead
    <2>6. ToSet(cards) = {}
      BY <2>1 DEF ToSet
    <2>7. QED
      BY <2>1, <2>3, <2>5, <2>6 DEF Successful
  <1>12. CASE CreateVDevice
    <2>1. /\ at = "create" /\ at' = "close" /\ UNCHANGED <<plan, name, product, faults>>
      BY <1>12 DEF CreateVDevice
    <2>2. ~ Asking("product") /\ Successful
      BY <1>d, <1>b, <2>1 DEF PlanInv, Asking, HealthyInv
    <2>3. QED
      BY <2>1, <2>2, SuccessKept
  <1>13. CASE QueryFails
    <2>1. QueryErrs /\ faults' = faults
      BY <1>c, <1>13 DEF QueryFails
    <2>2. Successful
      BY <1>b, <2>1 DEF HealthyInv
    <2>3. QED
      BY <1>d, <1>0, <1>b, <2>1, <2>2, NoQueryErrs
  <1>14. CASE Close
    <2> DEFINE rest == Tail(plan)
               done == rest = <<>> \/ (rest = <<"product">> /\ "310B" \in name)
    <2>0. ~ (Asking("match") /\ DeviceType(name) # ask.type)
      <3>1. Asking("match") => Answered
        BY <1>d, <1>14 DEF Close, AnswerInv, Naming
      <3>2. QED
        BY <1>d, <1>b, <3>1, HealthyMatch DEF IInv
    <2>1. /\ at = "close" /\ UNCHANGED <<name, product, faults>>
          /\ plan' = IF done THEN <<>> ELSE rest
          /\ at' \in {"manager", "open"}
      BY <2>0, <1>14 DEF Close
    <2>2. plan \in Plans /\ plan # <<>> /\ Successful
      BY <1>d, <1>b, <2>1 DEF PlanInv, Asked, HealthyInv
    <2>3. rest = <<>> => Asking("product")
      BY <2>2, PlanTails, PlanHeads
    <2> HIDE DEF rest
    <2>4. plan' = <<>> => product # "" \/ "310B" \in name
      BY <2>1, <2>2, <2>3 DEF Successful
    <2>5. QED
      BY <2>1, <2>4 DEF Successful
  <1>15. CASE AddManagerDevice
    <2>1. /\ at = "manager" /\ at' = IF nodes' \subseteq host.nodes THEN "ready" ELSE "error"
          /\ UNCHANGED <<plan, name, product, faults>>
      BY <1>15 DEF AddManagerDevice
    <2>2. Successful /\ plan = <<>>
      BY <1>d, <1>b, <2>1 DEF HealthyInv, PlanInv
    <2>3. product # "" \/ "310B" \in name
      BY <2>2 DEF Successful
    <2>4. Answered /\ product \in {"", IF host.atlas200 THEN "Atlas 200" ELSE "not support"}
      BY <1>d, <2>2 DEF AnswerInv
    <2>5. nodes' = NeededNodes
      BY <1>0, <1>15, <2>3, <2>4, NodesRight
    <2>6. at' = "ready"
      BY <1>b, <2>1, <2>5
    <2>7. QED
      BY <2>1, <2>2, <2>6, SuccessKept
  <1>16. CASE StartDestroy \/ DestroyHook
    <2>1. /\ at' \in {"args", "load", "destroy", "destroyed", "refused"}
          /\ UNCHANGED <<plan, name, product>> /\ (faults' = faults \/ CallFails)
      BY <1>16 DEF StartDestroy, DestroyHook, CheckArgs, LoadForDestroy, Destroy, DestroyFails
    <2>2. Successful
      BY <1>b, <1>c, <2>1 DEF HealthyInv
    <2>3. QED
      BY <2>1, <2>2, SuccessKept
  <1>17. CASE UNCHANGED vars
    <2>1. Successful
      BY <1>b, <1>17 DEF HealthyInv, vars
    <2>2. UNCHANGED <<plan, at, cards, dev, found, name, product>>
      BY <1>17 DEF vars
    <2>3. (Asking("find")' <=> Asking("find")) /\ (Asking("product")' <=> Asking("product"))
      BY <2>2 DEF Asking
    <2>4. \A cd \in Chips : Ahead(cd)' <=> Ahead(cd)
      BY <2>2 DEF Ahead
    <2>5. QED
      BY <1>a, <2>1, <2>2, <2>3, <2>4 DEF Successful
  <1>18. QED
    BY <1>1, <1>2, <1>3, <1>4, <1>5, <1>6, <1>7, <1>8, <1>9, <1>10, <1>11, <1>12, <1>13,
       <1>14, <1>15, <1>16, <1>17
    DEF Next, Runtime

-----------------------------------------------------------------------------

QInv ==
  IInv /\ SessionInv /\ OpensInv /\ HealthyInv /\ ManagerDevicesRight /\ DestroyedOrCause

\* All parts together hold in every reachable state.
THEOREM SessionInvariance == Spec => []QInv
  <1>1. Init => QInv
    <2> SUFFICES ASSUME Init PROVE QInv
      OBVIOUS
    <2>1. IInv /\ SessionInv
      BY InitInv, InitSession DEF SessionInv
    <2>2. at = "open" /\ opens = 0 /\ plan # <<>>
      BY <2>1 DEF Init, SessionInv, PlanInv
    <2>3. QED
      BY <2>1, <2>2 DEF QInv, OpensInv, Running, Asked, HealthyInv, Successful,
        ManagerDevicesRight, DestroyedOrCause
  <1>2. QInv /\ [Next]_vars => QInv'
    <2> SUFFICES ASSUME QInv, [Next]_vars PROVE QInv'
      OBVIOUS
    <2>1. IInv /\ PlanInv /\ WalkInv /\ OwnInv /\ AnswerInv
      BY DEF QInv, SessionInv
    <2>2. SessionInv'
      BY <2>1, PlanStep, WalkStep, OwnStep, AnswerStep DEF SessionInv, IInv
    <2>3. IInv' /\ OpensInv'
      BY StepInv, OpensStep DEF QInv
    <2>4. HealthyInv' /\ ManagerDevicesRight' /\ DestroyedOrCause'
      BY <2>1, HealthyStep, ManagerStep, DestroyStep DEF QInv
    <2>5. QED
      BY <2>2, <2>3, <2>4 DEF QInv
  <1>3. QED
    BY <1>1, <1>2, PTL DEF Spec

\* The walks stay within the lists and counts of the driver, the library is
\* open while it is used and closed by a question that ends, and what a walk
\* has found is a device of the host (GetCardList, GetDeviceNumInCard,
\* Initialize, ShutDown).
THEOREM SessionTypes == Spec => []TypeOK
  <1>1. QInv => TypeOK
    <2> SUFFICES ASSUME QInv PROVE TypeOK
      OBVIOUS
    <2>1. PlanInv /\ WalkInv /\ OwnInv /\ OpensInv
      BY DEF QInv, SessionInv
    <2>2. ToSet(plan) \subseteq {"match", "find", "name", "product"}
      BY <2>1, PlanNames DEF PlanInv
    <2>3. \A i \in DOMAIN cards : cards[i] >= 0
      BY <2>1 DEF WalkInv
    <2>4. found \in DOMAIN host.logic \cup {NotFound} /\ vnpu \in DOMAIN host.logic \cup {None}
      BY <2>1 DEF OwnInv, Walked, Devices
    <2>5. /\ at \in {"open", "logic", "list", "count", "ask", "create", "close", "manager",
                     "ready", "error", "args", "load", "destroy", "destroyed", "refused"}
          /\ opens \in IF at \in {"logic", "list", "count", "ask", "create", "close", "destroy"}
                       THEN {1} ELSE IF at \in {"error", "refused"} THEN {0, 1} ELSE {0}
      BY <2>1 DEF OpensInv, Running, Asked
    <2>6. QED
      BY <2>1, <2>2, <2>3, <2>4, <2>5 DEF TypeOK, WalkInv, OwnInv
  <1>2. QED
    BY <1>1, SessionInvariance, PTL

\* A container that starts has the manager devices of its kind of host,
\* whatever names and products could not be read (addManagerDevice).
THEOREM ManagerAlwaysRight == Spec => []ManagerDevicesRight
  <1>1. QInv => ManagerDevicesRight
    BY DEF QInv
  <1>2. QED
    BY <1>1, SessionInvariance, PTL

\* On a healthy host of any size, in any order of cards, a session fails only
\* because a call did (FindDevice, GetChipName, GetProductType).
THEOREM ErrorAlwaysHasCause == Spec => []ErrorHasCause
  <1>1. QInv => ErrorHasCause
    BY DEF QInv, HealthyInv, Successful, ErrorHasCause
  <1>2. QED
    BY <1>1, SessionInvariance, PTL

\* destroy gives the vNPU back unless a call fails, an id is above its range
\* or the library is one that only the runtime takes.
THEOREM AlwaysDestroyedOrCause == Spec => []DestroyedOrCause
  <1>1. QInv => DestroyedOrCause
    BY DEF QInv
  <1>2. QED
    BY <1>1, SessionInvariance, PTL
=============================================================================
