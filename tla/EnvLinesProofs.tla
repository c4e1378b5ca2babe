--------------------------- MODULE EnvLinesProofs ---------------------------
(***************************************************************************)
(* What the operators of EnvLines compute, for environments of any length  *)
(* and any words: the lookups by the positions they stop at (Lookups), the *)
(* loops over the list of devices by the ids in it (ListedIds, RemovedIds, *)
(* CountsAsOne), and how the lookups' answers change as sessions edit the  *)
(* environment (Edited).                                                   *)
(***************************************************************************)
EXTENDS EnvLines, FiniteSetTheorems, WellFoundedInduction, TLAPS

-----------------------------------------------------------------------------
(* Positions.                                                              *)

\* A set of positions that is not empty has a first one.
LEMMA FirstPosition ==
  ASSUME NEW n \in Nat, NEW M, M \subseteq 1 .. n, M # {}
  PROVE  \E k \in M : \A j \in M : k <= j
<1> DEFINE UpTo(k) == {j \in M : j <= k}
           Ups == {UpTo(k) : k \in M}
           R == StrictSubsetOrdering(1 .. n)
<1>1. IsWellFoundedOn(R, SUBSET (1 .. n))
  <2>1. IsFiniteSet(1 .. n)
    BY FS_Interval
  <2> QED BY <2>1, FS_StrictSubsetOrderingWellFounded, FS_FiniteSubsetsOfFinite, Zenon
<1>2. Ups \subseteq SUBSET (1 .. n) /\ Ups # {}
  OBVIOUS
<1>3. \E U \in Ups : \A V \in Ups : ~ (<<V, U>> \in R)
  <2>1. ASSUME NEW Q, NEW All, NEW T, IsWellFoundedOn(Q, All), T \subseteq All, T # {}
        PROVE  \E U \in T : \A V \in T : ~ (<<V, U>> \in Q)
    BY <2>1, WFMin
  <2> QED BY <1>1, <1>2, <2>1
<1>4. PICK k \in M : \A V \in Ups : ~ (<<V, UpTo(k)>> \in R)
  BY <1>3
<1>5. ASSUME NEW j \in M, ~ (k <= j) PROVE FALSE
  <2>1. j \in Nat /\ k \in Nat /\ j < k
    BY <1>5
  <2>2. UpTo(j) \subseteq UpTo(k) /\ k \in UpTo(k) /\ k \notin UpTo(j)
    <3>1. ASSUME NEW i \in M, i <= j PROVE i <= k
      BY <2>1, <3>1
    <3>2. k <= k /\ ~ (k <= j)
      BY <2>1
    <3> QED BY <2>1, <3>1, <3>2
  <2>3. <<UpTo(j), UpTo(k)>> \in R
    BY <2>2 DEF StrictSubsetOrdering
  <2> QED BY <1>4, <2>3
<1> QED BY <1>5

LEMMA Ends ==
  ASSUME NEW n \in Nat, NEW M, M \subseteq 1 .. n, M # {}
  PROVE  /\ Min(M) \in M /\ \A j \in M : Min(M) <= j
         /\ Max(M) \in M /\ \A j \in M : j <= Max(M)
<1>1. \E k \in M : \A j \in M : k <= j
  BY FirstPosition
<1>2. \E k \in M : \A j \in M : k >= j
  <2> DEFINE R == {n + 1 - j : j \in M}
  <2>1. R \subseteq 1 .. n /\ R # {}
    <3>1. \A j \in M : n + 1 - j \in 1 .. n
      OBVIOUS
    <3> QED BY <3>1
  <2> HIDE DEF R
  <2>2. PICK r \in R : \A j \in R : r <= j
    BY <2>1, FirstPosition
  <2>3. PICK k \in M : r = n + 1 - k
    BY DEF R
  <2>4. ASSUME NEW j \in M PROVE k >= j
    <3>1. r <= n + 1 - j
      BY <2>2 DEF R
    <3>2. k \in Nat /\ j \in Nat
      OBVIOUS
    <3> QED BY <2>3, <3>1, <3>2
  <2> QED BY <2>4
<1>3. Min(M) \in M /\ \A j \in M : Min(M) <= j
  BY <1>1 DEF Min
<1>4. Max(M) \in M /\ \A j \in M : Max(M) >= j
  BY <1>2 DEF Max
<1>5. \A j \in M : j \in Nat
  OBVIOUS
<1> QED BY <1>3, <1>4, <1>5

-----------------------------------------------------------------------------
(* What the lookups look at: the positions of lines.                       *)

First(M) == IF M # {} THEN Min(M) ELSE 0
Final(M) == IF M # {} THEN Max(M) ELSE 0

Stops(env, key) == {i \in 1 .. Len(env) : Malformed(env[i]) \/ Named(env[i], key)}
ChipStops(env) ==
  {i \in 1 .. Len(env) :
     Malformed(env[i]) \/ (Named(env[i], "VISIBLE") /\ NamesChips(env[i].val))}
Places(env, key) == {i \in 1 .. Len(env) : Named(env[i], key)}
Pairs(env, key) == {i \in 1 .. Len(env) : Pair(env[i], key)}

LEMMA FirstIn ==
  ASSUME NEW n \in Nat, NEW M, M \subseteq 1 .. n
  PROVE  /\ M = {} => First(M) = 0 /\ Final(M) = 0
         /\ M # {} => /\ First(M) \in M /\ \A j \in M : First(M) <= j
                      /\ Final(M) \in M /\ \A j \in M : j <= Final(M)
BY Ends DEF First, Final

LEMMA Lookups ==
  ASSUME NEW env
  PROVE  /\ \A key : /\ GetValueByKey(env, key) = ValueAt(env, First(Stops(env, key)))
                     /\ HookPanics(env, key) <=> /\ First(Stops(env, key)) # 0
                                                 /\ Malformed(env[First(Stops(env, key))])
         /\ GetValueByDeviceKey(env) =
              ValueAt(env, IF First(ChipStops(env)) # 0 THEN First(ChipStops(env))
                           ELSE Final(Places(env, "VISIBLE")))
         /\ ExtractVpuParam(env) =
              LET i == First(Pairs(env, "SPECS"))
              IN  CASE i = 0 -> "none"
                    [] i # 0 /\ env[i].val \in {<<Word(t)>> : t \in Templates} -> "allowed"
                    [] OTHER -> "unknown"
<1>1. ASSUME NEW key PROVE GetValueByKey(env, key) = ValueAt(env, First(Stops(env, key)))
  BY DEF GetValueByKey, SelectInSeq, First, Stops
<1>2. ASSUME NEW key
      PROVE  HookPanics(env, key) <=> /\ First(Stops(env, key)) # 0
                                      /\ Malformed(env[First(Stops(env, key))])
  BY Zenon DEF HookPanics, SelectInSeq, First, Stops
<1>3. GetValueByDeviceKey(env) =
        ValueAt(env, IF First(ChipStops(env)) # 0 THEN First(ChipStops(env))
                     ELSE Final(Places(env, "VISIBLE")))
  BY DEF GetValueByDeviceKey, SelectInSeq, SelectLastInSeq, First, Final, ChipStops, Places
<1>4. ExtractVpuParam(env) =
              LET i == First(Pairs(env, "SPECS"))
              IN  CASE i = 0 -> "none"
                    [] i # 0 /\ env[i].val \in {<<Word(t)>> : t \in Templates} -> "allowed"
                    [] OTHER -> "unknown"
  BY DEF ExtractVpuParam, SelectInSeq, First, Pairs
<1> QED BY <1>1, <1>2, <1>3, <1>4

\* Sequences of one more element.
LEMMA Singleton ==
  ASSUME NEW S, NEW e \in S
  PROVE  <<e>> \in Seq(S) /\ Len(<<e>>) = 1 /\ 1 \in DOMAIN <<e>> /\ <<e>>[1] = e
OBVIOUS

LEMMA Appended ==
  ASSUME NEW S, NEW s \in Seq(S), NEW e \in S
  PROVE  /\ Append(s, e) \in Seq(S) /\ Len(Append(s, e)) = Len(s) + 1 /\ Len(s) \in Nat
         /\ DOMAIN Append(s, e) = 1 .. Len(s) + 1
         /\ Append(s, e)[Len(s) + 1] = e
         /\ \A i \in 1 .. Len(s) : Append(s, e)[i] = s[i]
OBVIOUS

\* A well-formed line behind the others does not change what they say.
LEMMA AppendLookups ==
  ASSUME NEW env \in Seq(Lines), NEW l \in Lines, ~ Malformed(l), NEW key
  PROVE  /\ l.key # key => GetValueByKey(Append(env, l), key) = GetValueByKey(env, key)
         /\ l.key # "SPECS" => ExtractVpuParam(Append(env, l)) = ExtractVpuParam(env)
<1> DEFINE new == Append(env, l)
<1>1. /\ Len(env) \in Nat /\ Len(new) = Len(env) + 1
      /\ \A i \in 1 .. Len(env) : new[i] = env[i]
      /\ new[Len(env) + 1] = l
  OBVIOUS
<1>2. \A i : i \in 1 .. Len(new) <=> i \in 1 .. Len(env) \/ i = Len(env) + 1
  BY <1>1
<1> HIDE DEF new
<1>3. ASSUME l.key # key PROVE GetValueByKey(new, key) = GetValueByKey(env, key)
  <2>1. Stops(new, key) = Stops(env, key)
    BY <1>1, <1>2, <1>3 DEF Stops, Named
  <2>2. First(Stops(env, key)) = 0 \/ First(Stops(env, key)) \in 1 .. Len(env)
    BY <1>1, FirstIn DEF Stops
  <2>3. ValueAt(new, First(Stops(env, key))) = ValueAt(env, First(Stops(env, key)))
    BY <1>1, <2>2 DEF ValueAt
  <2> QED BY <2>1, <2>3, Lookups
<1>4. ASSUME l.key # "SPECS" PROVE ExtractVpuParam(new) = ExtractVpuParam(env)
  <2>1. Pairs(new, "SPECS") = Pairs(env, "SPECS")
    BY <1>1, <1>2, <1>4 DEF Pairs, Pair
  <2>2. First(Pairs(env, "SPECS")) = 0 \/ First(Pairs(env, "SPECS")) \in 1 .. Len(env)
    BY <1>1, FirstIn DEF Pairs
  <2>3. ExtractVpuParam(new) =
              LET i == First(Pairs(new, "SPECS"))
              IN  CASE i = 0 -> "none"
                    [] i # 0 /\ new[i].val \in {<<Word(t)>> : t \in Templates} -> "allowed"
                    [] OTHER -> "unknown"
    BY Lookups
  <2>4. ExtractVpuParam(env) =
              LET i == First(Pairs(env, "SPECS"))
              IN  CASE i = 0 -> "none"
                    [] i # 0 /\ env[i].val \in {<<Word(t)>> : t \in Templates} -> "allowed"
                    [] OTHER -> "unknown"
    BY Lookups
  <2>5. First(Pairs(env, "SPECS")) # 0 =>
          new[First(Pairs(env, "SPECS"))] = env[First(Pairs(env, "SPECS"))]
    BY <1>1, <2>2
  <2> QED BY <2>1, <2>3, <2>4, <2>5
<1> QED BY <1>3, <1>4 DEF new

\* What a lookup finds is a list of items.
LEMMA DeviceValue ==
  ASSUME NEW env \in Seq(Lines)
  PROVE  GetValueByDeviceKey(env) \in Seq(Item)
<1> DEFINE i == IF First(ChipStops(env)) # 0 THEN First(ChipStops(env))
                ELSE Final(Places(env, "VISIBLE"))
<1>1. i = 0 \/ i \in 1 .. Len(env)
  <2>1. /\ ChipStops(env) \subseteq 1 .. Len(env) /\ Places(env, "VISIBLE") \subseteq 1 .. Len(env)
        /\ Len(env) \in Nat
    BY DEF ChipStops, Places
  <2> QED BY <2>1, FirstIn
<1>2. GetValueByDeviceKey(env) = ValueAt(env, i)
  BY Lookups
<1> HIDE DEF i
<1>3. i # 0 => env[i] \in Lines
  BY <1>1
<1>4. i # 0 => env[i].val \in Seq(Item)
  BY <1>3 DEF Lines
<1>5. <<>> \in Seq(Item)
  OBVIOUS
<1> QED BY <1>2, <1>4, <1>5 DEF ValueAt

-----------------------------------------------------------------------------
(* What the loops over a list compute, place by place.                     *)

\* Induction up to n, with the statement as a set.
LEMMA CountUp ==
  ASSUME NEW n \in Nat, NEW T, 0 \in T, \A k \in 1 .. n : k - 1 \in T => k \in T
  PROVE  0 .. n \subseteq T
<1> SUFFICES ASSUME NEW m \in 0 .. n, m \notin T PROVE FALSE
  OBVIOUS
<1> DEFINE M == {k \in 1 .. n : k \notin T}
<1>1. m \in M /\ M \subseteq 1 .. n
  <2>1. m # 0
    OBVIOUS
  <2> QED BY <2>1
<1>2. PICK k \in M : \A j \in M : k <= j
  BY <1>1, FirstPosition
<1>3. k \in 1 .. n /\ k - 1 \notin T
  OBVIOUS
<1>4. k - 1 \in M
  <2>1. k - 1 # 0
    BY <1>3
  <2> QED BY <1>3, <2>1
<1>5. k <= k - 1
  BY <1>2, <1>4
<1> QED BY <1>3, <1>5

\* A loop of n turns has a result after each.
Turns(n, S) == [1 .. n -> [S -> S]]
Results(n, S, start, Turn) ==
  {f \in [0 .. n -> S] : f[0] = start /\ \A k \in 1 .. n : f[k] = Turn[k][f[k - 1]]}

LEMMA Loop ==
  ASSUME NEW n \in Nat, NEW S, NEW start \in S, NEW Turn \in Turns(n, S)
  PROVE  Results(n, S, start, Turn) # {}
<1> USE DEF Turns
<1> DEFINE R(m) == Results(m, S, start, Turn)
           T == {m \in 0 .. n : R(m) # {}}
<1>1. 0 \in T
  <2> DEFINE f == [k \in 0 .. 0 |-> start]
  <2>1. f \in R(0)
    BY DEF Results
  <2> QED BY <2>1
<1>2. ASSUME NEW k \in 1 .. n, k - 1 \in T PROVE k \in T
  <2>1. PICK f \in [0 .. k - 1 -> S] :
          f[0] = start /\ \A i \in 1 .. k - 1 : f[i] = Turn[i][f[i - 1]]
    BY <1>2 DEF Results
  <2> DEFINE g == [i \in 0 .. k |-> IF i = k THEN Turn[k][f[k - 1]] ELSE f[i]]
  <2>2. k - 1 \in 0 .. k - 1 /\ f[k - 1] \in S
    BY <2>1
  <2>3. Turn[k][f[k - 1]] \in S
    BY <2>2
  <2>4. g \in [0 .. k -> S]
    <3>1. ASSUME NEW i \in 0 .. k, i # k PROVE f[i] \in S
      <4>1. i \in 0 .. k - 1
        BY <3>1
      <4> QED BY <2>1, <4>1
    <3> QED BY <2>3, <3>1
  <2>5. g[0] = start
    BY <2>1
  <2>6. ASSUME NEW i \in 1 .. k PROVE g[i] = Turn[i][g[i - 1]]
    <3>1. CASE i = k
      <4>1. g[i] = Turn[k][f[k - 1]] /\ g[k - 1] = f[k - 1]
        BY <3>1
      <4> QED BY <3>1, <4>1
    <3>2. CASE i # k
      <4>1. i \in 1 .. k - 1 /\ i - 1 # k /\ i - 1 \in 0 .. k /\ i \in 0 .. k
        BY <3>2
      <4>2. g[i] = f[i] /\ g[i - 1] = f[i - 1]
        BY <4>1
      <4> HIDE DEF g
      <4> QED BY <2>1, <4>1, <4>2
    <3> QED BY <3>1, <3>2
  <2> HIDE DEF g
  <2>7. g \in R(k)
    BY <2>4, <2>5, <2>6 DEF Results
  <2> QED BY <2>7
<1>3. n \in T
  <2>1. n \in 0 .. n
    OBVIOUS
  <2> HIDE DEF T
  <2>2. 0 .. n \subseteq T
    BY <1>1, <1>2, CountUp
  <2> QED BY <2>1, <2>2
<1> QED BY <1>3

\* The ids of one item.
Span(item) == [j \in 1 .. (item.hi - item.lo + 1) |-> item.lo + j - 1]

LEMMA SpanOf ==
  ASSUME NEW item, item.lo \in Nat, item.hi \in Nat, item.lo <= item.hi
  PROVE  Span(item) \in Seq(Nat) /\ ToSet(Span(item)) = item.lo .. item.hi
<1> DEFINE n == item.hi - item.lo + 1
<1>1. n \in Nat
  OBVIOUS
<1>2. \A j \in 1 .. n : item.lo + j - 1 \in Nat
  OBVIOUS
<1>3. Span(item) \in Seq(Nat) /\ DOMAIN Span(item) = 1 .. n
  <2>1. Span(item) = [j \in 1 .. n |-> item.lo + j - 1]
    BY DEF Span
  <2> HIDE DEF n
  <2> QED BY <1>1, <1>2, <2>1
<1>4. ASSUME NEW i \in item.lo .. item.hi
      PROVE  i - item.lo + 1 \in 1 .. n /\ Span(item)[i - item.lo + 1] = i
  <2>1. i - item.lo + 1 \in 1 .. n
    OBVIOUS
  <2>2. Span(item)[i - item.lo + 1] = item.lo + (i - item.lo + 1) - 1
    BY <2>1 DEF Span
  <2> QED BY <2>1, <2>2
<1>5. ASSUME NEW j \in 1 .. n PROVE Span(item)[j] \in item.lo .. item.hi
  BY DEF Span
<1> QED BY <1>3, <1>4, <1>5 DEF ToSet

LEMMA JoinedSet ==
  ASSUME NEW S, NEW s \in Seq(S), NEW t \in Seq(S)
  PROVE  s \o t \in Seq(S) /\ ToSet(s \o t) = ToSet(s) \cup ToSet(t)
<1>1. /\ s \o t \in Seq(S) /\ DOMAIN (s \o t) = 1 .. Len(s) + Len(t)
      /\ Len(s) \in Nat /\ Len(t) \in Nat /\ DOMAIN s = 1 .. Len(s) /\ DOMAIN t = 1 .. Len(t)
      /\ \A i \in 1 .. Len(s) + Len(t) :
            (s \o t)[i] = IF i <= Len(s) THEN s[i] ELSE t[i - Len(s)]
  OBVIOUS
<1> DEFINE u == s \o t
<1> HIDE DEF u
<1>2. \A i \in DOMAIN s : i \in DOMAIN u /\ u[i] = s[i]
  BY <1>1 DEF u
<1>3. ASSUME NEW i \in DOMAIN t PROVE i + Len(s) \in DOMAIN u /\ u[i + Len(s)] = t[i]
  <2>1. i + Len(s) \in 1 .. Len(s) + Len(t) /\ ~ (i + Len(s) <= Len(s)) /\ i + Len(s) - Len(s) = i
    BY <1>1
  <2> QED BY <1>1, <2>1 DEF u
<1>4. ASSUME NEW i \in DOMAIN u
      PROVE  \/ i \in DOMAIN s /\ u[i] = s[i]
             \/ i - Len(s) \in DOMAIN t /\ u[i] = t[i - Len(s)]
  <2>1. i \in 1 .. Len(s) + Len(t) /\ u[i] = IF i <= Len(s) THEN s[i] ELSE t[i - Len(s)]
    BY <1>1 DEF u
  <2>2. CASE i <= Len(s)
    <3>1. i \in 1 .. Len(s)
      BY <1>1, <2>1, <2>2
    <3> QED BY <1>1, <2>1, <2>2, <3>1
  <2>3. CASE ~ (i <= Len(s))
    <3>1. i - Len(s) \in 1 .. Len(t)
      BY <1>1, <2>1, <2>3
    <3> QED BY <1>1, <2>1, <2>3, <3>1
  <2> QED BY <2>2, <2>3
<1>5. ToSet(u) = ToSet(s) \cup ToSet(t)
  BY <1>2, <1>3, <1>4 DEF ToSet
<1> QED BY <1>1, <1>5 DEF u

\* Items that parse are not empty.
LEMMA ParsedItem ==
  ASSUME NEW val \in Seq(Item), Parses(val), NEW i \in DOMAIN val
  PROVE  val[i].lo \in Nat /\ val[i].hi \in Nat /\ val[i].lo <= val[i].hi
<1>1. val[i] \in Item
  OBVIOUS
<1>2. \/ val[i].kind = "chip" \/ val[i].kind = "id"
      \/ val[i].kind = "range" /\ val[i].lo <= val[i].hi
  BY DEF Parses
<1>3. val[i].kind # "word"
  BY <1>2
<1>4. \/ /\ val[i] \in [kind : {"range", "id"}, lo : Nat, hi : Nat]
         /\ val[i].kind = "id" => val[i].lo = val[i].hi
      \/ val[i] \in [kind : {"chip"}, type : Texts, lo : Nat, hi : Nat] /\ val[i].lo = val[i].hi
  BY <1>1, <1>3 DEF Item
<1> QED BY <1>2, <1>4

\* What a list names.
IdsIn(val) == UNION {val[i].lo .. val[i].hi : i \in DOMAIN val}

\* parseDevices and parseAscendDevices: the ids are those of the items.
LEMMA ListedIds ==
  ASSUME NEW val \in Seq(Item), Parses(val)
  PROVE  Listed(val) \in Seq(Nat) /\ ToSet(Listed(val)) = IdsIn(val)
<1> DEFINE N == Len(val)
           Turn == [k \in 1 .. N |-> [l \in Seq(Nat) |-> l \o Span(val[k])]]
           Rec(f) == [n \in 0 .. Len(val) |->
                        IF n = 0 THEN <<>>
                        ELSE f[n - 1] \o
                             [j \in 1 .. (val[n].hi - val[n].lo + 1) |-> val[n].lo + j - 1]]
<1>1. N \in Nat /\ DOMAIN val = 1 .. N
  OBVIOUS
<1>2. ASSUME NEW k \in 1 .. N
      PROVE  Span(val[k]) \in Seq(Nat) /\ ToSet(Span(val[k])) = val[k].lo .. val[k].hi
  BY <1>1, ParsedItem, SpanOf
<1>3. PICK f \in [0 .. N -> Seq(Nat)] : f[0] = <<>> /\ \A k \in 1 .. N : f[k] = Turn[k][f[k - 1]]
  <2>1. ASSUME NEW k \in 1 .. N, NEW l \in Seq(Nat) PROVE l \o Span(val[k]) \in Seq(Nat)
    BY <1>2
  <2>2. Turn \in Turns(N, Seq(Nat))
    BY <2>1 DEF Turns
  <2>3. <<>> \in Seq(Nat)
    OBVIOUS
  <2>4. N \in Nat
    BY <1>1
  <2> HIDE DEF Turn, N
  <2>5. Results(N, Seq(Nat), <<>>, Turn) # {}
    BY <2>2, <2>3, <2>4, Loop
  <2> QED BY <2>5 DEF Results
<1>4. f = Rec(f)
  <2>1. ASSUME NEW k \in 1 .. N PROVE f[k] = f[k - 1] \o Span(val[k])
    <3>1. f[k - 1] \in Seq(Nat)
      BY <1>1
    <3> QED BY <1>3, <3>1
  <2>2. ASSUME NEW k \in 0 .. N, k # 0
        PROVE  f[k] = f[k - 1] \o [j \in 1 .. (val[k].hi - val[k].lo + 1) |-> val[k].lo + j - 1]
    <3>1. k \in 1 .. N
      BY <1>1, <2>2
    <3> QED BY <2>1, <3>1 DEF Span
  <2> QED BY <1>3, <2>2
<1> DEFINE g == CHOOSE h : h = Rec(h)
<1>5. g = Rec(g)
  BY <1>4, Zenon
<1>6. Listed(val) = g[N]
  BY Zenon DEF Listed
<1> HIDE DEF g
<1>7. g[0] = <<>> /\ \A k \in 1 .. N : g[k] = g[k - 1] \o Span(val[k])
  <2>1. g[0] = <<>>
    BY <1>1, <1>5
  <2>2. ASSUME NEW k \in 1 .. N PROVE g[k] = g[k - 1] \o Span(val[k])
    <3>1. k \in 0 .. N /\ k # 0
      BY <1>1
    <3>2. g[k] = Rec(g)[k]
      BY <1>5, Zenon
    <3> QED BY <3>1, <3>2 DEF Span
  <2> QED BY <2>1, <2>2
<1> DEFINE Upto(k) == UNION {val[i].lo .. val[i].hi : i \in 1 .. k}
           T == {k \in 0 .. N : g[k] \in Seq(Nat) /\ ToSet(g[k]) = Upto(k)}
<1>8. 0 \in T
  <2>1. ToSet(<<>>) = {} /\ <<>> \in Seq(Nat) /\ 0 \in 0 .. N
    BY <1>1 DEF ToSet
  <2>2. Upto(0) = {}
    <3>1. 1 .. 0 = {}
      OBVIOUS
    <3> QED BY <3>1, Zenon
  <2>3. g[0] \in Seq(Nat) /\ ToSet(g[0]) = Upto(0)
    BY <1>7, <2>1, <2>2, Zenon
  <2> HIDE DEF Upto
  <2> QED BY <2>1, <2>3
<1>9. ASSUME NEW k \in 1 .. N, k - 1 \in T PROVE k \in T
  <2>1. g[k] = g[k - 1] \o Span(val[k]) /\ g[k - 1] \in Seq(Nat) /\ ToSet(g[k - 1]) = Upto(k - 1)
    BY <1>7, <1>9
  <2>2. g[k] \in Seq(Nat) /\ ToSet(g[k]) = Upto(k - 1) \cup (val[k].lo .. val[k].hi)
    <3> DEFINE l == g[k - 1]
               m == Span(val[k])
    <3>1. l \in Seq(Nat) /\ m \in Seq(Nat) /\ g[k] = l \o m
      BY <1>2, <2>1
    <3>2. ToSet(l) = Upto(k - 1) /\ ToSet(m) = val[k].lo .. val[k].hi
      BY <1>2, <2>1
    <3> HIDE DEF l, m, Upto
    <3>3. l \o m \in Seq(Nat) /\ ToSet(l \o m) = ToSet(l) \cup ToSet(m)
      BY <3>1, JoinedSet
    <3> QED BY <3>1, <3>2, <3>3
  <2>3. \A i : i \in 1 .. k <=> i \in 1 .. k - 1 \/ i = k
    OBVIOUS
  <2>4. Upto(k) = Upto(k - 1) \cup (val[k].lo .. val[k].hi)
    BY <2>3
  <2>5. k \in 0 .. N
    BY <1>1
  <2> QED BY <2>2, <2>4, <2>5
<1>10. N \in T
  <2>1. N \in 0 .. N
    BY <1>1
  <2> HIDE DEF T
  <2>2. 0 .. N \subseteq T
    BY <1>1, <1>8, <1>9, CountUp
  <2> QED BY <2>1, <2>2
<1> QED BY <1>1, <1>6, <1>10 DEF IdsIn

\* sort.Slice moves ids and loses none.
LEMMA SortedIds ==
  ASSUME NEW s \in Seq(Nat), NEW t \in SortSlice(s)
  PROVE  t \in Seq(Nat) /\ ToSet(t) = ToSet(s)
<1>1. CASE t = s
  BY <1>1
<1>2. CASE \E p \in Bijection(DOMAIN s, DOMAIN s) : t = [i \in DOMAIN s |-> s[p[i]]]
  <2>1. PICK p \in Bijection(DOMAIN s, DOMAIN s) : t = [i \in DOMAIN s |-> s[p[i]]]
    BY <1>2
  <2>2. p \in [DOMAIN s -> DOMAIN s] /\ \A w \in DOMAIN s : \E v \in DOMAIN s : p[v] = w
    BY DEF Bijection, Surjection
  <2>3. Len(s) \in Nat /\ DOMAIN s = 1 .. Len(s) /\ \A i \in DOMAIN s : s[i] \in Nat
    OBVIOUS
  <2>4. t \in Seq(Nat)
    <3>1. \A i \in 1 .. Len(s) : s[p[i]] \in Nat
      BY <2>2, <2>3
    <3>2. t = [i \in 1 .. Len(s) |-> s[p[i]]]
      BY <2>1, <2>3
    <3> QED BY <2>3, <3>1, <3>2
  <2>5. ToSet(t) = ToSet(s)
    BY <2>1, <2>2 DEF ToSet
  <2> QED BY <2>4, <2>5
<1> QED BY <1>1, <1>2 DEF SortSlice

\* removeDuplication: no id is lost, and no two neighbours are equal.
LEMMA RemovedIds ==
  ASSUME NEW s \in Seq(Nat)
  PROVE  LET r == RemoveDuplication(s)
         IN  /\ r \in Seq(Nat) /\ ToSet(r) = ToSet(s)
             /\ \A i \in 1 .. Len(r) - 1 : r[i] # r[i + 1]
<1> DEFINE N == Len(s)
           Kept(l, d) == IF l # <<>> /\ Last(l) = d THEN l ELSE Append(l, d)
           Turn == [k \in 1 .. N |-> [l \in Seq(Nat) |-> Kept(l, s[k])]]
           Rec(f) == [n \in 0 .. Len(s) |-> IF n = 0 THEN <<>> ELSE Kept(f[n - 1], s[n])]
<1>1. N \in Nat /\ DOMAIN s = 1 .. N /\ \A k \in 1 .. N : s[k] \in Nat
  OBVIOUS
<1>2. ASSUME NEW l \in Seq(Nat), NEW d \in Nat PROVE Kept(l, d) \in Seq(Nat)
  BY Appended
<1>3. PICK f \in [0 .. N -> Seq(Nat)] : f[0] = <<>> /\ \A k \in 1 .. N : f[k] = Turn[k][f[k - 1]]
  <2> HIDE DEF Kept
  <2>1. Turn \in Turns(N, Seq(Nat))
    BY <1>1, <1>2 DEF Turns
  <2>2. <<>> \in Seq(Nat)
    OBVIOUS
  <2>4. N \in Nat
    BY <1>1
  <2> HIDE DEF Turn, N
  <2>5. Results(N, Seq(Nat), <<>>, Turn) # {}
    BY <2>1, <2>2, <2>4, Loop
  <2> QED BY <2>5 DEF Results
<1>4. f = Rec(f)
  <2> HIDE DEF Kept
  <2>1. ASSUME NEW k \in 1 .. N PROVE f[k] = Kept(f[k - 1], s[k])
    <3>1. f[k - 1] \in Seq(Nat)
      BY <1>1
    <3> QED BY <1>3, <3>1
  <2>2. ASSUME NEW k \in 0 .. N, k # 0 PROVE f[k] = Kept(f[k - 1], s[k])
    <3>1. k \in 1 .. N
      BY <1>1, <2>2
    <3> QED BY <2>1, <3>1
  <2> QED BY <1>3, <2>2
<1> DEFINE g == CHOOSE h : h = Rec(h)
<1>5. g = Rec(g)
  BY <1>4, Zenon
<1>6. RemoveDuplication(s) = g[N]
  BY Zenon DEF RemoveDuplication
<1> HIDE DEF g
<1>7. g[0] = <<>> /\ \A k \in 1 .. N : g[k] = Kept(g[k - 1], s[k])
  <2> HIDE DEF Kept
  <2>1. g[0] = <<>>
    BY <1>1, <1>5
  <2>2. ASSUME NEW k \in 1 .. N PROVE g[k] = Kept(g[k - 1], s[k])
    <3>1. k \in 0 .. N /\ k # 0
      BY <1>1
    <3>2. g[k] = Rec(g)[k]
      BY <1>5, Zenon
    <3> QED BY <3>1, <3>2
  <2> QED BY <2>1, <2>2
<1> DEFINE Seen(k) == {s[i] : i \in 1 .. k}
           Distinct(l) == \A i \in 1 .. Len(l) - 1 : l[i] # l[i + 1]
           T == {k \in 0 .. N : g[k] \in Seq(Nat) /\ ToSet(g[k]) = Seen(k) /\ Distinct(g[k])}
<1>8. 0 \in T
  <2>1. ToSet(<<>>) = {} /\ Distinct(<<>>) /\ <<>> \in Seq(Nat) /\ 0 \in 0 .. N
    BY <1>1 DEF ToSet
  <2>2. Seen(0) = {}
    OBVIOUS
  <2> HIDE DEF Distinct, Seen
  <2>3. g[0] \in Seq(Nat) /\ ToSet(g[0]) = Seen(0) /\ Distinct(g[0])
    BY <1>7, <2>1, <2>2, Zenon
  <2> QED BY <2>1, <2>3
<1>9. ASSUME NEW l \in Seq(Nat), NEW d \in Nat, Distinct(l)
      PROVE  ToSet(Kept(l, d)) = ToSet(l) \cup {d} /\ Distinct(Kept(l, d))
  <2>1. CASE l # <<>> /\ Last(l) = d
    <3>1. Len(l) \in DOMAIN l
      BY <2>1
    <3>2. d \in ToSet(l)
      BY <2>1, <3>1 DEF ToSet, Last
    <3> QED BY <1>9, <2>1, <3>2
  <2>2. CASE ~ (l # <<>> /\ Last(l) = d)
    <3> DEFINE a == Append(l, d)
    <3>1. /\ a \in Seq(Nat) /\ Len(a) = Len(l) + 1 /\ Len(l) \in Nat /\ DOMAIN a = 1 .. Len(l) + 1
          /\ a[Len(l) + 1] = d /\ \A i \in 1 .. Len(l) : a[i] = l[i]
      BY Appended
    <3> HIDE DEF a
    <3>2. ToSet(a) = ToSet(l) \cup {d}
      <4>1. \A i : i \in DOMAIN a <=> i \in DOMAIN l \/ i = Len(l) + 1
        BY <3>1
      <4>2. ToSet(a) = {a[i] : i \in DOMAIN l} \cup {d}
        BY <3>1, <4>1 DEF ToSet
      <4>3. \A i \in DOMAIN l : a[i] = l[i]
        <5>1. DOMAIN l = 1 .. Len(l)
          OBVIOUS
        <5> QED BY <3>1, <5>1
      <4> QED BY <4>2, <4>3 DEF ToSet
    <3>3. ASSUME NEW i \in 1 .. Len(a) - 1 PROVE a[i] # a[i + 1]
      <4>1. CASE i = Len(l)
        <5>1. l # <<>> /\ a[i] = l[Len(l)] /\ a[i + 1] = d
          BY <3>1, <4>1
        <5> QED BY <2>2, <5>1 DEF Last
      <4>2. CASE i # Len(l)
        <5>1. i \in 1 .. Len(l) - 1 /\ i \in 1 .. Len(l) /\ i + 1 \in 1 .. Len(l)
          BY <3>1, <4>2
        <5> QED BY <1>9, <3>1, <5>1
      <4> QED BY <4>1, <4>2
    <3>4. Kept(l, d) = a
      BY <2>2 DEF a
    <3> HIDE DEF Kept
    <3> QED BY <3>2, <3>3, <3>4
  <2> QED BY <2>1, <2>2
<1>10. ASSUME NEW k \in 1 .. N, k - 1 \in T PROVE k \in T
  <2> HIDE DEF Kept
  <2>1. /\ g[k] = Kept(g[k - 1], s[k]) /\ g[k - 1] \in Seq(Nat) /\ ToSet(g[k - 1]) = Seen(k - 1)
        /\ Distinct(g[k - 1]) /\ s[k] \in Nat
    BY <1>1, <1>7, <1>10
  <2> HIDE DEF Distinct
  <2>2. g[k] \in Seq(Nat) /\ ToSet(g[k]) = Seen(k - 1) \cup {s[k]} /\ Distinct(g[k])
    <3> DEFINE l == g[k - 1]
               d == s[k]
    <3>1. l \in Seq(Nat) /\ d \in Nat /\ Distinct(l) /\ ToSet(l) = Seen(k - 1) /\ g[k] = Kept(l, d)
      BY <2>1
    <3> HIDE DEF l, d
    <3>2. Kept(l, d) \in Seq(Nat)
      BY <1>2, <3>1
    <3>3. ToSet(Kept(l, d)) = ToSet(l) \cup {d} /\ Distinct(Kept(l, d))
      BY <1>9, <3>1, Zenon
    <3> QED BY <3>1, <3>2, <3>3, Zenon DEF d
  <2>3. \A i : i \in 1 .. k <=> i \in 1 .. k - 1 \/ i = k
    OBVIOUS
  <2>4. Seen(k) = Seen(k - 1) \cup {s[k]}
    BY <2>3
  <2>5. k \in 0 .. N
    BY <1>1
  <2> QED BY <2>2, <2>4, <2>5
<1>11. N \in T
  <2>1. N \in 0 .. N
    BY <1>1
  <2> HIDE DEF T
  <2>2. 0 .. N \subseteq T
    BY <1>1, <1>8, <1>10, CountUp
  <2> QED BY <2>1, <2>2
<1>12. Seen(N) = ToSet(s)
  BY <1>1 DEF ToSet
<1> QED BY <1>6, <1>11, <1>12

\* So a list of one device, however often it is named, counts as one.
LEMMA CountsAsOne ==
  ASSUME NEW r \in Seq(Nat), \A i \in 1 .. Len(r) - 1 : r[i] # r[i + 1]
  PROVE  /\ (Len(r) = 1) <=> (Cardinality(ToSet(r)) = 1)
         /\ \A d : ToSet(r) = {d} => r = <<d>>
<1>1. Len(r) \in Nat /\ DOMAIN r = 1 .. Len(r)
  OBVIOUS
<1>2. ASSUME NEW d, ToSet(r) = {d} PROVE Len(r) = 1 /\ r = <<d>>
  <2>1. \A i \in 1 .. Len(r) : r[i] = d
    BY <1>1, <1>2 DEF ToSet
  <2>2. Len(r) # 0
    <3>1. PICK i \in DOMAIN r : r[i] = d
      BY <1>2 DEF ToSet
    <3> QED BY <1>1
  <2>3. ~ (Len(r) > 1)
    <3> SUFFICES ASSUME Len(r) > 1 PROVE FALSE
      OBVIOUS
    <3>1. 1 \in 1 .. Len(r) - 1 /\ 1 \in 1 .. Len(r) /\ 1 + 1 \in 1 .. Len(r)
      BY <1>1
    <3> QED BY <2>1, <3>1
  <2>4. Len(r) = 1 /\ r[1] = d
    BY <1>1, <2>1, <2>2, <2>3
  <2> QED BY <2>4
<1>3. ASSUME Len(r) = 1 PROVE ToSet(r) = {r[1]}
  BY <1>1, <1>3 DEF ToSet
<1>4. IsFiniteSet(ToSet(r))
  <2>1. IsFiniteSet(1 .. Len(r))
    BY <1>1, FS_Interval
  <2>2. ToSet(r) = {r[i] : i \in 1 .. Len(r)}
    BY <1>1 DEF ToSet
  <2> DEFINE f == [i \in 1 .. Len(r) |-> r[i]]
  <2>3. f \in Surjection(1 .. Len(r), ToSet(r))
    BY <2>2 DEF Surjection
  <2> HIDE DEF f
  <2> QED BY <2>1, <2>3, FS_Surjection
<1>5. (Cardinality(ToSet(r)) = 1) <=> \E d : ToSet(r) = {d}
  BY <1>4, FS_Singleton
<1> QED BY <1>2, <1>3, <1>5

\* The list is not empty if one is set.
LEMMA ListNamesSome ==
  ASSUME NEW val \in Seq(Item), Parses(val)
  PROVE  (ToSet(Listed(val)) = {}) <=> (val = <<>>)
<1>1. ToSet(Listed(val)) = IdsIn(val)
  BY ListedIds
<1>2. ASSUME val # <<>> PROVE IdsIn(val) # {}
  <2>1. 1 \in DOMAIN val
    BY <1>2
  <2>2. val[1].lo \in val[1].lo .. val[1].hi
    BY <2>1, ParsedItem
  <2> QED BY <2>1, <2>2 DEF IdsIn
<1>3. ASSUME val = <<>> PROVE IdsIn(val) = {}
  BY <1>3 DEF IdsIn
<1> QED BY <1>1, <1>2, <1>3

-----------------------------------------------------------------------------
(* How the runtime edits an environment.                                   *)

LD == "LD_LIBRARY_PATH"

HasVirtual(l) ==
  \E i \in DOMAIN l.val : l.val[i].kind = "word" /\ l.val[i].word \in VirtualWords

VirtualAdded(l) ==
  [l EXCEPT !.val = Append(IF l.val = <<>> THEN <<Word("")>> ELSE l.val, Word("VIRTUAL")),
            !.pad = FALSE]

VirtualLine == Set("OPTIONS", <<Word("VIRTUAL")>>)

\* The engine's lines are there, some with VIRTUAL in the options; and behind
\* them well-formed lines of these three names.
Edited(old, new) ==
  /\ new \in Seq(Lines) /\ Len(old) <= Len(new)
  /\ \A i \in 1 .. Len(old) :
       \/ new[i] = old[i]
       \/ Pair(old[i], "OPTIONS") /\ ~ HasVirtual(old[i]) /\ new[i] = VirtualAdded(old[i])
  /\ \A i \in Len(old) + 1 .. Len(new) :
       /\ new[i].key \in {"OPTIONS", LD, "ASCEND_DOCKER_RUNTIME"}
       /\ new[i].eq = 1 /\ ~ new[i].pad
       /\ new[i].key = "OPTIONS" =>
            new[i] = VirtualLine /\ \A j \in 1 .. Len(old) : ~ Pair(old[j], "OPTIONS")

LEMMA EditedSelf == ASSUME NEW env \in Seq(Lines) PROVE Edited(env, env)
BY DEF Edited

\* The line with the option is a line, and is not edited again.
LEMMA VirtualLines ==
  /\ Word("VIRTUAL") \in Item /\ Word("") \in Item /\ Driver \in Item
  /\ VirtualLine \in Lines /\ HasVirtual(VirtualLine)
  /\ \A l \in Lines : /\ VirtualAdded(l) \in Lines /\ HasVirtual(VirtualAdded(l))
                      /\ VirtualAdded(l).key = l.key /\ VirtualAdded(l).eq = l.eq
                      /\ ~ VirtualAdded(l).pad
<1>1. Word("VIRTUAL") \in Item /\ Word("") \in Item /\ Driver \in Item
  BY EnvAssumption DEF Word, Item, Driver
<1>2. VirtualLine \in Lines /\ HasVirtual(VirtualLine)
  <2>1. <<Word("VIRTUAL")>> \in Seq(Item)
    BY <1>1, Singleton
  <2>2. VirtualLine.val = <<Word("VIRTUAL")>> /\ VirtualLine \in Lines
    BY <2>1, EnvAssumption DEF VirtualLine, Set, Line, Lines
  <2>3. Word("VIRTUAL").kind = "word" /\ Word("VIRTUAL").word = "VIRTUAL"
    BY DEF Word
  <2>4. <<Word("VIRTUAL")>>[1] = Word("VIRTUAL") /\ 1 \in DOMAIN <<Word("VIRTUAL")>>
    BY <1>1, Singleton, Zenon
  <2>5. VirtualLine.val[1] = Word("VIRTUAL") /\ 1 \in DOMAIN VirtualLine.val
    BY <2>2, <2>4, Zenon
  <2> QED BY <2>2, <2>3, <2>5, EnvAssumption DEF HasVirtual
<1>3. ASSUME NEW l \in Lines
      PROVE  /\ VirtualAdded(l) \in Lines /\ HasVirtual(VirtualAdded(l))
             /\ VirtualAdded(l).key = l.key /\ VirtualAdded(l).eq = l.eq
             /\ ~ VirtualAdded(l).pad
  <2> DEFINE words == IF l.val = <<>> THEN <<Word("")>> ELSE l.val
             val == Append(words, Word("VIRTUAL"))
  <2>1. words \in Seq(Item)
    <3>1. l.val \in Seq(Item) /\ <<Word("")>> \in Seq(Item)
      BY <1>1, Singleton DEF Lines
    <3> QED BY <3>1
  <2> HIDE DEF words
  <2>2. /\ val \in Seq(Item) /\ Len(words) + 1 \in DOMAIN val
        /\ val[Len(words) + 1] = Word("VIRTUAL")
    <3>1. /\ val \in Seq(Item) /\ Len(words) \in Nat /\ DOMAIN val = 1 .. Len(words) + 1
          /\ val[Len(words) + 1] = Word("VIRTUAL")
      BY <1>1, <2>1, Appended, Zenon
    <3> HIDE DEF val
    <3> QED BY <3>1
  <2>3. VirtualAdded(l) = [[l EXCEPT !.val = val] EXCEPT !.pad = FALSE]
    BY DEF VirtualAdded, words
  <2> HIDE DEF val
  <2>4. /\ VirtualAdded(l) \in Lines /\ VirtualAdded(l).val = val
        /\ VirtualAdded(l).key = l.key /\ VirtualAdded(l).eq = l.eq /\ ~ VirtualAdded(l).pad
    BY <2>2, <2>3 DEF Lines
  <2>5. Word("VIRTUAL").kind = "word" /\ Word("VIRTUAL").word = "VIRTUAL"
    BY DEF Word
  <2> QED BY <2>2, <2>4, <2>5, EnvAssumption DEF HasVirtual
<1> QED BY <1>1, <1>2, <1>3

\* One more line of the runtime's.
LEMMA EditedAppend ==
  ASSUME NEW old \in Seq(Lines), NEW env, Edited(old, env), NEW l \in Lines,
         l.key \in {"OPTIONS", LD, "ASCEND_DOCKER_RUNTIME"}, l.eq = 1, ~ l.pad,
         l.key = "OPTIONS" => l = VirtualLine /\ \A j \in 1 .. Len(old) : ~ Pair(old[j], "OPTIONS")
  PROVE  Edited(old, Append(env, l))
<1> DEFINE new == Append(env, l)
<1>1. env \in Seq(Lines) /\ Len(old) \in Nat /\ Len(env) \in Nat /\ Len(old) <= Len(env)
  BY DEF Edited
<1>2. /\ new \in Seq(Lines) /\ Len(new) = Len(env) + 1
      /\ \A i \in 1 .. Len(env) : new[i] = env[i]
      /\ new[Len(env) + 1] = l
  BY <1>1
<1> HIDE DEF new
<1>3. \A i \in Len(old) + 1 .. Len(new) :
        (i \in Len(old) + 1 .. Len(env) /\ i \in 1 .. Len(env)) \/ i = Len(env) + 1
  BY <1>1, <1>2
<1>4. \A i \in 1 .. Len(old) : i \in 1 .. Len(env)
  BY <1>1
<1>5. Len(old) <= Len(new)
  BY <1>1, <1>2
<1> QED BY <1>2, <1>3, <1>4, <1>5 DEF Edited, new

\* Line by line: what an edit leaves of the engine's, what the new ones are.
LEMMA EditedLines ==
  ASSUME NEW old \in Seq(Lines), NEW new, Edited(old, new)
  PROVE  /\ new \in Seq(Lines) /\ Len(old) \in Nat /\ Len(new) \in Nat /\ Len(old) <= Len(new)
         /\ \A i \in 1 .. Len(old) :
              /\ i \in 1 .. Len(new) /\ old[i] \in Lines /\ new[i] \in Lines
              /\ new[i].key = old[i].key /\ new[i].eq = old[i].eq
              /\ old[i].key # "OPTIONS" \/ Malformed(old[i]) => new[i] = old[i]
         /\ \A i \in 1 .. Len(new) : i \in 1 .. Len(old) \/ i \in Len(old) + 1 .. Len(new)
         /\ \A i \in Len(old) + 1 .. Len(new) :
              /\ i \in 1 .. Len(new) /\ new[i] \in Lines /\ new[i].eq = 1 /\ ~ new[i].pad
              /\ new[i].key \in {"OPTIONS", LD, "ASCEND_DOCKER_RUNTIME"}
<1>1. new \in Seq(Lines) /\ Len(old) \in Nat /\ Len(new) \in Nat /\ Len(old) <= Len(new)
  BY DEF Edited
<1>2. ASSUME NEW i \in 1 .. Len(old)
      PROVE  /\ i \in 1 .. Len(new) /\ old[i] \in Lines /\ new[i] \in Lines
             /\ new[i].key = old[i].key /\ new[i].eq = old[i].eq
             /\ old[i].key # "OPTIONS" \/ Malformed(old[i]) => new[i] = old[i]
  <2>1. i \in 1 .. Len(new) /\ old[i] \in Lines
    BY <1>1
  <2>2. new[i] \in Lines
    BY <1>1, <2>1
  <2>3. \/ new[i] = old[i]
        \/ Pair(old[i], "OPTIONS") /\ new[i] = VirtualAdded(old[i])
    BY DEF Edited
  <2>4. VirtualAdded(old[i]).key = old[i].key /\ VirtualAdded(old[i]).eq = old[i].eq
    BY <2>1, VirtualLines
  <2> QED BY <2>1, <2>2, <2>3, <2>4 DEF Pair, Malformed
<1>3. ASSUME NEW i \in Len(old) + 1 .. Len(new)
      PROVE  /\ i \in 1 .. Len(new) /\ new[i] \in Lines /\ new[i].eq = 1 /\ ~ new[i].pad
             /\ new[i].key \in {"OPTIONS", LD, "ASCEND_DOCKER_RUNTIME"}
  <2>1. i \in 1 .. Len(new)
    BY <1>1
  <2>2. new[i] \in Lines
    BY <1>1, <2>1
  <2> QED BY <2>1, <2>2 DEF Edited
<1>4. \A i \in 1 .. Len(new) : i \in 1 .. Len(old) \/ i \in Len(old) + 1 .. Len(new)
  BY <1>1
<1> QED BY <1>1, <1>2, <1>3, <1>4

\* So the list of devices reads as it did, in each of its three readings.
LEMMA EditedVisible ==
  ASSUME NEW old \in Seq(Lines), NEW new, Edited(old, new)
  PROVE  /\ GetValueByDeviceKey(new) = GetValueByDeviceKey(old)
         /\ GetValueByKey(new, "VISIBLE") = GetValueByKey(old, "VISIBLE")
         /\ HookPanics(new, "VISIBLE") <=> HookPanics(old, "VISIBLE")
<1>1. \A i \in 1 .. Len(old) :
        /\ i \in 1 .. Len(new)
        /\ Malformed(new[i]) <=> Malformed(old[i])
        /\ Named(new[i], "VISIBLE") <=> Named(old[i], "VISIBLE")
        /\ Malformed(old[i]) \/ Named(old[i], "VISIBLE") => new[i] = old[i]
  BY EditedLines DEF Malformed, Named
<1>2. \A i \in 1 .. Len(new) :
        i \notin 1 .. Len(old) => ~ Malformed(new[i]) /\ ~ Named(new[i], "VISIBLE")
  BY EditedLines DEF Malformed, Named, LD
<1>3. Stops(new, "VISIBLE") = Stops(old, "VISIBLE")
  BY <1>1, <1>2 DEF Stops
<1>4. ChipStops(new) = ChipStops(old)
  BY <1>1, <1>2 DEF ChipStops
<1>5. Places(new, "VISIBLE") = Places(old, "VISIBLE")
  BY <1>1, <1>2 DEF Places
<1>6. Len(old) \in Nat
  OBVIOUS
<1>7. ASSUME NEW i,
             i = 0 \/ i \in Stops(old, "VISIBLE") \cup ChipStops(old) \cup Places(old, "VISIBLE")
      PROVE  ValueAt(new, i) = ValueAt(old, i) /\ (i # 0 => new[i] = old[i])
  BY <1>1, <1>7 DEF ValueAt, Stops, ChipStops, Places
<1>8. /\ First(Stops(old, "VISIBLE")) = 0 \/ First(Stops(old, "VISIBLE")) \in Stops(old, "VISIBLE")
      /\ First(ChipStops(old)) = 0 \/ First(ChipStops(old)) \in ChipStops(old)
      /\ \/ Final(Places(old, "VISIBLE")) = 0
         \/ Final(Places(old, "VISIBLE")) \in Places(old, "VISIBLE")
  <2>1. /\ Stops(old, "VISIBLE") \subseteq 1 .. Len(old) /\ ChipStops(old) \subseteq 1 .. Len(old)
        /\ Places(old, "VISIBLE") \subseteq 1 .. Len(old)
    BY DEF Stops, ChipStops, Places
  <2> QED BY <1>6, <2>1, FirstIn
<1>9. GetValueByKey(new, "VISIBLE") = GetValueByKey(old, "VISIBLE")
  BY <1>3, <1>7, <1>8, Lookups
<1>10. HookPanics(new, "VISIBLE") <=> HookPanics(old, "VISIBLE")
  BY <1>3, <1>7, <1>8, Lookups
<1>11. GetValueByDeviceKey(new) = GetValueByDeviceKey(old)
  BY <1>4, <1>5, <1>7, <1>8, Lookups
<1> QED BY <1>9, <1>10, <1>11

\* updateEnvAndPostHook: its two cases.
LEMMA WithVirtualLines ==
  ASSUME NEW env \in Seq(Lines)
  PROVE  \/ /\ WithVirtual(env) = Append(env, VirtualLine)
            /\ \A i \in 1 .. Len(env) : ~ Pair(env[i], "OPTIONS")
         \/ /\ WithVirtual(env) \in Seq(Lines) /\ Len(WithVirtual(env)) = Len(env)
            /\ \A i \in 1 .. Len(env) :
                 WithVirtual(env)[i] = IF Pair(env[i], "OPTIONS") /\ ~ HasVirtual(env[i])
                                         THEN VirtualAdded(env[i]) ELSE env[i]
<1> DEFINE new == WithVirtual(env)
<1>1. Len(env) \in Nat /\ DOMAIN env = 1 .. Len(env)
  OBVIOUS
<1>2. CASE \E i \in DOMAIN env : Pair(env[i], "OPTIONS")
  <2>1. new = [i \in DOMAIN env |-> IF Pair(env[i], "OPTIONS") /\ ~ HasVirtual(env[i])
                                      THEN VirtualAdded(env[i]) ELSE env[i]]
    BY <1>2, Zenon DEF WithVirtual, HasVirtual, VirtualAdded
  <2>2. ASSUME NEW i \in 1 .. Len(env) PROVE VirtualAdded(env[i]) \in Lines /\ env[i] \in Lines
    <3>1. env[i] \in Lines
      OBVIOUS
    <3> QED BY <3>1, VirtualLines, Zenon
  <2> HIDE DEF new
  <2>3. /\ new \in Seq(Lines) /\ Len(new) = Len(env)
        /\ \A i \in 1 .. Len(env) :
              new[i] = IF Pair(env[i], "OPTIONS") /\ ~ HasVirtual(env[i])
                         THEN VirtualAdded(env[i]) ELSE env[i]
    BY <1>1, <2>1, <2>2
  <2> QED BY <2>3 DEF new
<1>3. CASE ~ \E i \in DOMAIN env : Pair(env[i], "OPTIONS")
  BY <1>1, <1>3 DEF WithVirtual, VirtualLine
<1> QED BY <1>2, <1>3

LEMMA EditedWithVirtual ==
  ASSUME NEW old \in Seq(Lines), NEW env, Edited(old, env)
  PROVE  Edited(old, WithVirtual(env))
<1> DEFINE new == WithVirtual(env)
<1>1. /\ env \in Seq(Lines) /\ Len(env) \in Nat
      /\ Len(old) \in Nat /\ Len(old) <= Len(env)
  BY EditedLines
<1>2. ASSUME new \in Seq(Lines), Len(new) = Len(env),
             \A i \in 1 .. Len(env) :
               new[i] = IF Pair(env[i], "OPTIONS") /\ ~ HasVirtual(env[i])
                          THEN VirtualAdded(env[i]) ELSE env[i]
      PROVE  Edited(old, new)
  <2> HIDE DEF new
  <2>1. ASSUME NEW i \in 1 .. Len(old)
        PROVE  \/ new[i] = old[i]
               \/ Pair(old[i], "OPTIONS") /\ ~ HasVirtual(old[i]) /\ new[i] = VirtualAdded(old[i])
    <3>1. i \in 1 .. Len(env) /\ old[i] \in Lines
      BY <1>1
    <3>2. \/ env[i] = old[i]
          \/ Pair(old[i], "OPTIONS") /\ ~ HasVirtual(old[i]) /\ env[i] = VirtualAdded(old[i])
      BY DEF Edited
    <3>3. env[i] = VirtualAdded(old[i]) => HasVirtual(env[i])
      BY <3>1, VirtualLines
    <3> QED BY <1>2, <3>1, <3>2, <3>3
  <2>2. ASSUME NEW i \in Len(old) + 1 .. Len(env) PROVE new[i] = env[i]
    <3>1. i \in 1 .. Len(env) /\ (env[i].key = "OPTIONS" => env[i] = VirtualLine)
      BY <1>1 DEF Edited
    <3> QED BY <1>2, <3>1, VirtualLines DEF Pair
  <2>3. \A i \in Len(old) + 1 .. Len(new) :
          /\ new[i].key \in {"OPTIONS", LD, "ASCEND_DOCKER_RUNTIME"}
          /\ new[i].eq = 1 /\ ~ new[i].pad
          /\ new[i].key = "OPTIONS" =>
               new[i] = VirtualLine /\ \A j \in 1 .. Len(old) : ~ Pair(old[j], "OPTIONS")
    BY <1>2, <2>2 DEF Edited
  <2> QED BY <1>1, <1>2, <2>1, <2>3 DEF Edited
<1>3. ASSUME new = Append(env, VirtualLine), \A i \in 1 .. Len(env) : ~ Pair(env[i], "OPTIONS")
      PROVE  Edited(old, new)
  <2>1. \A j \in 1 .. Len(old) : ~ Pair(old[j], "OPTIONS")
    BY <1>1, <1>3, EditedLines DEF Pair
  <2>2. /\ VirtualLine \in Lines /\ VirtualLine.key = "OPTIONS"
        /\ VirtualLine.eq = 1 /\ ~ VirtualLine.pad
    BY VirtualLines DEF VirtualLine, Set, Line
  <2> QED BY <1>3, <2>1, <2>2, EditedAppend
<1> QED BY <1>1, <1>2, <1>3, WithVirtualLines

\* addLDEnv: the line it adds.
PathAt(env) == First({i \in 1 .. Len(env) : Pair(env[i], LD) /\ ~ env[i].pad})
PathLine(env) == Set(LD, ValueAt(env, PathAt(env)) \o <<Driver>>)

LEMMA PathLines ==
  ASSUME NEW env \in Seq(Lines)
  PROVE  /\ AddLDEnv(env) = Append(env, PathLine(env))
         /\ PathLine(env) \in Lines /\ PathLine(env).key = LD /\ PathLine(env).eq = 1
         /\ ~ PathLine(env).pad
         /\ PathLine(env).val =
              (IF PathAt(env) = 0 THEN <<>> ELSE env[PathAt(env)].val) \o <<Driver>>
         /\ PathAt(env) # 0 => /\ PathAt(env) \in 1 .. Len(env)
                               /\ env[PathAt(env)].key = LD /\ ~ env[PathAt(env)].pad
         /\ \A i \in 1 .. Len(env) : Pair(env[i], LD) /\ ~ env[i].pad =>
              PathAt(env) # 0 /\ PathAt(env) <= i
<1> DEFINE M == {i \in 1 .. Len(env) : Pair(env[i], LD) /\ ~ env[i].pad}
<1>1. AddLDEnv(env) = Append(env, PathLine(env))
  BY Zenon DEF AddLDEnv, PathLine, PathAt, LD, SelectInSeq, First
<1>2. M \subseteq 1 .. Len(env) /\ Len(env) \in Nat
  OBVIOUS
<1>3. /\ M = {} => First(M) = 0
      /\ M # {} => First(M) \in M /\ \A j \in M : First(M) <= j
  BY <1>2, FirstIn, Zenon
<1>4. PathAt(env) = First(M)
  BY DEF PathAt
<1>5. /\ PathAt(env) # 0 => /\ PathAt(env) \in 1 .. Len(env)
                            /\ Pair(env[PathAt(env)], LD) /\ ~ env[PathAt(env)].pad
      /\ \A i \in 1 .. Len(env) : Pair(env[i], LD) /\ ~ env[i].pad =>
              PathAt(env) # 0 /\ PathAt(env) <= i
  <2>1. PathAt(env) # 0 => PathAt(env) \in M
    BY <1>3, <1>4, Zenon
  <2>2. \A i \in M : PathAt(env) \in M /\ PathAt(env) <= i
    BY <1>3, <1>4, Zenon
  <2> QED BY <1>2, <2>1, <2>2
<1>6. ValueAt(env, PathAt(env)) = IF PathAt(env) = 0 THEN <<>> ELSE env[PathAt(env)].val
  BY <1>5 DEF ValueAt, Malformed, Pair
<1>7. ValueAt(env, PathAt(env)) \in Seq(Item)
  <2>1. CASE PathAt(env) = 0
    BY <1>6, <2>1
  <2>2. CASE PathAt(env) # 0
    <3>1. env[PathAt(env)] \in Lines
      BY <1>5, <2>2
    <3> QED BY <1>6, <2>2, <3>1 DEF Lines
  <2> QED BY <2>1, <2>2
<1>8. ValueAt(env, PathAt(env)) \o <<Driver>> \in Seq(Item)
  <2>1. <<Driver>> \in Seq(Item)
    BY VirtualLines, Singleton, Zenon
  <2> QED BY <1>7, <2>1
<1>9. /\ PathLine(env) \in Lines /\ PathLine(env).key = LD /\ PathLine(env).eq = 1
      /\ ~ PathLine(env).pad
      /\ PathLine(env).val = ValueAt(env, PathAt(env)) \o <<Driver>>
  BY <1>8, EnvAssumption DEF PathLine, Set, Line, Lines, LD
<1> QED BY <1>1, <1>5, <1>6, <1>9 DEF Pair

LEMMA EditedAddLDEnv ==
  ASSUME NEW old \in Seq(Lines), NEW env, Edited(old, env)
  PROVE  Edited(old, AddLDEnv(env))
<1>1. env \in Seq(Lines)
  BY DEF Edited
<1> QED BY <1>1, PathLines, EditedAppend DEF LD

\* addEnvToDevicePlugin.
LEMMA PluginLine ==
  /\ UseAscendDocker \in Lines /\ UseAscendDocker.key = "ASCEND_DOCKER_RUNTIME"
  /\ UseAscendDocker.eq = 1 /\ ~ UseAscendDocker.pad
<1>1. Word("True") \in Item
  BY EnvAssumption DEF Word, Item
<1>2. <<Word("True")>> \in Seq(Item)
  BY <1>1, Singleton, Zenon
<1> QED BY <1>2, EnvAssumption DEF UseAscendDocker, Set, Line, Lines

LEMMA EditedAddEnv ==
  ASSUME NEW old \in Seq(Lines), NEW env, Edited(old, env)
  PROVE  Edited(old, AddEnvToDevicePlugin(env))
<1>1. Edited(old, Append(env, UseAscendDocker))
  BY PluginLine, EditedAppend
<1> QED BY <1>1 DEF AddEnvToDevicePlugin

\* What these two add is not about options or the split.
LEMMA AddedLookups ==
  ASSUME NEW env \in Seq(Lines), NEW new \in {AddLDEnv(env), AddEnvToDevicePlugin(env)}
  PROVE  Virtual(new) = Virtual(env) /\ ExtractVpuParam(new) = ExtractVpuParam(env)
<1>1. ASSUME NEW l \in Lines, l.eq = 1, l.key \in {LD, "ASCEND_DOCKER_RUNTIME"}
      PROVE  /\ Virtual(Append(env, l)) = Virtual(env)
             /\ ExtractVpuParam(Append(env, l)) = ExtractVpuParam(env)
  <2>1. ~ Malformed(l) /\ l.key # "OPTIONS" /\ l.key # "SPECS"
    BY <1>1 DEF Malformed, LD
  <2>2. /\ GetValueByKey(Append(env, l), "OPTIONS") = GetValueByKey(env, "OPTIONS")
        /\ ExtractVpuParam(Append(env, l)) = ExtractVpuParam(env)
    BY <2>1, AppendLookups
  <2> QED BY <2>2, Zenon DEF Virtual
<1>2. CASE new = AddLDEnv(env)
  BY <1>1, <1>2, PathLines, Zenon
<1>3. CASE new = AddEnvToDevicePlugin(env)
  BY <1>1, <1>3, PluginLine DEF AddEnvToDevicePlugin
<1> QED BY <1>2, <1>3

-----------------------------------------------------------------------------
(* The library path.                                                       *)

\* The lines that were added set the user's path and the driver's; or the
\* driver's twice, when there is none of the user's and a line added in a
\* session before was taken for it.
PathsAdded(old, env, n) ==
  \A i \in Len(old) + 1 .. Len(env) : env[i].key = LD =>
    \/ env[i].val = GetValueByKey(old, LD) \o <<Driver>>
    \/ /\ env[i].val = <<Driver>> \o <<Driver>> /\ n >= 2
       /\ \A j \in 1 .. Len(old) : old[j].key # LD
       /\ \E j \in Len(old) + 1 .. i - 1 : env[j].key = LD

HasPath(old, env) == \E i \in Len(old) + 1 .. Len(env) : env[i].key = LD

\* An edit that touches no line with the path.
LEMMA PathsKept ==
  ASSUME NEW old \in Seq(Lines), NEW env \in Seq(Lines), NEW new \in Seq(Lines), NEW n,
         Len(env) <= Len(new),
         \A i \in Len(old) + 1 .. Len(env) : env[i].key = LD => new[i] = env[i],
         \A i \in Len(old) + 1 .. Len(new) : new[i].key = LD => i <= Len(env) /\ env[i].key = LD
  PROVE  /\ PathsAdded(old, env, n) => PathsAdded(old, new, n)
         /\ HasPath(old, env) <=> HasPath(old, new)
<1>1. Len(old) \in Nat /\ Len(env) \in Nat /\ Len(new) \in Nat
  OBVIOUS
<1>2. \A i \in Len(old) + 1 .. Len(new) : new[i].key = LD => i \in Len(old) + 1 .. Len(env)
  BY <1>1
<1>3. \A i \in Len(old) + 1 .. Len(env) : i \in Len(old) + 1 .. Len(new)
  BY <1>1
<1>4. HasPath(old, env) <=> HasPath(old, new)
  BY <1>2, <1>3 DEF HasPath
<1>5. ASSUME PathsAdded(old, env, n), NEW i \in Len(old) + 1 .. Len(new), new[i].key = LD
      PROVE  \/ new[i].val = GetValueByKey(old, LD) \o <<Driver>>
             \/ /\ new[i].val = <<Driver>> \o <<Driver>> /\ n >= 2
                /\ \A j \in 1 .. Len(old) : old[j].key # LD
                /\ \E j \in Len(old) + 1 .. i - 1 : new[j].key = LD
  <2>1. i \in Len(old) + 1 .. Len(env) /\ new[i] = env[i] /\ env[i].key = LD
    BY <1>2, <1>5
  <2>2. \A j \in Len(old) + 1 .. i - 1 : j \in Len(old) + 1 .. Len(env)
    BY <1>1, <2>1
  <2>3. \A j \in Len(old) + 1 .. i - 1 : env[j].key = LD => new[j].key = LD
    BY <2>2
  <2> QED BY <1>5, <2>1, <2>3 DEF PathsAdded
<1> QED BY <1>4, <1>5 DEF PathsAdded

LEMMA OtherEditsKeepPaths ==
  ASSUME NEW old \in Seq(Lines), NEW env, Edited(old, env), NEW n,
         NEW new \in {WithVirtual(env), AddEnvToDevicePlugin(env)}
  PROVE  /\ PathsAdded(old, env, n) => PathsAdded(old, new, n)
         /\ HasPath(old, env) <=> HasPath(old, new)
<1>1. env \in Seq(Lines) /\ Len(env) \in Nat /\ Len(old) \in Nat /\ Len(old) <= Len(env)
  BY EditedLines
<1>2. ASSUME NEW l \in Lines, l.key # LD
      PROVE  /\ PathsAdded(old, env, n) => PathsAdded(old, Append(env, l), n)
             /\ HasPath(old, env) <=> HasPath(old, Append(env, l))
  <2> DEFINE longer == Append(env, l)
  <2>1. /\ longer \in Seq(Lines) /\ Len(longer) = Len(env) + 1
        /\ \A i \in 1 .. Len(env) : longer[i] = env[i]
        /\ longer[Len(env) + 1] = l
    BY <1>1
  <2> HIDE DEF longer
  <2>2. \A i \in Len(old) + 1 .. Len(env) : longer[i] = env[i]
    BY <1>1, <2>1
  <2>3. \A i \in Len(old) + 1 .. Len(longer) :
          i = Len(env) + 1 \/ (i <= Len(env) /\ longer[i] = env[i])
    BY <1>1, <2>1
  <2>4. \A i \in Len(old) + 1 .. Len(longer) :
          longer[i].key = LD => i <= Len(env) /\ env[i].key = LD
    BY <1>2, <2>1, <2>3
  <2>5. Len(env) <= Len(longer)
    BY <1>1, <2>1
  <2> QED BY <1>1, <2>1, <2>2, <2>4, <2>5, PathsKept DEF longer
<1>3. CASE new = AddEnvToDevicePlugin(env)
  BY <1>2, <1>3, PluginLine DEF AddEnvToDevicePlugin, LD
<1>4. CASE new = WithVirtual(env)
  <2>1. CASE new = Append(env, VirtualLine)
    <3>1. VirtualLine \in Lines /\ VirtualLine.key # LD
      BY VirtualLines DEF VirtualLine, Set, Line, LD
    <3> QED BY <1>2, <2>1, <3>1
  <2>2. CASE /\ new \in Seq(Lines) /\ Len(new) = Len(env)
             /\ \A i \in 1 .. Len(env) :
                  new[i] = IF Pair(env[i], "OPTIONS") /\ ~ HasVirtual(env[i])
                             THEN VirtualAdded(env[i]) ELSE env[i]
    <3>1. ASSUME NEW i \in Len(old) + 1 .. Len(env)
          PROVE  /\ env[i].key = LD => new[i] = env[i]
                 /\ new[i].key = LD => env[i].key = LD
      <4>1. i \in 1 .. Len(env)
        BY <1>1
      <4>2. env[i] \in Lines
        BY <1>1, <4>1
      <4>3. VirtualAdded(env[i]).key = env[i].key
        BY <4>2, VirtualLines
      <4> QED BY <2>2, <4>1, <4>3 DEF Pair, LD
    <3>2. Len(env) <= Len(new) /\ \A i \in Len(old) + 1 .. Len(new) : i <= Len(env)
      BY <1>1, <2>2
    <3> QED BY <1>1, <2>2, <3>1, <3>2, PathsKept
  <2> QED BY <1>1, <1>4, <2>1, <2>2, WithVirtualLines
<1> QED BY <1>3, <1>4

\* What a proper environment says of a variable the programs look up.
LEMMA ProperLine ==
  ASSUME NEW env \in Seq(Lines), Proper(env), NEW key \in Looked, NEW j \in 1 .. Len(env),
         env[j].key = key
  PROVE  /\ Pair(env[j], key) /\ Named(env[j], key)
         /\ GetValueByKey(env, key) = env[j].val
         /\ \A i \in 1 .. Len(env) : env[i].key = key => i = j
<1>1. /\ \A i \in 1 .. Len(env) : ~ Malformed(env[i])
      /\ \A i \in 1 .. Len(env) : env[i].key = key => i = j
      /\ env[j].eq = 1 /\ ~ env[j].pad
  BY DEF Proper
<1>2. Stops(env, key) = {j}
  BY <1>1 DEF Stops, Named
<1>3. First(Stops(env, key)) = j
  BY <1>2, FirstIn, Len(env) \in Nat
<1>4. GetValueByKey(env, key) = ValueAt(env, j)
  BY <1>3, Lookups
<1> QED BY <1>1, <1>4 DEF ValueAt, Pair, Named

LEMMA ProperWithout ==
  ASSUME NEW env \in Seq(Lines), Proper(env), NEW key,
         \A i \in 1 .. Len(env) : env[i].key # key
  PROVE  GetValueByKey(env, key) = <<>>
<1>1. Stops(env, key) = {}
  BY DEF Stops, Named, Proper
<1>2. First(Stops(env, key)) = 0
  BY <1>1 DEF First
<1> QED BY <1>2, Lookups DEF ValueAt

\* The line addLDEnv adds is one of these.
LEMMA AddLDEnvPaths ==
  ASSUME NEW old \in Seq(Lines), Proper(old), NEW env, Edited(old, env), NEW n,
         PathsAdded(old, env, n), HasPath(old, env) => n >= 2
  PROVE  PathsAdded(old, AddLDEnv(env), n)
<1> DEFINE l == PathLine(env)
           at == PathAt(env)
           new == Append(env, l)
<1>1. env \in Seq(Lines) /\ Len(env) \in Nat /\ Len(old) \in Nat /\ Len(old) <= Len(env)
  BY EditedLines
<1>2. /\ AddLDEnv(env) = new /\ l \in Lines
      /\ l.val = (IF at = 0 THEN <<>> ELSE env[at].val) \o <<Driver>>
      /\ at # 0 => at \in 1 .. Len(env) /\ env[at].key = LD
      /\ \A i \in 1 .. Len(env) : Pair(env[i], LD) /\ ~ env[i].pad => at # 0 /\ at <= i
  BY <1>1, PathLines, Zenon
<1>3. /\ Len(new) = Len(env) + 1 /\ new[Len(env) + 1] = l
      /\ \A i \in 1 .. Len(env) : new[i] = env[i]
  BY <1>1, <1>2
<1> HIDE DEF l, at, new
<1>4. \/ l.val = GetValueByKey(old, LD) \o <<Driver>>
      \/ /\ l.val = <<Driver>> \o <<Driver>> /\ n >= 2
         /\ \A j \in 1 .. Len(old) : old[j].key # LD
         /\ \E j \in Len(old) + 1 .. Len(env) : env[j].key = LD
  <2>1. CASE \E j \in 1 .. Len(old) : old[j].key = LD
    <3>1. PICK j \in 1 .. Len(old) : old[j].key = LD
      BY <2>1
    <3>2. /\ Pair(old[j], LD) /\ Named(old[j], LD)
          /\ GetValueByKey(old, LD) = old[j].val
          /\ \A i \in 1 .. Len(old) : old[i].key = LD => i = j
      BY <3>1, ProperLine DEF Looked, LD
    <3>3. env[j] = old[j] /\ j \in 1 .. Len(env)
      BY <3>1, EditedLines DEF LD
    <3>4. at # 0 /\ at <= j /\ at \in 1 .. Len(env) /\ env[at].key = LD
      BY <1>2, <3>2, <3>3 DEF Named
    <3>5. at \in 1 .. Len(old)
      BY <1>1, <3>4
    <3>6. at = j
      BY <3>2, <3>4, <3>5, EditedLines
    <3> QED BY <1>2, <3>2, <3>3, <3>4, <3>6
  <2>2. CASE \A j \in 1 .. Len(old) : old[j].key # LD
    <3>1. GetValueByKey(old, LD) = <<>>
      BY <2>2, ProperWithout
    <3>2. CASE at = 0
      BY <1>2, <3>1, <3>2
    <3>3. CASE at # 0
      <4>1. at \in Len(old) + 1 .. Len(env) /\ env[at].key = LD
        BY <1>1, <1>2, <2>2, <3>3, EditedLines
      <4>2. n >= 2
        BY <4>1 DEF HasPath
      <4>3. ~ \E j \in Len(old) + 1 .. at - 1 : env[j].key = LD
        <5> SUFFICES ASSUME NEW j \in Len(old) + 1 .. at - 1, env[j].key = LD PROVE FALSE
          OBVIOUS
        <5>1. j \in Len(old) + 1 .. Len(env) /\ j \in 1 .. Len(env) /\ j < at
          BY <1>1, <4>1
        <5>2. Pair(env[j], LD) /\ ~ env[j].pad
          BY <5>1, EditedLines DEF Pair
        <5>3. at <= j
          BY <1>2, <5>1, <5>2
        <5> QED BY <1>1, <4>1, <5>1, <5>3
      <4>4. env[at].val = GetValueByKey(old, LD) \o <<Driver>>
        BY <4>1, <4>3 DEF PathsAdded
      <4>5. <<Driver>> \in Seq(Item)
        BY VirtualLines, Singleton, Zenon
      <4>6. env[at].val = <<Driver>>
        BY <3>1, <4>4, <4>5
      <4> QED BY <1>2, <2>2, <3>3, <4>1, <4>2, <4>6
    <3> QED BY <3>2, <3>3
  <2> QED BY <2>1, <2>2
<1>5. ASSUME NEW i \in Len(old) + 1 .. Len(new), new[i].key = LD
      PROVE  \/ new[i].val = GetValueByKey(old, LD) \o <<Driver>>
             \/ /\ new[i].val = <<Driver>> \o <<Driver>> /\ n >= 2
                /\ \A j \in 1 .. Len(old) : old[j].key # LD
                /\ \E j \in Len(old) + 1 .. i - 1 : new[j].key = LD
  <2>1. \A j \in Len(old) + 1 .. Len(env) : new[j] = env[j]
    BY <1>1, <1>3
  <2>2. CASE i = Len(env) + 1
    BY <1>1, <1>3, <1>4, <2>1, <2>2
  <2>3. CASE i # Len(env) + 1
    <3>1. i \in Len(old) + 1 .. Len(env) /\ i - 1 \in Nat /\ i - 1 <= Len(env)
      BY <1>1, <1>3, <2>3
    <3>2. \A j \in Len(old) + 1 .. i - 1 : j \in Len(old) + 1 .. Len(env)
      BY <1>1, <3>1
    <3> QED BY <1>5, <2>1, <3>1, <3>2 DEF PathsAdded
  <2> QED BY <2>2, <2>3
<1> QED BY <1>2, <1>5 DEF PathsAdded

\* addLDEnv leaves a line with the path, and the last one is an added one.
LEMMA AddLDEnvHasPath ==
  ASSUME NEW old \in Seq(Lines), NEW env, Edited(old, env)
  PROVE  HasPath(old, AddLDEnv(env))
<1>1. env \in Seq(Lines) /\ Len(env) \in Nat /\ Len(old) \in Nat /\ Len(old) <= Len(env)
  BY EditedLines
<1>2. AddLDEnv(env) = Append(env, PathLine(env)) /\ PathLine(env).key = LD
  BY <1>1, PathLines
<1> DEFINE new == Append(env, PathLine(env))
<1>3. Len(new) = Len(env) + 1 /\ new[Len(env) + 1] = PathLine(env)
  BY <1>1
<1> HIDE DEF new
<1>4. Len(env) + 1 \in Len(old) + 1 .. Len(new)
  BY <1>1, <1>3
<1>5. HasPath(old, new)
  BY <1>2, <1>3, <1>4 DEF HasPath
<1> QED BY <1>2, <1>5 DEF new

LEMMA LastPath ==
  ASSUME NEW old \in Seq(Lines), NEW env, Edited(old, env), HasPath(old, env)
  PROVE  /\ Final(Places(env, LD)) \in Len(old) + 1 .. Len(env)
         /\ env[Final(Places(env, LD))].key = LD
<1>1. Len(env) \in Nat /\ Len(old) \in Nat
  BY EditedLines
<1>2. PICK i \in Len(old) + 1 .. Len(env) : env[i].key = LD
  BY DEF HasPath
<1>3. i \in 1 .. Len(env) /\ i \in Places(env, LD)
  BY <1>2, EditedLines DEF Places, Named
<1>4. Places(env, LD) \subseteq 1 .. Len(env)
  BY DEF Places
<1>5. Final(Places(env, LD)) \in Places(env, LD) /\ i <= Final(Places(env, LD))
  BY <1>1, <1>3, <1>4, FirstIn
<1>6. Final(Places(env, LD)) \in 1 .. Len(env) /\ env[Final(Places(env, LD))].key = LD
  BY <1>5 DEF Places, Named
<1> QED BY <1>1, <1>2, <1>5, <1>6

\* The template stays what it was when the options are rewritten.
LEMMA WithVirtualTemplate ==
  ASSUME NEW env \in Seq(Lines)
  PROVE  ExtractVpuParam(WithVirtual(env)) = ExtractVpuParam(env)
<1> DEFINE new == WithVirtual(env)
           At(e) == First(Pairs(e, "SPECS"))
<1>1. CASE new = Append(env, VirtualLine)
  <2>1. VirtualLine \in Lines /\ ~ Malformed(VirtualLine) /\ VirtualLine.key # "SPECS"
    <3>1. VirtualLine \in Lines
      BY VirtualLines, Zenon
    <3> QED BY <3>1 DEF VirtualLine, Set, Line, Malformed
  <2> QED BY <1>1, <2>1, AppendLookups
<1>2. CASE /\ new \in Seq(Lines) /\ Len(new) = Len(env)
           /\ \A i \in 1 .. Len(env) :
                new[i] = IF Pair(env[i], "OPTIONS") /\ ~ HasVirtual(env[i])
                           THEN VirtualAdded(env[i]) ELSE env[i]
  <2> HIDE DEF new
  <2>1. ASSUME NEW i \in 1 .. Len(env)
        PROVE  /\ Pair(new[i], "SPECS") <=> Pair(env[i], "SPECS")
               /\ Pair(env[i], "SPECS") => new[i] = env[i]
    <3>1. env[i] \in Lines
      OBVIOUS
    <3>2. VirtualAdded(env[i]).key = env[i].key /\ VirtualAdded(env[i]).eq = env[i].eq
      BY <3>1, VirtualLines, Zenon
    <3> QED BY <1>2, <3>2 DEF Pair
  <2>2. Pairs(new, "SPECS") = Pairs(env, "SPECS")
    BY <1>2, <2>1 DEF Pairs
  <2>3. At(env) = 0 \/ At(env) \in Pairs(env, "SPECS")
    <3>1. Pairs(env, "SPECS") \subseteq 1 .. Len(env) /\ Len(env) \in Nat
      BY DEF Pairs
    <3> QED BY <3>1, FirstIn
  <2>4. At(new) = At(env) /\ (At(env) # 0 => new[At(env)] = env[At(env)])
    BY <2>1, <2>2, <2>3 DEF Pairs
  <2> HIDE DEF At
  <2>5. \A e : ExtractVpuParam(e) =
              CASE At(e) = 0 -> "none"
                [] At(e) # 0 /\ e[At(e)].val \in {<<Word(t)>> : t \in Templates} -> "allowed"
                [] OTHER -> "unknown"
    BY Lookups DEF At
  <2> QED BY <2>4, <2>5 DEF new
<1> QED BY <1>1, <1>2, WithVirtualLines

\* With proper variables the option is found once it is set.
LEMMA WithVirtualFound ==
  ASSUME NEW old \in Seq(Lines), Proper(old), NEW env, Edited(old, env)
  PROVE  Virtual(WithVirtual(env))
<1> DEFINE new == WithVirtual(env)
           S == Stops(new, "OPTIONS")
<1>1. Edited(old, new) /\ env \in Seq(Lines) /\ new \in Seq(Lines) /\ Len(new) \in Nat
  BY EditedWithVirtual, EditedLines
<1>2. ASSUME NEW e, Edited(old, e), NEW i \in 1 .. Len(e)
      PROVE  /\ e[i] \in Lines /\ ~ Malformed(e[i])
             /\ e[i].key = "OPTIONS" => Pair(e[i], "OPTIONS") /\ ~ e[i].pad
  <2>1. CASE i \in 1 .. Len(old)
    <3>1. /\ e[i] \in Lines /\ e[i].key = old[i].key /\ e[i].eq = old[i].eq
          /\ old[i] \in Lines
      BY <1>2, <2>1, EditedLines
    <3>2. ~ Malformed(old[i]) /\ (old[i].key = "OPTIONS" => old[i].eq = 1 /\ ~ old[i].pad)
      BY <2>1 DEF Proper, Looked
    <3>3. e[i] = old[i] \/ e[i] = VirtualAdded(old[i])
      BY <1>2, <2>1 DEF Edited
    <3>4. ~ VirtualAdded(old[i]).pad
      BY <3>1, VirtualLines, Zenon
    <3> QED BY <3>1, <3>2, <3>3, <3>4 DEF Malformed, Pair
  <2>2. CASE i \in Len(old) + 1 .. Len(e)
    BY <1>2, <2>2, EditedLines DEF Malformed, Pair
  <2> QED BY <1>2, <2>1, <2>2, EditedLines
<1>3. ASSUME NEW i \in 1 .. Len(new), new[i].key = "OPTIONS" PROVE HasVirtual(new[i])
  <2>1. CASE /\ new = Append(env, VirtualLine)
             /\ \A j \in 1 .. Len(env) : ~ Pair(env[j], "OPTIONS")
    <3>1. /\ Len(new) = Len(env) + 1 /\ Len(env) \in Nat /\ new[Len(env) + 1] = VirtualLine
          /\ \A j \in 1 .. Len(env) : new[j] = env[j]
      BY <1>1, <2>1
    <3> HIDE DEF new
    <3>2. CASE i \in 1 .. Len(env)
      BY <1>2, <1>3, <2>1, <3>1, <3>2
    <3>3. CASE i = Len(env) + 1
      BY <3>1, <3>3, VirtualLines, Zenon
    <3> QED BY <1>3, <3>1, <3>2, <3>3
  <2>2. CASE /\ Len(new) = Len(env)
             /\ \A j \in 1 .. Len(env) :
                  new[j] = IF Pair(env[j], "OPTIONS") /\ ~ HasVirtual(env[j])
                             THEN VirtualAdded(env[j]) ELSE env[j]
    <3> HIDE DEF new
    <3>1. i \in 1 .. Len(env) /\ env[i] \in Lines
      BY <1>2, <1>3, <2>2
    <3>2. VirtualAdded(env[i]).key = env[i].key /\ HasVirtual(VirtualAdded(env[i]))
      BY <3>1, VirtualLines, Zenon
    <3>3. new[i] = IF Pair(env[i], "OPTIONS") /\ ~ HasVirtual(env[i])
                     THEN VirtualAdded(env[i]) ELSE env[i]
      BY <2>2, <3>1
    <3>4. env[i].key = "OPTIONS"
      BY <1>3, <3>2, <3>3
    <3>5. Pair(env[i], "OPTIONS")
      BY <1>2, <3>1, <3>4
    <3> QED BY <3>2, <3>3, <3>5
  <2> QED BY <1>1, <2>1, <2>2, WithVirtualLines
<1>4. \E i \in 1 .. Len(new) : new[i].key = "OPTIONS"
  <2>1. CASE new = Append(env, VirtualLine)
    <3>1. Len(new) = Len(env) + 1 /\ Len(env) \in Nat /\ new[Len(env) + 1] = VirtualLine
      BY <1>1, <2>1
    <3> HIDE DEF new
    <3> QED BY <3>1 DEF VirtualLine, Set, Line
  <2>2. CASE new # Append(env, VirtualLine)
    <3>1. PICK i \in DOMAIN env : Pair(env[i], "OPTIONS")
      BY <2>2, Zenon DEF WithVirtual, VirtualLine
    <3>2. i \in 1 .. Len(env) /\ env[i].key = "OPTIONS" /\ env[i] \in Lines
      BY <1>1, <3>1 DEF Pair
    <3>3. /\ Len(new) = Len(env)
          /\ \A j \in 1 .. Len(env) :
               new[j] = IF Pair(env[j], "OPTIONS") /\ ~ HasVirtual(env[j])
                          THEN VirtualAdded(env[j]) ELSE env[j]
      BY <1>1, <2>2, WithVirtualLines
    <3>4. VirtualAdded(env[i]).key = env[i].key
      BY <3>2, VirtualLines, Zenon
    <3> HIDE DEF new
    <3> QED BY <3>2, <3>3, <3>4
  <2> QED BY <2>1, <2>2
<1> HIDE DEF new
<1>5. First(S) \in S /\ First(S) \in 1 .. Len(new) /\ First(S) # 0
  <2>1. S \subseteq 1 .. Len(new)
    BY DEF Stops
  <2>2. PICK i \in 1 .. Len(new) : new[i].key = "OPTIONS"
    BY <1>4
  <2>3. i \in S
    BY <1>1, <1>2, <2>2 DEF Stops, Named
  <2> HIDE DEF S
  <2>4. First(S) \in S
    BY <1>1, <2>1, <2>3, FirstIn
  <2>5. \A k \in 1 .. Len(new) : k # 0
    BY <1>1
  <2> QED BY <2>1, <2>4, <2>5, Zenon
<1> DEFINE s == First(S)
<1>6. ~ Malformed(new[s]) /\ new[s].key = "OPTIONS"
  BY <1>1, <1>2, <1>5 DEF Stops, Named
<1>7. HasVirtual(new[s])
  BY <1>3, <1>5, <1>6
<1>8. GetValueByKey(new, "OPTIONS") = new[s].val
  BY <1>5, <1>6, Lookups DEF ValueAt
<1> HIDE DEF s
<1>9. Virtual(new)
  BY <1>7, <1>8 DEF Virtual, HasVirtual
<1> QED BY <1>9 DEF new

-----------------------------------------------------------------------------
(* What the hook reads.                                                    *)

\* Without malformed lines there is nothing the hook panics at.
LEMMA NoPanic ==
  ASSUME NEW env \in Seq(Lines), \A i \in 1 .. Len(env) : ~ Malformed(env[i]), NEW key
  PROVE  ~ HookPanics(env, key)
<1>1. Stops(env, key) \subseteq 1 .. Len(env) /\ Len(env) \in Nat
  BY DEF Stops
<1>2. First(Stops(env, key)) # 0 => First(Stops(env, key)) \in 1 .. Len(env)
  BY <1>1, FirstIn
<1> QED BY <1>2, Lookups

LEMMA Limits ==
  MaxOptions \in Nat /\ 7 <= MaxOptions /\ MaxLines \in Nat /\ "VIRTUAL" \in VirtualWords
BY EnvAssumption, Zenon

\* One more option, VIRTUAL, takes eight characters with its comma.
LEMMA OneMoreVirtual ==
  ASSUME NEW val \in Seq(Item), NEW new, new = Append(val, Word("VIRTUAL"))
  PROVE  /\ OptionsLength(val) \in Nat
         /\ OptionsLength(new) = OptionsLength(val) + 8
<1> DEFINE w == Word("VIRTUAL")
           A == {i \in DOMAIN val : val[i] = w}
           B == {i \in DOMAIN new : new[i] = w}
           n == Len(val)
<1>1. n \in Nat /\ DOMAIN val = 1 .. n
  OBVIOUS
<1> HIDE DEF w
<1>2. /\ Len(new) = n + 1 /\ DOMAIN new = 1 .. n + 1 /\ new[n + 1] = w
      /\ \A i \in 1 .. n : new[i] = val[i]
  <2>1. w \in Item
    BY VirtualLines, Zenon DEF w
  <2> QED BY <1>1, <2>1 DEF w
<1>3. B = A \cup {n + 1} /\ n + 1 \notin A /\ A \subseteq 1 .. n
  BY <1>1, <1>2
<1>4. IsFiniteSet(A)
  <2>1. IsFiniteSet(1 .. n)
    BY <1>1, FS_Interval
  <2> QED BY <1>3, <2>1, FS_Subset, Zenon
<1>5. Cardinality(A) \in Nat
  BY <1>4, FS_CardinalityType
<1>6. Cardinality(B) = Cardinality(A) + 1
  BY <1>3, <1>4, FS_AddElement
<1>7. OptionsLength(val) = 6 * n + 2 * Cardinality(A)
  BY Zenon DEF OptionsLength, w
<1>8. OptionsLength(new) = 6 * Len(new) + 2 * Cardinality(B)
  BY Zenon DEF OptionsLength, w
<1> HIDE DEF A, B, n
<1> QED BY <1>1, <1>2, <1>5, <1>6, <1>7, <1>8

\* No options are valid, and so is VIRTUAL; what a split makes of options is
\* valid only if they were, and not any more just if it spoils them.
LEMMA VirtualIsValid ==
  /\ OptionsValid(<<>>) /\ OptionsValid(VirtualLine.val)
  /\ \A l \in Lines : OptionsValid(VirtualAdded(l).val) => OptionsValid(l.val)
  /\ \A l \in Lines :
       OptionsValid(l.val) /\ ~ HasVirtual(l) /\ ~ Spoiled(l.val)
         => OptionsValid(VirtualAdded(l).val)
<1> DEFINE w == Word("VIRTUAL")
           S == {Word("NODRV"), Word("VIRTUAL")}
<1>1. OptionsLength(<<>>) = 0 /\ OptionsLength(<<w>>) = 8 /\ <<>> \in Seq(Item)
  <2> DEFINE none == <<>>
             A == {i \in DOMAIN none : none[i] = w}
  <2>1. none \in Seq(Item) /\ Append(none, w) = <<w>>
    OBVIOUS
  <2>2. A = {} /\ Len(none) = 0
    OBVIOUS
  <2>3. OptionsLength(none) = 6 * Len(none) + 2 * Cardinality(A)
    BY Zenon DEF OptionsLength
  <2>4. OptionsLength(none) = 0
    <3>1. Cardinality(A) = 0
      BY <2>2, FS_EmptySet
    <3> HIDE DEF A
    <3> QED BY <2>2, <2>3, <3>1
  <2>5. OptionsLength(<<w>>) = OptionsLength(none) + 8
    BY <2>1, OneMoreVirtual, Zenon
  <2> QED BY <2>1, <2>4, <2>5
<1>2. OptionsValid(<<>>)
  BY <1>1, Limits DEF OptionsValid
<1>3. OptionsValid(VirtualLine.val)
  <2>1. VirtualLine.val = <<w>> /\ w \in S
    BY DEF VirtualLine, Set, Line
  <2>2. OptionsLength(<<w>>) <= MaxOptions + 1
    BY <1>1, Limits
  <2> HIDE DEF w, S
  <2>3. \A i \in DOMAIN <<w>> : <<w>>[i] = w
    OBVIOUS
  <2>4. \A i \in DOMAIN VirtualLine.val : VirtualLine.val[i] \in S
    BY <2>1, <2>3, Zenon
  <2>5. OptionsLength(VirtualLine.val) <= MaxOptions + 1
    BY <2>1, <2>2, Zenon
  <2> QED BY <2>4, <2>5, Zenon DEF OptionsValid, S
<1>4. ASSUME NEW l \in Lines, l.val # <<>>
      PROVE  /\ VirtualAdded(l).val = Append(l.val, w)
             /\ (\A i \in DOMAIN VirtualAdded(l).val : VirtualAdded(l).val[i] \in S)
                  <=> (\A i \in DOMAIN l.val : l.val[i] \in S)
             /\ OptionsLength(l.val) \in Nat
             /\ OptionsLength(VirtualAdded(l).val) = OptionsLength(l.val) + 8
  <2> DEFINE new == Append(l.val, w)
  <2>1. l.val \in Seq(Item) /\ w \in Item /\ w \in S
    BY VirtualLines, Zenon DEF Lines
  <2>2. VirtualAdded(l).val = new
    BY <1>4 DEF VirtualAdded, Lines
  <2>3. OptionsLength(l.val) \in Nat /\ OptionsLength(new) = OptionsLength(l.val) + 8
    BY <2>1, OneMoreVirtual, Zenon
  <2> HIDE DEF w, S
  <2>4. /\ Len(l.val) \in Nat /\ DOMAIN new = 1 .. Len(l.val) + 1
        /\ new[Len(l.val) + 1] = w
        /\ \A i \in 1 .. Len(l.val) : new[i] = l.val[i]
        /\ DOMAIN l.val = 1 .. Len(l.val)
    BY <2>1
  <2> HIDE DEF new
  <2>5. (\A i \in DOMAIN new : new[i] \in S) <=> (\A i \in DOMAIN l.val : l.val[i] \in S)
    BY <2>1, <2>4
  <2>6. VirtualAdded(l).val = Append(l.val, w)
    BY <2>2 DEF new
  <2> QED BY <2>2, <2>3, <2>5, <2>6, Zenon
<1>5. ASSUME NEW l \in Lines, OptionsValid(VirtualAdded(l).val)
      PROVE  OptionsValid(l.val)
  <2>1. CASE l.val = <<>>
    BY <1>2, <2>1
  <2>2. CASE l.val # <<>>
    <3> DEFINE v == VirtualAdded(l).val
    <3>1. (\A i \in DOMAIN v : v[i] \in S) /\ OptionsLength(v) <= MaxOptions + 1
      BY <1>5, Zenon DEF OptionsValid
    <3>2. \A i \in DOMAIN l.val : l.val[i] \in S
      BY <1>4, <2>2, <3>1, Zenon
    <3> HIDE DEF v
    <3>3. OptionsLength(v) = OptionsLength(l.val) + 8 /\ OptionsLength(l.val) \in Nat
      BY <1>4, <2>2, Zenon DEF v
    <3>4. OptionsLength(l.val) <= MaxOptions + 1
      BY <3>1, <3>3, Limits
    <3> QED BY <3>2, <3>4, Zenon DEF OptionsValid
  <2> QED BY <2>1, <2>2
<1>6. ASSUME NEW l \in Lines, OptionsValid(l.val), ~ HasVirtual(l), ~ Spoiled(l.val)
      PROVE  OptionsValid(VirtualAdded(l).val)
  <2>1. ~ Contains(l.val, w)
    <3> SUFFICES ASSUME NEW i \in 1 .. Len(l.val), l.val[i] = w PROVE FALSE
      BY Zenon DEF Contains
    <3>1. l.val[i].kind = "word" /\ l.val[i].word \in VirtualWords
      BY Limits DEF Word
    <3>2. i \in DOMAIN l.val
      BY DEF Lines
    <3> QED BY <1>6, <3>1, <3>2, Zenon DEF HasVirtual
  <2>2. l.val # <<>> /\ ~ (OptionsLength(l.val) + 8 > MaxOptions + 1)
    BY <1>6, <2>1, Zenon DEF Spoiled
  <2> DEFINE v == VirtualAdded(l).val
  <2>3. \A i \in DOMAIN l.val : l.val[i] \in S
    BY <1>6, Zenon DEF OptionsValid
  <2>4. \A i \in DOMAIN v : v[i] \in S
    BY <1>4, <2>2, <2>3, Zenon
  <2>5. OptionsLength(v) = OptionsLength(l.val) + 8 /\ OptionsLength(l.val) \in Nat
    BY <1>4, <2>2, Zenon
  <2>6. OptionsLength(v) <= MaxOptions + 1
    <3> HIDE DEF v
    <3> QED BY <2>2, <2>5, Limits
  <2> QED BY <2>4, <2>6, Zenon DEF OptionsValid
<1> QED BY <1>2, <1>3, <1>5, <1>6, Zenon

\* The options: those of the engine's one line or what it became; or, where
\* it wrote none, none or the line with VIRTUAL.
LEMMA EditedOptions ==
  ASSUME NEW old \in Seq(Lines), Proper(old), NEW new, Edited(old, new)
  PROVE  LET before == OptionsValid(GetValueByKey(old, "OPTIONS"))
             after  == OptionsValid(GetValueByKey(new, "OPTIONS"))
         IN  /\ after => before
             /\ before /\ ~ after =>
                  \E i \in DOMAIN old : old[i].key = "OPTIONS" /\ Spoiled(old[i].val)
<1>1. /\ Len(new) \in Nat /\ Len(old) \in Nat /\ new \in Seq(Lines)
      /\ \A i \in 1 .. Len(new) : ~ Malformed(new[i])
  BY EditedLines DEF Proper, Malformed
<1>2. CASE \E j \in 1 .. Len(old) : old[j].key = "OPTIONS"
  <2>1. PICK j \in 1 .. Len(old) : old[j].key = "OPTIONS"
    BY <1>2
  <2>2. /\ Pair(old[j], "OPTIONS") /\ Named(old[j], "OPTIONS")
        /\ GetValueByKey(old, "OPTIONS") = old[j].val
        /\ \A i \in 1 .. Len(old) : old[i].key = "OPTIONS" => i = j
    BY <2>1, ProperLine DEF Looked
  <2>3. /\ old[j] \in Lines /\ j \in 1 .. Len(new)
        /\ \/ new[j] = old[j]
           \/ ~ HasVirtual(old[j]) /\ new[j] = VirtualAdded(old[j])
    BY EditedLines DEF Edited
  <2>4. Named(new[j], "OPTIONS") /\ ~ Malformed(new[j])
    <3>1. VirtualAdded(old[j]).key = old[j].key /\ ~ VirtualAdded(old[j]).pad
      BY <2>3, VirtualLines, Zenon
    <3> QED BY <1>1, <2>2, <2>3, <3>1 DEF Named
  <2>5. ASSUME NEW i \in 1 .. Len(new), Malformed(new[i]) \/ Named(new[i], "OPTIONS")
        PROVE  i = j
    <3>1. new[i].key = "OPTIONS"
      BY <1>1, <2>5 DEF Named
    <3>2. CASE i \in 1 .. Len(old)
      BY <2>2, <3>1, <3>2, EditedLines
    <3>3. CASE i \in Len(old) + 1 .. Len(new)
      BY <2>2, <3>1, <3>3 DEF Edited
    <3> QED BY <3>2, <3>3, EditedLines
  <2>6. Stops(new, "OPTIONS") = {j}
    BY <2>3, <2>4, <2>5 DEF Stops
  <2>7. First(Stops(new, "OPTIONS")) = j
    BY <1>1, <2>3, <2>6, FirstIn
  <2>8. GetValueByKey(new, "OPTIONS") = new[j].val
    <3>1. GetValueByKey(new, "OPTIONS") = ValueAt(new, j)
      BY <2>7, Lookups
    <3> QED BY <1>1, <2>3, <3>1 DEF ValueAt
  <2>9. CASE new[j] = old[j]
    BY <2>2, <2>8, <2>9, Zenon
  <2>10. CASE ~ HasVirtual(old[j]) /\ new[j] = VirtualAdded(old[j])
    <3>1. OptionsValid(new[j].val) => OptionsValid(old[j].val)
      BY <2>3, <2>10, VirtualIsValid, Zenon
    <3>2. OptionsValid(old[j].val) /\ ~ OptionsValid(new[j].val) => Spoiled(old[j].val)
      BY <2>3, <2>10, VirtualIsValid, Zenon
    <3>3. j \in DOMAIN old
      OBVIOUS
    <3> QED BY <2>1, <2>2, <2>8, <3>1, <3>2, <3>3, Zenon
  <2> QED BY <2>3, <2>9, <2>10
<1>3. CASE \A j \in 1 .. Len(old) : old[j].key # "OPTIONS"
  <2>1. OptionsValid(GetValueByKey(old, "OPTIONS"))
    BY <1>3, ProperWithout, VirtualIsValid
  <2>2. ASSUME NEW i \in 1 .. Len(new), Malformed(new[i]) \/ Named(new[i], "OPTIONS")
        PROVE  new[i] = VirtualLine
    <3>1. new[i].key = "OPTIONS"
      BY <1>1, <2>2 DEF Named
    <3>2. i \in Len(old) + 1 .. Len(new)
      BY <1>3, <3>1, EditedLines
    <3> QED BY <3>1, <3>2 DEF Edited
  <2>3. Stops(new, "OPTIONS") \subseteq 1 .. Len(new)
    BY DEF Stops
  <2>4. CASE Stops(new, "OPTIONS") = {}
    <3>1. First(Stops(new, "OPTIONS")) = 0
      BY <2>4 DEF First
    <3>2. GetValueByKey(new, "OPTIONS") = <<>>
      BY <3>1, Lookups DEF ValueAt
    <3> QED BY <2>1, <3>2, VirtualIsValid
  <2>5. CASE Stops(new, "OPTIONS") # {}
    <3> DEFINE i == First(Stops(new, "OPTIONS"))
    <3>1. i \in Stops(new, "OPTIONS")
      BY <1>1, <2>3, <2>5, FirstIn
    <3> HIDE DEF i
    <3>2. i \in 1 .. Len(new) /\ new[i] = VirtualLine
      BY <2>2, <3>1 DEF Stops
    <3>3. GetValueByKey(new, "OPTIONS") = ValueAt(new, i)
      BY Lookups DEF i
    <3>4. ValueAt(new, i) = new[i].val
      BY <1>1, <3>2 DEF ValueAt
    <3> QED BY <2>1, <3>2, <3>3, <3>4, VirtualIsValid
  <2> QED BY <2>4, <2>5
<1> QED BY <1>2, <1>3

\* The verdict is the same, unless VIRTUAL spoils the options.
LEMMA EditedVerdict ==
  ASSUME NEW old \in Seq(Lines), Proper(old),
         NEW new, Edited(old, new), Len(new) <= MaxLines
  PROVE  \/ HookVerdict(new) = HookVerdict(old)
         \/ /\ HookVerdict(old) = "accepts" /\ HookVerdict(new) = "refuses"
            /\ \E i \in DOMAIN old : old[i].key = "OPTIONS" /\ Spoiled(old[i].val)
<1>1. /\ new \in Seq(Lines)
      /\ \A i \in 1 .. Len(new) : ~ Malformed(new[i])
      /\ \A i \in 1 .. Len(old) : ~ Malformed(old[i])
  BY EditedLines DEF Proper, Malformed
<1>2. \A key \in {"VISIBLE", "MOUNTS", "OPTIONS", "LINK"} :
        ~ HookPanics(new, key) /\ ~ HookPanics(old, key)
  BY <1>1, NoPanic
<1>3. GetValueByKey(new, "VISIBLE") = GetValueByKey(old, "VISIBLE")
  BY EditedVisible
<1>4. ~ (Len(new) > MaxLines) /\ ~ (Len(old) > MaxLines)
  BY EditedLines, Limits
<1> DEFINE before == OptionsValid(GetValueByKey(old, "OPTIONS"))
           after  == OptionsValid(GetValueByKey(new, "OPTIONS"))
           Verdict(ok, env) == IF GetValueByKey(env, "VISIBLE") = <<>> THEN "skips"
                               ELSE IF ~ ok THEN "refuses" ELSE "accepts"
<1>5. HookVerdict(new) = Verdict(after, new) /\ HookVerdict(old) = Verdict(before, old)
  BY <1>2, <1>4 DEF HookVerdict
<1>6. /\ after => before
      /\ before /\ ~ after =>
           \E i \in DOMAIN old : old[i].key = "OPTIONS" /\ Spoiled(old[i].val)
  BY EditedOptions, Zenon
<1> HIDE DEF before, after
<1> QED BY <1>3, <1>5, <1>6

\* The hook finds no devices and the runtime does: two lines set the list.
LEMMA SkipsOnlyTwice ==
  ASSUME NEW env \in Seq(Lines), GetValueByDeviceKey(env) # <<>>, HookVerdict(env) = "skips"
  PROVE  Cardinality({i \in DOMAIN env : Named(env[i], "VISIBLE")}) > 1
<1> DEFINE P == Places(env, "VISIBLE")
           S == Stops(env, "VISIBLE")
           C == ChipStops(env)
           t == IF First(C) # 0 THEN First(C) ELSE Final(P)
<1>1. ~ HookPanics(env, "VISIBLE") /\ GetValueByKey(env, "VISIBLE") = <<>>
  BY DEF HookVerdict
<1>2. /\ Len(env) \in Nat
      /\ S \subseteq 1 .. Len(env) /\ C \subseteq 1 .. Len(env) /\ P \subseteq 1 .. Len(env)
  BY DEF Stops, Places, ChipStops
<1>3. ValueAt(env, t) # <<>>
  BY Lookups, Zenon
<1>4. t # 0 /\ ~ Malformed(env[t]) /\ env[t].val # <<>>
  BY <1>3 DEF ValueAt
<1>5. t \in C \cup P
  <2>1. /\ C = {} => First(C) = 0
        /\ C # {} => First(C) \in C
        /\ P = {} => Final(P) = 0
        /\ P # {} => Final(P) \in P
    BY <1>2, FirstIn, Zenon
  <2> QED BY <1>4, <2>1
<1> HIDE DEF t
<1>6. t \in P
  BY <1>4, <1>5 DEF ChipStops, Places
<1>7. t \in S
  BY <1>6 DEF Places, Stops
<1> DEFINE s == First(S)
<1>8. s \in S
  BY <1>2, <1>7, FirstIn, Zenon
<1>9. s # 0
  BY <1>2, <1>8
<1>10. ~ Malformed(env[s]) /\ env[s].val = <<>>
  BY <1>1, <1>9, Lookups DEF ValueAt
<1> HIDE DEF s
<1>11. s \in P /\ s # t
  BY <1>4, <1>8, <1>10 DEF Stops, Places
<1>12. P = {i \in DOMAIN env : Named(env[i], "VISIBLE")}
  BY DEF Places
<1> HIDE DEF P
<1>13. IsFiniteSet(P) /\ Cardinality(P) \in Nat /\ Cardinality(P) > 1
  <2>1. IsFiniteSet(P)
    <3>1. IsFiniteSet(1 .. Len(env))
      BY <1>2, FS_Interval
    <3> QED BY <1>2, <3>1, FS_Subset, Zenon DEF P
  <2>2. IsFiniteSet(P \ {s}) /\ Cardinality(P \ {s}) = Cardinality(P) - 1
    BY <1>11, <2>1, FS_RemoveElement
  <2>3. Cardinality(P \ {s}) # 0
    BY <1>6, <1>11, <2>2, FS_EmptySet
  <2>4. Cardinality(P) \in Nat /\ Cardinality(P \ {s}) \in Nat
    BY <2>1, <2>2, FS_CardinalityType
  <2> QED BY <2>1, <2>2, <2>3, <2>4
<1> QED BY <1>12, <1>13
=============================================================================
