------------------------------ MODULE EnvLines ------------------------------
(***************************************************************************)
(* The environment of a container, line by line.                           *)
(*                                                                         *)
(* process.env of config.json is the list of lines the engine wrote.  The  *)
(* runtime looks things up in it with four functions that do not agree on  *)
(* what a line is, and adds and rewrites lines; the prestart hook reads    *)
(* the result with a fifth.  These are their results, as operators.        *)
(***************************************************************************)
EXTENDS Naturals, FiniteSets, SequencesExt

CONSTANTS
  Texts,          \* names of variables, words and chip types
  Templates,      \* allowSplit of dcmi_api.go
  VirtualWords,   \* the words that contain "VIRTUAL"
  HostType,       \* chip type of the host's NPUs
  MaxDevice,      \* maxDevice of parseDevices, the end of a range
  InPlace,        \* longest list that sort.Slice leaves as it is
  MaxOptions,     \* maxLength of parseRuntimeOptions, in characters
  MaxLines        \* maxCommandLength, the lines of the hook's environment

ASSUME EnvAssumption ==
  /\ InPlace \in Nat /\ MaxDevice \in Nat /\ "VIRTUAL" \in VirtualWords
  /\ MaxLines \in Nat /\ MaxOptions \in Nat /\ 7 <= MaxOptions   \* "VIRTUAL" fits
  /\ {"", "VIRTUAL", "True", "driver/lib64"} \subseteq Texts
  /\ {"OPTIONS", "LD_LIBRARY_PATH", "ASCEND_DOCKER_RUNTIME"} \subseteq Texts

\* A line "key=val": blanks before the key or not, the number of '=' in it,
\* the value split at its commas; the empty value is << >>.
Line(key, pad, eq, val) == [key |-> key, pad |-> pad, eq |-> eq, val |-> val]
Set(key, val) == Line(key, FALSE, 1, val)

\* The items of a value: a word, "lo-hi", "n", "Ascend<type>-n".
Word(w)     == [kind |-> "word", word |-> w]
Ids(lo, hi) == [kind |-> "range", lo |-> lo, hi |-> hi]
Id(n)       == [kind |-> "id", lo |-> n, hi |-> n]
Chip(t, n)  == [kind |-> "chip", type |-> t, lo |-> n, hi |-> n]

\* What a line can be.
Item == [kind : {"word"}, word : Texts]
        \cup {r \in [kind : {"range", "id"}, lo : Nat, hi : Nat] : r.kind = "id" => r.lo = r.hi}
        \cup {r \in [kind : {"chip"}, type : Texts, lo : Nat, hi : Nat] : r.lo = r.hi}
Lines == [key : Texts, pad : BOOLEAN, eq : Nat, val : Seq(Item)]

\* The library path of the driver, and the line for the device plugin.
Driver == Word("driver/lib64")
UseAscendDocker == Set("ASCEND_DOCKER_RUNTIME", <<Word("True")>>)

-----------------------------------------------------------------------------
(* Looking things up.                                                      *)

Malformed(l) == l.eq = 0
Named(l, key) == l.key = key /\ ~ l.pad    \* SplitN, words[0] == key
Pair(l, key) == l.key = key /\ l.eq = 1    \* Split in two, words[0] trimmed

ValueAt(env, i) == IF i = 0 \/ Malformed(env[i]) THEN <<>> ELSE env[i].val

\* The runtime's: the first such line, nothing behind a malformed one.
GetValueByKey(env, key) ==
  ValueAt(env, SelectInSeq(env, LAMBDA l : Malformed(l) \/ Named(l, key)))

NamesChips(val) == \E i \in DOMAIN val : val[i].kind = "chip"

\* Mutant: blanks round the name do not matter.
GetValueByTrimmedKey(env) ==
  ValueAt(env, SelectLastInSeq(env, LAMBDA l : Malformed(l) \/ l.key = "VISIBLE"))

\* The first value with "Ascend" in it, else the last; none if a malformed
\* line comes before the answer is known.
GetValueByDeviceKey(env) ==
  LET stop == SelectInSeq(env, LAMBDA l :
                Malformed(l) \/ (Named(l, "VISIBLE") /\ NamesChips(l.val)))
      last == SelectLastInSeq(env, LAMBDA l : Named(l, "VISIBLE"))
  IN  ValueAt(env, IF stop # 0 THEN stop ELSE last)

\* The template of ASCEND_VNPU_SPECS, from the first line of two words.
ExtractVpuParam(env) ==
  LET i == SelectInSeq(env, LAMBDA l : Pair(l, "SPECS"))
  IN  CASE i = 0 -> "none"
        [] i # 0 /\ env[i].val \in {<<Word(t)>> : t \in Templates} -> "allowed"
        [] OTHER -> "unknown"

Virtual(env) ==
  \E i \in DOMAIN GetValueByKey(env, "OPTIONS") :
    LET w == GetValueByKey(env, "OPTIONS")[i]
    IN  w.kind = "word" /\ w.word \in VirtualWords

\* parseDevices and parseAscendDevices accept the list.
Parses(val) ==
  \A i \in DOMAIN val :
    IF NamesChips(val)
      THEN val[i].kind = "chip" /\ val[i].type = HostType
      ELSE \/ val[i].kind = "id"
           \/ val[i].kind = "range" /\ val[i].lo <= val[i].hi /\ val[i].hi <= MaxDevice

\* Mutant: the end of a range is left out.
ListedHalfOpen(val) ==
  FlattenSeq([i \in DOMAIN val |->
    [j \in 1 .. (IF val[i].kind = "range" THEN val[i].hi - val[i].lo ELSE 1)
       |-> val[i].lo + j - 1]])

\* The ids in the order in which the list names them.
Listed(val) ==
  LET list[n \in 0 .. Len(val)] ==
        IF n = 0 THEN <<>>
        ELSE list[n - 1] \o [j \in 1 .. (val[n].hi - val[n].lo + 1) |-> val[n].lo + j - 1]
  IN  list[Len(val)]

\* sort.Slice with the comparison i < j of the indices: an insertion sort
\* never swaps, what longer lists become depends on the pivots.
SortSlice(s) ==
  IF Len(s) <= InPlace THEN {s}
  ELSE {[i \in DOMAIN s |-> s[p[i]]] : p \in Bijection(DOMAIN s, DOMAIN s)}

\* Mutant: nothing is removed.
RemoveNothing(s) == s

\* Equal neighbours become one.
RemoveDuplication(s) ==
  LET list[n \in 0 .. Len(s)] ==
        IF n = 0 THEN <<>>
        ELSE LET before == list[n - 1]
             IN  IF before # <<>> /\ Last(before) = s[n] THEN before ELSE Append(before, s[n])
  IN  list[Len(s)]

\* The hook's lookup panics at a malformed line; else it is the runtime's.
HookPanics(env, key) ==
  LET i == SelectInSeq(env, LAMBDA l : Malformed(l) \/ Named(l, key))
  IN  i # 0 /\ Malformed(env[i])

\* The characters of valid options, each with a comma behind it: NODRV has
\* five, VIRTUAL two more, and the words of a value have no blanks.
OptionsLength(val) ==
  6 * Len(val) + 2 * Cardinality({i \in DOMAIN val : val[i] = Word("VIRTUAL")})

\* parseRuntimeOptions of the hook.
OptionsValid(val) ==
  /\ \A i \in DOMAIN val : val[i] \in {Word("NODRV"), Word("VIRTUAL")}
  /\ OptionsLength(val) <= MaxOptions + 1

\* Options that are not valid any more with ",VIRTUAL" behind them: those set
\* to nothing, and long ones.
Spoiled(val) ==
  /\ ~ Contains(val, Word("VIRTUAL"))
  /\ val = <<>> \/ OptionsLength(val) + 8 > MaxOptions + 1

\* What the hook does with an environment: it panics, has nothing to do,
\* or goes on to the options and refuses or accepts them.  (What the lists
\* to mount and the link mode are is part of ContainerSetup's requests.)
HookVerdict(env) ==
  IF Len(env) > MaxLines THEN "refuses"
  ELSE IF HookPanics(env, "VISIBLE") THEN "panics"
  ELSE IF GetValueByKey(env, "VISIBLE") = <<>> THEN "skips"
  ELSE IF HookPanics(env, "MOUNTS") \/ HookPanics(env, "OPTIONS") THEN "panics"
  ELSE IF ~ OptionsValid(GetValueByKey(env, "OPTIONS")) THEN "refuses"
  ELSE IF HookPanics(env, "LINK") THEN "panics" ELSE "accepts"

\* The variables the programs look up, as a careful engine writes them: each
\* at most once, without blanks and with a single '=', and no other line
\* without one.
Looked == {"VISIBLE", "OPTIONS", "SPECS", "LD_LIBRARY_PATH"}
Proper(env) ==
  /\ \A i \in DOMAIN env : ~ Malformed(env[i]) /\ (env[i].key \in Looked =>
       /\ env[i].eq = 1 /\ ~ env[i].pad
       /\ \A j \in DOMAIN env : env[j].key = env[i].key => i = j)

-----------------------------------------------------------------------------
(* Editing.                                                                *)

\* Mutant: the option replaces those of the user.
WithVirtualOnly(env) ==
  [i \in DOMAIN env |->
     IF Pair(env[i], "OPTIONS") THEN [env[i] EXCEPT !.val = <<Word("VIRTUAL")>>]
     ELSE env[i]]

\* Mutant: a line is added to those there are.
WithVirtualAppended(env) == Append(env, Set("OPTIONS", <<Word("VIRTUAL")>>))

\* updateEnvAndPostHook: VIRTUAL goes into every line of two words that
\* sets the options, or into a new line.  "" becomes ",VIRTUAL".
WithVirtual(env) ==
  LET Has(l) == \E i \in DOMAIN l.val :
                  l.val[i].kind = "word" /\ l.val[i].word \in VirtualWords
      Words(l) == IF l.val = <<>> THEN <<Word("")>> ELSE l.val
      Add(l) == [l EXCEPT !.val = Append(Words(l), Word("VIRTUAL")), !.pad = FALSE]
  IN  IF \E i \in DOMAIN env : Pair(env[i], "OPTIONS")
        THEN [i \in DOMAIN env |->
                IF Pair(env[i], "OPTIONS") /\ ~ Has(env[i]) THEN Add(env[i]) ELSE env[i]]
        ELSE Append(env, Set("OPTIONS", <<Word("VIRTUAL")>>))

\* Mutant: the path the user set is not looked for.
AddLDEnvFresh(env) == Append(env, Set("LD_LIBRARY_PATH", <<Driver>>))

\* addLDEnv: a new line, behind the value of the first that sets the path.
AddLDEnv(env) ==
  LET i == SelectInSeq(env, LAMBDA l : Pair(l, "LD_LIBRARY_PATH") /\ ~ l.pad)
  IN  Append(env, Set("LD_LIBRARY_PATH", ValueAt(env, i) \o <<Driver>>))

\* addEnvToDevicePlugin: one more line for a container that runs it.
AddEnvToDevicePlugin(env) ==
  IF \E i \in DOMAIN env :
       Pair(env[i], "HOSTNAME") /\ Contains(env[i].val, Word("ascend-device-plugin"))
    THEN Append(env, UseAscendDocker) ELSE env

=============================================================================
