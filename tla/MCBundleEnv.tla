---------------------------- MODULE MCBundleEnv -----------------------------
(* Small instances of BundleEnv for TLC. *)
EXTENDS BundleEnv

MCTexts == STRING
MCPhysIds == {0, 1, 2}
MCChipOf == (0 :> [card |-> 0, dev |-> 1]) @@ (1 :> [card |-> 1, dev |-> 0])
            @@ (2 :> [card |-> 1, dev |-> 1])

V(val) == Set("VISIBLE", val)
O(val) == Set("OPTIONS", val)
Split == Set("SPECS", <<Word("vir02")>>)
Path == Set("LD_LIBRARY_PATH", <<Word("lib")>>)
Torn == Line("PATH", FALSE, 0, <<>>)

\* Each variable once, as Proper says.
ProperEnvs == {
  <<V(<<Ids(0, 1)>>), Path>>,
  <<V(<<Id(1), Id(0), Id(1)>>)>>,
  <<Path, V(<<Ids(0, 1), Id(1), Ids(2, 2)>>), O(<<Word("NODRV")>>)>>,
  <<V(<<Id(0), Ids(0, 0)>>), Split>>,
  <<O(<<Word("NODRV")>>), Split, V(<<Id(1)>>), Path>>,
  <<V(<<Chip("910", 2)>>), Split, O(<<Word("other")>>)>>,
  <<V(<<Chip("910", 0), Chip("310P", 1)>>)>>,
  <<V(<<Chip("310P", 1)>>)>>,
  <<V(<<Word("junk")>>)>>,
  <<V(<<Ids(1, 0)>>)>>,
  <<V(<<Ids(0, 3)>>)>>,
  <<V(<<Id(100)>>), O(<<Word("VIRTUAL")>>)>>,
  <<V(<<Id(0)>>), Set("SPECS", <<Word("vir99")>>)>>,
  <<V(<<Id(0), Id(1)>>), Split>>,
  <<V(<<>>)>>,
  <<Set("HOSTNAME", <<Word("ascend-device-plugin")>>)>>}

\* As long as they may be, as long as they may be before a split, too long.
LongOptions == {
  <<V(<<Id(0)>>), O(<<Word("NODRV"), Word("VIRTUAL")>>), Split>>,
  <<V(<<Id(0)>>), O(<<Word("NODRV"), Word("NODRV")>>), Split>>,
  <<V(<<Id(0)>>), O(<<Word("NODRV"), Word("NODRV")>>)>>,
  <<V(<<Id(0)>>), O(<<Word("NODRV"), Word("NODRV"), Word("NODRV")>>)>>}

EmptyOptions == {<<V(<<Id(0)>>), O(<<>>), Split>>, <<V(<<Id(0)>>), O(<<>>)>>}

\* What no function expects.
OddEnvs == {
  <<V(<<>>), V(<<Id(0)>>)>>,
  <<V(<<Id(0)>>), V(<<>>)>>,
  <<V(<<Chip("910", 0)>>), V(<<Id(1)>>), Split>>,
  <<V(<<Id(0)>>), Torn, Split>>,
  <<V(<<Id(0)>>), Set("MOUNTS", <<Word("base")>>), O(<<>>), Torn>>,
  <<V(<<Chip("910", 0)>>), Split, Torn, O(<<Word("NODRV")>>)>>,
  <<Line("VISIBLE", TRUE, 1, <<Id(0)>>), Split>>,
  <<V(<<Id(0)>>), Split, Line("OPTIONS", TRUE, 1, <<Word("NODRV")>>)>>,
  <<V(<<Id(0)>>), Split, Line("OPTIONS", TRUE, 1, <<Word("VIRTUAL")>>)>>,
  <<V(<<Id(0)>>), Split, Line("OPTIONS", FALSE, 2, <<Word("NODRV=1")>>)>>,
  <<V(<<Id(0)>>), Split, O(<<Word("NODRV")>>), O(<<Word("VIRTUAL")>>)>>,
  <<V(<<Id(0)>>), Line("LD_LIBRARY_PATH", FALSE, 2, <<Word("a=b")>>), Path>>}

AllEnvs == ProperEnvs \cup LongOptions \cup EmptyOptions \cup OddEnvs
=============================================================================
