--------------------------- MODULE MCNpuLifecycle ---------------------------
(* Small instances of NpuLifecycle for TLC. *)
EXTENDS NpuLifecycle, TLC

CONSTANTS c1, c2

MCContainers == {c1, c2}
MCSymmetry == Permutations(MCContainers)

\* Two NPUs whose card and device ids differ.
MCPhysIds == {0, 1}
MCChipOf == (0 :> [card |-> 0, dev |-> 1]) @@ (1 :> [card |-> 1, dev |-> 0])

\* The spec an engine writes for a container that sets these variables.
Request(vis, valid, split, virt) ==
  [vis |-> vis, valid |-> valid, split |-> split, virt |-> virt,
   hooks |-> 0, devs |-> {}, post |-> {}]

Plain      == Request({0, 1}, TRUE, "none", FALSE)
NoDevice   == Request({}, TRUE, "none", FALSE)
Malformed  == Request({}, FALSE, "none", FALSE)
SplitOne   == Request({0}, TRUE, "allowed", FALSE)
SplitOther == Request({1}, TRUE, "allowed", FALSE)
SplitTwo   == Request({0, 1}, TRUE, "allowed", FALSE)
BadSplit   == Request({0}, TRUE, "unknown", FALSE)
StaticVNpu == Request({100}, TRUE, "none", TRUE)

AllRequests == {Plain, NoDevice, Malformed, SplitOne, SplitTwo, BadSplit, StaticVNpu}
LiveRequests == {Plain, SplitOne, SplitOther, BadSplit}
SplitRequests == {SplitOne, SplitOther}
=============================================================================
