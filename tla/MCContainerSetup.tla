-------------------------- MODULE MCContainerSetup --------------------------
(* Small instances of ContainerSetup for TLC. *)
EXTENDS ContainerSetup, TLC

CONSTANTS p1, p2, p3

MCPaths == {p1, p2, p3}
MCWhiteList == {p1, p2}

\* "base" is read when the container names no list; "twin" repeats a path,
\* "alien" has one the cli does not know, "long" is over MaxEntries.
MCListOf ==
  ("base" :> <<p1, p2>>) @@ ("twin" :> <<p2, p2>>) @@ ("alien" :> <<p1, p3>>)
    @@ ("long" :> <<p1, p2, p1>>) @@ ("empty" :> <<>>)

Ask(lists, options, link) ==
  [visible |-> TRUE, lists |-> lists, options |-> options, link |-> link]

NoDevices == [Ask(<<"base">>, <<>>, "False") EXCEPT !.visible = FALSE]

MCRequests ==
  {NoDevices,
   Ask(<<"base">>, <<>>, "False"),
   Ask(<<"base">>, <<"VIRTUAL">>, "True"),
   Ask(<<"base">>, <<"NODRV", "VIRTUAL">>, "False"),
   Ask(<<"base">>, <<"VIRTUAL", "NODRV">>, "False"),
   Ask(<<"base">>, <<"invalid">>, "False"),
   Ask(<<"base">>, <<>>, "invalid"),
   Ask(<<"base", "twin">>, <<>>, "False"),
   Ask(<<"twin", "twin">>, <<"VIRTUAL">>, "True"),
   Ask(<<"empty", "base">>, <<>>, "True"),
   Ask(<<"alien">>, <<>>, "False"),
   Ask(<<"long">>, <<>>, "False"),
   Ask(<<"none">>, <<>>, "False")}

OneRequest == {Ask(<<"base">>, <<>>, "False")}

\* The paths the cli knows begin as anything, p2 only as what a changing
\* host makes least of; both may become anything.
MCHosts == {h \in [MCPaths -> Kinds] :
              h[p2] \in {"missing", "file", "dir"} /\ h[p3] = "file"}

\* A rootfs with nothing there, and one where each known path is something.
MCImages ==
  {[p \in MCPaths |-> "none"],
   (p1 :> "dir") @@ (p2 :> "file") @@ (p3 :> "none")}
=============================================================================
