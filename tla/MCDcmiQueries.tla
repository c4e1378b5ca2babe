--------------------------- MODULE MCDcmiQueries ----------------------------
(* Small instances of DcmiQueries for TLC. *)
EXTENDS DcmiQueries

\* A host with these cards; device d of the i-th card has the logic id
\* logics[i][d + 1], and physical ids are logic ids but for 1 and 2, which
\* change places, and 7 and 8, which nobody has (7 is out of the range).
MakeHost(cs, logics, marks, atlas, ns, size) ==
  LET At(card) == CHOOSE i \in DOMAIN cs : cs[i] = card
      Cells == UNION {{<<cs[i], d - 1>> : d \in DOMAIN logics[i]} : i \in DOMAIN cs}
  IN  [cards |-> cs,
       num |-> [card \in ToSet(cs) |-> Len(logics[At(card)])],
       logic |-> [cd \in Cells |-> logics[At(cd[1])][cd[2] + 1]],
       name |-> [cd \in Cells |-> IF cd = <<cs[1], 0>> /\ Len(cs) > 2 THEN {"blank"} ELSE marks],
       atlas200 |-> atlas,
       logicOf |-> 0 :> 0 @@ 1 :> 2 @@ 2 :> 1 @@ 7 :> 200 @@ 8 :> 5,
       nodes |-> ns, lib |-> size]

Server == {"davinci_manager", "common"}

MCHosts == {
  MakeHost(<<0, 1>>, <<<<0, 1>>, <<2, 3>>>>, {"910"}, FALSE, Server, 5),
  MakeHost(<<1, 0>>, <<<<0, 2>>, <<1>>>>, {"310P", "310"}, FALSE, Server, 10),
  MakeHost(<<3, 5, 1>>, <<<<0>>, <<2>>, <<1>>>>, {"310"}, FALSE, Server, 50),
  MakeHost(<<0>>, <<<<0, 1>>>>, {"310"}, TRUE, {"davinci_manager"}, 5),
  MakeHost(<<0>>, <<<<0>>>>, {"310B", "310"}, FALSE, {"davinci_manager", "310B"}, 5),
  MakeHost(<<0>>, <<<<0>>>>, {"310B", "310"}, FALSE, {"davinci_manager_docker"}, 5),
  MakeHost(<<0>>, <<<<0, 1>>>>, {}, FALSE, Server, 5),
  \* odd ones: no card, a negative id, too many devices, a logic id too
  \* large, a card id destroy does not take, a library too large
  MakeHost(<<>>, <<>>, {"910"}, FALSE, Server, 5),
  MakeHost(<<-1, 1>>, <<<<1>>, <<2, 0>>>>, {"910"}, FALSE, Server, 5),
  MakeHost(<<0, 1>>, <<<<0, 1, 2>>, <<3>>>>, {"910"}, FALSE, Server, 5),
  MakeHost(<<0, 1>>, <<<<0, 2>>, <<5>>>>, {"910"}, FALSE, Server, 5),
  MakeHost(<<70000>>, <<<<0, 2>>>>, {"910"}, FALSE, Server, 5),
  MakeHost(<<0>>, <<<<0>>>>, {"910"}, FALSE, Server, 101)}

MCAsks == {[phys |-> p, type |-> t, split |-> s] :
             p \in {0, 1, 2, 7, 8}, t \in Types \cup {None}, s \in BOOLEAN}

MCNotFound == <<2147483647, 2147483647>>
=============================================================================
