------------------------------ MODULE VnpuPool ------------------------------
(***************************************************************************)
(* What the runtime, the OCI poststop hook and the NPU driver promise      *)
(* together about virtual NPUs, with every file and process left out: a    *)
(* unit is acquired by a client that holds none, only its holder gives it  *)
(* back, and a client that goes away without giving it back abandons it    *)
(* for good.  Units the administrator split off are never touched.         *)
(***************************************************************************)
CONSTANTS
  Clients,   \* those who acquire units: the containers
  Units,     \* the vNPU ids the driver can hand out
  Free,      \* "holder" of a unit that is not split off
  Admin,     \* holder of a unit split off by the administrator
  Orphan     \* "holder" of a unit whose client went away

VARIABLE holder

Init == holder \in [Units -> {Free, Admin}]

Acquire(c, u) ==
  /\ holder[u] = Free
  /\ \A w \in Units : holder[w] # c
  /\ holder' = [holder EXCEPT ![u] = c]

Release(c, u) ==
  /\ holder[u] = c
  /\ holder' = [holder EXCEPT ![u] = Free]

Abandon(c) ==
  holder' = [u \in Units |-> IF holder[u] = c THEN Orphan ELSE holder[u]]

Next ==
  \E c \in Clients :
    \/ \E u \in Units : Acquire(c, u) \/ Release(c, u)
    \/ Abandon(c)

Spec == Init /\ [][Next]_holder
=============================================================================
