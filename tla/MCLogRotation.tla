--------------------------- MODULE MCLogRotation ---------------------------
(* Small instances of LogRotation for TLC. *)
EXTENDS LogRotation, TLC

\* Processes are alike, and so are inodes.
MCSymmetry == Permutations(Procs) \cup Permutations(Inodes)
=============================================================================
