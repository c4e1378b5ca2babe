--------------------------- MODULE MCLogDirectory ---------------------------
(* Small instances of LogDirectory for TLC. *)
EXTENDS LogDirectory

CONSTANTS w1, w2

\* Another program's file before the backups, and one behind them.
MCStrangers == {0, 9}
MCBackups == 1 .. 5
=============================================================================
