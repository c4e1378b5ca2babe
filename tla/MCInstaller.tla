---------------------------- MODULE MCInstaller ----------------------------
(* Small instances of Installer for TLC. *)
EXTENDS Installer, TLC

CONSTANTS docker, isula, home, opt

MCTypes == <<"A500", "A500A2", "A200">>

Ask(op, version, type, engine, path, pid) ==
  [op |-> op, version |-> version, type |-> type, engine |-> engine,
   path |-> path, pid |-> pid]

\* Both engines, two paths, upgrades with and without a type.
MCRequests ==
  {Ask("install", 1, "A500A2", docker, home, 1),
   Ask("install", 2, None, docker, opt, 1),
   Ask("install", 2, "A500A2", isula, home, 2),
   Ask("upgrade", 2, None, docker, home, 1),
   Ask("upgrade", 2, "A500", docker, home, 1),
   Ask("uninstall", 1, None, docker, home, 1),
   Ask("uninstall", 1, None, docker, home, 2),
   Ask("uninstall", 1, None, docker, opt, 1),
   Ask("uninstall", 1, None, isula, home, 2)}

\* A file with another default runtime, none, one that does not parse, and
\* entries that are no objects.
Before(runtimes, ascend, default) ==
  [runtimes |-> runtimes, ascend |-> ascend, default |-> default, user |-> "some"]

MCFiles ==
  {Missing, Torn, Before("map", None, "other"), Before(Missing, None, None),
   Before(Other, None, None), Before("map", Other, None)}

MCFirst ==
  {d \in [Engines -> MCFiles] :
     d[isula] = IF d[docker] = Missing THEN Before("map", None, "other") ELSE Missing}
=============================================================================
