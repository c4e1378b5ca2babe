-------------------------- MODULE InstallerProofs --------------------------
(***************************************************************************)
(* The properties of Installer for all engines, paths, versions and        *)
(* command lines, any number of runs and any faults.                       *)
(***************************************************************************)
EXTENDS Installer, FiniteSetTheorems, WellFoundedInduction, TLAPS

-----------------------------------------------------------------------------
(* UserSettingsKept and DefaultDefined.  Only four steps touch what the    *)
(* helper works on: Helper computes the new content, WriteTemp writes it,  *)
(* a fault there may leave it torn, and MoveTemp makes it daemon.json.     *)
(* All others are Quiet.                                                   *)

LEMMA StrangeValues ==
  /\ None \notin Daemon /\ Missing \notin Daemon /\ Torn \notin Daemon
  /\ None \notin Requests
BY InstallerAssumption

\* Values that are no daemon.json are sound.
LEMMA StrangeSound == Sound(None) /\ Sound(Missing) /\ Sound(Torn)
BY StrangeValues DEF Sound

LEMMA RequestFields ==
  ASSUME NEW r \in Requests
  PROVE  r.engine \in Engines /\ r.path \in Paths /\ r.pid \in Pids
BY InstallerAssumption DEF Request

\* The initial states satisfy the inductive invariant.
THEOREM InitIInv == Init => IInv
<1> SUFFICES ASSUME Init PROVE IInv
  OBVIOUS
<1>1. first \in [Engines -> Daemon \cup {Missing, Torn}] /\ daemon = first
  BY InstallerAssumption DEF Init
<1>2. HelperTypes
  BY <1>1 DEF Init, HelperTypes
<1>3. HelperHasInput /\ MadeKept
  BY DEF Init, HelperHasInput, MadeKept
<1>4. AllSound
  BY <1>1, StrangeSound, InstallerAssumption DEF Init, AllSound
<1>5. UserSettingsKept
  BY <1>1 DEF UserSettingsKept, Kept
<1> QED BY <1>2, <1>3, <1>4, <1>5 DEF IInv

\* Where a step that goes on leads to.
LEMMA Advances ==
  ASSUME Advance
  PROVE  /\ step = "dirs" => run' = run /\ step' = "copy"
         /\ step = "copy" => run' = run /\ step' \in {"copy", "list"}
         /\ step = "list" => run' = run /\ step' = "so"
         /\ step = "so" => run' = run /\ step' = IF run.op = "install" THEN "daemon" ELSE "args"
         /\ step = "script" => run' = run /\ step' = "daemon"
         /\ step = "daemon" => run' = run /\ step' = "temp"
         /\ step = "temp" => run' = run /\ step' = "move"
         /\ step = "move" => run' = run /\ step' = IF run.op = "install" THEN "args" ELSE "config"
         /\ step = "config" => run' = run /\ step' = "remove"
         /\ step \in {"args", "remove"} => run' = None /\ step' = "idle"
BY DEF Advance, Goto, Exit

\* A step that leaves daemon.json alone and is not on the helper's way.
Quiet ==
  /\ UNCHANGED <<daemon, first>>
  /\ made' \in {made, None}
  /\ tmp' = tmp \/ tmp' = [tmp EXCEPT ![run.engine][run.pid] = Torn]
  /\ unnoticed => unnoticed'
  /\ run' \in Requests \cup {None}
  /\ step' = "idle" <=> run' = None
  /\ step' \notin {"temp", "move"}
  /\ step' = "daemon" /\ run'.op # "install" => daemon[run'.engine] # Missing

LEMMA QuietStep ==
  ASSUME IInv, Quiet
  PROVE  IInv'
<1>1. HelperTypes'
  <2> DEFINE torn == [tmp EXCEPT ![run.engine][run.pid] = Torn]
             Files == [Engines -> [Pids -> Daemon \cup {Missing, Torn}]]
  <2>1. tmp \in Files
    BY DEF IInv, HelperTypes
  <2>2. torn \in Files
    <3>1. CASE run.engine \in Engines
      <4>1. [tmp[run.engine] EXCEPT ![run.pid] = Torn] \in [Pids -> Daemon \cup {Missing, Torn}]
        BY <2>1, <3>1
      <4> QED BY <2>1, <3>1, <4>1
    <3>2. CASE run.engine \notin Engines
      BY <2>1, <3>2
    <3> QED BY <3>1, <3>2
  <2>3. tmp' \in Files
    BY <2>1, <2>2 DEF Quiet
  <2> QED BY <2>3 DEF IInv, HelperTypes, Quiet
<1>2. HelperHasInput' /\ MadeKept'
  <2>1. conf' = daemon[run'.engine]
    BY DEF conf, Quiet
  <2>2. step' \notin {"temp", "move"} /\ (step' = "daemon" /\ run'.op # "install" => conf' # Missing)
    BY <2>1 DEF Quiet
  <2> QED BY <2>2 DEF HelperHasInput, MadeKept
<1>3. AllSound'
  <2>1. Sound(made)'
    BY StrangeSound DEF IInv, AllSound, Quiet, Sound
  <2>2. ASSUME NEW e \in Engines, NEW d \in Pids PROVE Sound(tmp'[e][d])
    BY StrangeSound DEF IInv, AllSound, Quiet, HelperTypes
  <2>3. ASSUME NEW e \in Engines PROVE Sound(daemon[e])'
    BY DEF IInv, AllSound, Quiet, Sound
  <2> QED BY <2>1, <2>2, <2>3 DEF AllSound, Sound
<1>4. UserSettingsKept'
  BY DEF IInv, UserSettingsKept, Kept, Quiet
<1> QED BY <1>1, <1>2, <1>3, <1>4 DEF IInv

LEMMA BeginQuiet == ASSUME IInv, NEW r \in Requests, Begin(r) PROVE Quiet
<1>1. step' \in {"script", "dirs"} /\ run' = r /\ made' = None
  BY DEF Begin
<1>2. UNCHANGED <<daemon, first, tmp, unnoticed>>
  BY DEF Begin, host, history
<1> QED BY <1>1, <1>2, StrangeValues DEF Quiet

\* Every step of a script but those at the temporary file.
LEMMA StepQuiet ==
  ASSUME IInv, Step, step \notin {"temp", "move"}
  PROVE  Quiet
<1>1. UNCHANGED <<made, first, unnoticed>>
  BY DEF Step
<1>2. UNCHANGED <<daemon, tmp>>
  BY DEF Step, MakeDirs, CopyPart, PutList, AddSo, SaveArgs, WriteTemp, MoveTemp,
     Script, RemoveConfig, RemoveTree, host
<1>3. \/ run' = None /\ step' = "idle"
      \/ run' = run /\ step' \in {"copy", "list", "so", "args", "remove"}
      \/ run' = run /\ step' = "daemon" /\ (run.op = "install" \/ conf # Missing)
  <2>1. CASE MakeDirs
    BY <2>1, Advances DEF MakeDirs, Exit
  <2>2. CASE CopyPart
    BY <2>2, Advances DEF CopyPart
  <2>3. CASE PutList
    BY <2>3, Advances DEF PutList
  <2>4. CASE AddSo
    BY <2>4, Advances DEF AddSo, Exit
  <2>5. CASE SaveArgs
    BY <2>5, Advances DEF SaveArgs
  <2>6. CASE Script
    BY <2>6, Advances DEF Script, Exit
  <2>7. CASE RemoveConfig
    BY <2>7, Advances DEF RemoveConfig
  <2>8. CASE RemoveTree
    BY <2>8, Advances DEF RemoveTree
  <2>9. CASE WriteTemp \/ MoveTemp
    BY <2>9 DEF WriteTemp, MoveTemp
  <2> QED BY <2>1, <2>2, <2>3, <2>4, <2>5, <2>6, <2>7, <2>8, <2>9 DEF Step
<1>4. step # "idle"
  BY DEF Step, MakeDirs, CopyPart, PutList, AddSo, SaveArgs, WriteTemp, MoveTemp,
     Script, RemoveConfig, RemoveTree
<1>5. run \in Requests
  BY <1>4 DEF IInv, HelperTypes
<1>6. conf = daemon[run.engine]
  BY DEF conf
<1> QED BY <1>1, <1>2, <1>3, <1>5, <1>6, StrangeValues DEF Quiet

\* A fault leaves no more than a torn temporary file.
LEMMA FaultQuiet == ASSUME IInv, Fault PROVE Quiet
<1>1. UNCHANGED <<made, first>> /\ step # "idle" /\ (unnoticed => unnoticed')
  BY DEF Fault
<1>2. UNCHANGED daemon /\ (tmp' = tmp \/ tmp' = [tmp EXCEPT ![run.engine][run.pid] = Torn])
  BY DEF Fault, Partly, host
<1>3. \/ run' = None /\ step' = "idle"
      \/ run' = run /\ step' \in {"copy", "list", "so", "args", "config", "remove"}
  <2>1. CASE Exit("stopped")
    BY <2>1 DEF Exit
  <2>2. CASE step \in Unchecked /\ Advance
    BY <2>2, Advances DEF Unchecked
  <2> QED BY <2>1, <2>2 DEF Fault
<1>4. run \in Requests
  BY <1>1 DEF IInv, HelperTypes
<1> QED BY <1>1, <1>2, <1>3, <1>4, StrangeValues DEF Quiet

\* What the helper computes is a daemon.json with the user's settings and
\* with its default runtime.
LEMMA Modified ==
  ASSUME IInv, run \in Requests, ~ Unmodifiable, run.op # "install" => conf # Missing,
         NEW d, d = IF run.op = "install" THEN AddRuntime(conf) ELSE RemoveRuntime(conf)
  PROVE  d \in Daemon /\ Sound(d) /\ (~ unnoticed => Kept(run.engine, d))
<1>1. run.engine \in Engines /\ run.path \in Paths
  BY RequestFields
<1>2. conf \in Daemon \cup {Missing, Torn} /\ conf # Torn
  BY <1>1 DEF IInv, HelperTypes, conf, Unmodifiable
<1>3. ~ unnoticed => Kept(run.engine, conf)
  BY <1>1 DEF IInv, UserSettingsKept, conf
<1>4. Sound(conf)
  BY <1>1 DEF IInv, AllSound, conf
<1>5. None \notin Paths /\ None # "ascend"
  BY InstallerAssumption
<1>6. CASE run.op = "install"
  <2> DEFINE old == IF conf # Missing THEN conf
                    ELSE [runtimes |-> "map", ascend |-> None, default |-> None, user |-> None]
  <2>1. old \in Daemon
    BY <1>2 DEF Daemon
  <2>2. d = [old EXCEPT !.runtimes = "map", !.ascend = run.path,
                        !.default = IF run.engine \in Reserving THEN @ ELSE "ascend"]
    BY <1>6 DEF AddRuntime
  <2> HIDE DEF old
  <2>3. d \in Daemon /\ d.ascend = run.path /\ d.user = old.user
    BY <1>1, <2>1, <2>2 DEF Daemon
  <2>4. Sound(d)
    BY <1>1, <1>5, <2>3 DEF Sound
  <2>5. conf \in Daemon => old = conf
    BY StrangeValues DEF old
  <2>6. ~ unnoticed => Kept(run.engine, d)
    BY <1>2, <1>3, <2>3, <2>5 DEF Kept
  <2> QED BY <2>3, <2>4, <2>6
<1>7. CASE run.op # "install"
  <2>1. conf \in Daemon
    BY <1>2, <1>7
  <2>2. d = [conf EXCEPT !.ascend = IF conf.runtimes = "map" THEN None ELSE @,
                         !.default = IF @ = "ascend" THEN None ELSE @]
    BY <1>7 DEF RemoveRuntime
  <2>3. d \in Daemon /\ d.user = conf.user /\ d.default # "ascend"
    BY <1>5, <2>1, <2>2 DEF Daemon
  <2>4. Sound(d)
    BY <2>3 DEF Sound
  <2>5. ~ unnoticed => Kept(run.engine, d)
    BY <1>2, <1>3, <2>1, <2>3 DEF Kept
  <2> QED BY <2>3, <2>4, <2>5
<1> QED BY <1>6, <1>7

LEMMA HelperStep == ASSUME IInv, Helper PROVE IInv'
<1>1. step = "daemon" /\ run \in Requests
  BY DEF Helper, IInv, HelperTypes
<1>2. UNCHANGED <<daemon, tmp, first, unnoticed>>
  BY DEF Helper, host, history
<1>3. CASE HelperRefuses
  <2>1. UNCHANGED made /\ run' = None /\ step' = "idle"
    BY <1>3 DEF Helper, Exit
  <2>2. Quiet
    BY <1>2, <2>1, StrangeValues DEF Quiet
  <2> QED BY <2>2, QuietStep
<1>4. CASE ~ HelperRefuses
  <2>1. made' = IF run.op = "install" THEN AddRuntime(conf) ELSE RemoveRuntime(conf)
    BY <1>4 DEF Helper
  <2>2. run' = run /\ step' = "temp"
    BY <1>1, <1>4, Advances DEF Helper
  <2>3. run.op # "install" => conf # Missing
    BY <1>1 DEF IInv, HelperHasInput
  <2>4. ~ Unmodifiable
    BY <1>4 DEF HelperRefuses
  <2>5. made' \in Daemon /\ Sound(made') /\ (~ unnoticed => Kept(run.engine, made'))
    BY <1>1, <2>1, <2>3, <2>4, Modified
  <2>6. HelperTypes'
    BY <1>1, <1>2, <2>2, <2>5, StrangeValues DEF IInv, HelperTypes
  <2>7. HelperHasInput'
    BY <2>2, <2>5 DEF HelperHasInput
  <2>8. AllSound'
    BY <1>2, <2>5 DEF IInv, AllSound, Sound
  <2>9. MadeKept'
    BY <1>2, <2>2, <2>5 DEF MadeKept, Kept
  <2>10. UserSettingsKept'
    BY <1>2 DEF IInv, UserSettingsKept, Kept
  <2> QED BY <2>6, <2>7, <2>8, <2>9, <2>10 DEF IInv
<1> QED BY <1>3, <1>4

\* A helper that did nothing: what is renamed next may be anything, but that
\* went unnoticed.
LEMMA BrokenStep == ASSUME IInv, HelperBroken PROVE IInv'
<1>1. step = "daemon" /\ run \in Requests
  BY DEF HelperBroken, IInv, HelperTypes
<1>2. UNCHANGED <<made, daemon, tmp, first>>
  BY DEF HelperBroken, host
<1>3. CASE Exit("error") /\ UNCHANGED unnoticed
  <2>1. Quiet
    BY <1>2, <1>3 DEF Quiet, Exit
  <2> QED BY <2>1, QuietStep
<1>4. CASE Goto("move") /\ unnoticed' = TRUE
  <2>1. run' = run /\ step' = "move" /\ unnoticed'
    BY <1>4 DEF Goto
  <2>2. HelperTypes'
    BY <1>1, <1>2, <2>1, StrangeValues DEF IInv, HelperTypes
  <2>3. HelperHasInput' /\ MadeKept' /\ UserSettingsKept'
    BY <2>1 DEF HelperHasInput, MadeKept, UserSettingsKept
  <2>4. AllSound'
    BY <1>2 DEF IInv, AllSound, Sound
  <2> QED BY <2>2, <2>3, <2>4 DEF IInv
<1> QED BY <1>3, <1>4 DEF HelperBroken

LEMMA WriteStep == ASSUME IInv, Step, step = "temp" PROVE IInv'
<1>1. WriteTemp
  BY DEF Step, MakeDirs, CopyPart, PutList, AddSo, SaveArgs, MoveTemp, Script,
     RemoveConfig, RemoveTree
<1>2. UNCHANGED <<made, daemon, first, unnoticed>>
  BY <1>1 DEF Step, WriteTemp
<1>3. run' = run /\ step' = "move" /\ run \in Requests
  BY <1>1, Advances DEF WriteTemp, IInv, HelperTypes
<1>4. run.engine \in Engines /\ run.pid \in Pids
  BY <1>3, RequestFields
<1>5. tmp' = [tmp EXCEPT ![run.engine][run.pid] = made] /\ made \in Daemon
  BY <1>1 DEF WriteTemp, IInv, HelperHasInput
<1>6. HelperTypes'
  BY <1>2, <1>3, <1>4, <1>5, StrangeValues DEF IInv, HelperTypes
<1>7. HelperHasInput'
  BY <1>3 DEF HelperHasInput
<1>8. AllSound'
  <2>1. Sound(made)
    BY DEF IInv, AllSound
  <2>2. ASSUME NEW e \in Engines, NEW d \in Pids PROVE Sound(tmp'[e][d])
    BY <1>4, <1>5, <2>1 DEF IInv, AllSound, HelperTypes
  <2>3. ASSUME NEW e \in Engines PROVE Sound(daemon'[e])
    BY <1>2 DEF IInv, AllSound
  <2> QED BY <1>2, <2>1, <2>2, <2>3 DEF AllSound, Sound
<1>9. MadeKept'
  <2>1. tmp'[run.engine][run.pid] = made
    BY <1>4, <1>5 DEF IInv, HelperTypes
  <2> QED BY <1>2, <1>3, <1>5, <2>1 DEF IInv, MadeKept, Kept
<1>10. UserSettingsKept'
  BY <1>2 DEF IInv, UserSettingsKept, Kept
<1> QED BY <1>6, <1>7, <1>8, <1>9, <1>10 DEF IInv

LEMMA MoveStep == ASSUME IInv, Step, step = "move" PROVE IInv'
<1>1. MoveTemp
  BY DEF Step, MakeDirs, CopyPart, PutList, AddSo, SaveArgs, WriteTemp, Script,
     RemoveConfig, RemoveTree
<1>2. UNCHANGED <<made, first, unnoticed>>
  BY <1>1 DEF Step
<1>3. run' = run /\ step' \in {"args", "config"} /\ run \in Requests
  BY <1>1, Advances DEF MoveTemp, IInv, HelperTypes
<1>4. run.engine \in Engines /\ run.pid \in Pids
  BY <1>3, RequestFields
<1>5. CASE ~ LeftOver
  <2>1. UNCHANGED <<daemon, tmp>>
    BY <1>1, <1>5 DEF MoveTemp
  <2>2. Quiet
    BY <1>2, <1>3, <2>1, StrangeValues DEF Quiet
  <2> QED BY <2>2, QuietStep
<1>6. CASE LeftOver
  <2> DEFINE new == tmp[run.engine][run.pid]
  <2>1. /\ daemon' = [daemon EXCEPT ![run.engine] = new]
        /\ tmp' = [tmp EXCEPT ![run.engine][run.pid] = Missing]
    BY <1>1, <1>6 DEF MoveTemp
  <2>2. new \in Daemon \cup {Missing, Torn} /\ Sound(new)
    BY <1>4 DEF IInv, HelperTypes, AllSound
  <2>3. ~ unnoticed => Kept(run.engine, new)
    BY DEF IInv, MadeKept
  <2> HIDE DEF new
  <2>4. HelperTypes'
    BY <1>2, <1>3, <1>4, <2>1, <2>2, StrangeValues DEF IInv, HelperTypes
  <2>5. HelperHasInput' /\ MadeKept'
    BY <1>3 DEF HelperHasInput, MadeKept
  <2>6. AllSound'
    <3>1. ASSUME NEW e \in Engines, NEW d \in Pids PROVE Sound(tmp'[e][d])
      BY <1>4, <2>1, StrangeSound DEF IInv, AllSound, HelperTypes
    <3>2. ASSUME NEW e \in Engines PROVE Sound(daemon'[e])
      BY <1>4, <2>1, <2>2 DEF IInv, AllSound, HelperTypes
    <3>3. Sound(made)
      BY DEF IInv, AllSound
    <3> QED BY <1>2, <3>1, <3>2, <3>3 DEF AllSound, Sound
  <2>7. UserSettingsKept'
    <3> SUFFICES ASSUME ~ unnoticed, NEW e \in Engines PROVE Kept(e, daemon'[e])
      BY <1>2 DEF UserSettingsKept, Kept
    <3>1. Kept(e, daemon[e])
      BY DEF IInv, UserSettingsKept
    <3>2. daemon'[e] = IF e = run.engine THEN new ELSE daemon[e]
      BY <2>1 DEF IInv, HelperTypes
    <3> QED BY <2>3, <3>1, <3>2 DEF Kept
  <2> QED BY <2>4, <2>5, <2>6, <2>7 DEF IInv
<1> QED BY <1>5, <1>6

\* IInv is an invariant for all engines, paths, command lines and bounds.
THEOREM InstallerInvariance == Spec => []IInv
<1>1. IInv /\ [Next]_vars => IInv'
  <2> SUFFICES ASSUME IInv, [Next]_vars PROVE IInv'
    OBVIOUS
  <2>1. ASSUME NEW r \in Requests, Begin(r) PROVE IInv'
    BY <2>1, BeginQuiet, QuietStep
  <2>2. CASE Step
    BY <2>2, StepQuiet, QuietStep, WriteStep, MoveStep
  <2>3. CASE Helper
    BY <2>3, HelperStep
  <2>4. CASE HelperBroken
    BY <2>4, BrokenStep
  <2>5. CASE Fault
    BY <2>5, FaultQuiet, QuietStep
  <2>6. CASE UNCHANGED vars
    BY <2>6 DEF vars, host, history, IInv, HelperTypes, HelperHasInput, AllSound, Sound,
       MadeKept, UserSettingsKept, Kept, conf
  <2> QED BY <2>1, <2>2, <2>3, <2>4, <2>5, <2>6 DEF Next
<1> QED BY InitIInv, <1>1, PTL DEF Spec

\* However often the scripts are run and stopped, the user's part of
\* daemon.json stays, as long as no failing command went unnoticed.
THEOREM SettingsKept == Spec => []UserSettingsKept
<1>1. IInv => UserSettingsKept
  BY DEF IInv
<1> QED BY <1>1, InstallerInvariance, PTL

\* No daemon.json the helper made names a default runtime that it does not
\* define, not even after failures that went unnoticed.
THEOREM DefaultAlwaysDefined == Spec => []DefaultDefined
<1>1. IInv => DefaultDefined
  BY DEF IInv, AllSound, DefaultDefined
<1> QED BY <1>1, InstallerInvariance, PTL

-----------------------------------------------------------------------------
(* TypeOK, NamedIsThere, SuccessIsTrue and ErrorHasCause: what the scripts *)
(* leave in the installed trees.  TInv says how far a run has come at each *)
(* of its steps; it rests on IInv.                                         *)

TreeTypes ==
  /\ step \in Steps /\ copied \in 0 .. Len(Parts)
  /\ inst \in [Paths -> Tree] /\ confDir \in BOOLEAN /\ list \in List
  /\ knownOs \in BOOLEAN
  /\ runs \in 0 .. MaxRuns /\ faults \in 0 .. MaxFaults
  /\ last \in [run : Requests, result : Results] \cup {None}
  /\ unnoticed \in BOOLEAN /\ orphans \subseteq Engines

\* Which command can be where.
Where ==
  /\ step \in {"daemon", "temp", "move"} => run.op # "upgrade"
  /\ step \in {"script", "config", "remove"} => run.op = "uninstall"
  /\ step \in {"dirs", "copy", "list", "so", "args"} => run.op # "uninstall"
  /\ step = "dirs" => copied = 0
  /\ step = "copy" => copied < Len(Parts)

\* daemon.json is the user's or made by the helper.  Its entry is this
\* path's from the rename of an installation on, and no path's from that of
\* a removal on.
InDaemon ==
  ~ unnoticed =>
    /\ \A e \in Engines : /\ daemon[e] \in Daemon \cup {first[e]}
                          /\ \A p \in Paths : Names(e, p) => daemon[e].runtimes = "map"
    /\ step \in {"temp", "move"} =>
         IF run.op = "install" THEN made.runtimes = "map" /\ made.ascend = run.path
                               ELSE made.ascend \notin Paths
    /\ step \in {"config", "remove"} => \A p \in Paths : ~ Names(run.engine, p)
    /\ step = "args" /\ run.op = "install" =>
         Names(run.engine, run.path) /\ tmp[run.engine][run.pid] = Missing

\* The files that were copied are of the new version.
CopiedSoFar ==
  ~ unnoticed /\ step \notin {"idle", "dirs"} /\ run.op # "uninstall" =>
    /\ step # "copy" => copied = Len(Parts)
    /\ run.op = "install" => tree.script
    /\ \A k \in 1 .. copied :
         files[Parts[k]] # run.version => run.op = "upgrade" /\ Parts[k] = "uninstall.sh"

\* base.list is the one of the type, then with the libraries; or gone.
ListSoFar ==
  ~ unnoticed =>
    /\ step = "so" /\ Recorded => list = [type |-> Kind, so |-> FALSE]
    /\ step \in {"daemon", "temp", "move", "args"} /\ run.op # "uninstall" /\ Recorded =>
         list = [type |-> Kind, so |-> Kind \in SoTypes]
    /\ step = "remove" => list = Missing

Progress == InDaemon /\ CopiedSoFar /\ ListSoFar
TInv == TreeTypes /\ Where /\ Progress

-----------------------------------------------------------------------------
(* The operators.                                                          *)

LEMMA PartFacts ==
  /\ Len(Parts) = 6 /\ DOMAIN Parts = 1 .. 6
  /\ PartNames = {"runtime", "hook", "cli", "helper", "destroy", "uninstall.sh"}
  /\ \A k \in 1 .. 6 : Parts[k] \in PartNames
  /\ \A f \in PartNames : \E k \in 1 .. 6 : f = Parts[k]
  /\ \A k, j \in 1 .. 6 : Parts[k] = Parts[j] => k = j
  /\ \A k \in 1 .. 6 : Parts[k] = "uninstall.sh" <=> k = 6
<1>1. Len(Parts) = 6 /\ DOMAIN Parts = 1 .. 6
  BY DEF Parts
<1>2. /\ Parts[1] = "runtime" /\ Parts[2] = "hook" /\ Parts[3] = "cli"
      /\ Parts[4] = "helper" /\ Parts[5] = "destroy" /\ Parts[6] = "uninstall.sh"
  BY DEF Parts
<1>3. \A k \in 1 .. 6 : k = 1 \/ k = 2 \/ k = 3 \/ k = 4 \/ k = 5 \/ k = 6
  OBVIOUS
<1>4. PartNames = {"runtime", "hook", "cli", "helper", "destroy", "uninstall.sh"}
  BY <1>1, <1>2, <1>3 DEF PartNames
<1>5. \A k \in 1 .. 6 : Parts[k] \in PartNames
  BY <1>1 DEF PartNames
<1>6. \A f \in PartNames : \E k \in 1 .. 6 : f = Parts[k]
  BY <1>1 DEF PartNames
<1>7. \A k, j \in 1 .. 6 : Parts[k] = Parts[j] => k = j
  BY <1>2, <1>3
<1>8. \A k \in 1 .. 6 : Parts[k] = "uninstall.sh" <=> k = 6
  BY <1>2, <1>3
<1> QED BY <1>1, <1>4, <1>5, <1>6, <1>7, <1>8

\* A set of positions that is not empty has a first one.
LEMMA FirstPosition ==
  ASSUME NEW n \in Nat, NEW M, M \subseteq 1 .. n, M # {}
  PROVE  \E k \in M : \A j \in M : k <= j
<1> DEFINE UpTo(k) == {j \in M : j <= k}
           Ups == {UpTo(k) : k \in M}
           R == StrictSubsetOrdering(1 .. n)
<1>1. IsWellFoundedOn(R, SUBSET (1 .. n))
  <2>1. IsFiniteSet(1 .. n)
    BY FS_Interval
  <2> QED BY <2>1, FS_StrictSubsetOrderingWellFounded, FS_FiniteSubsetsOfFinite, Zenon
<1>2. Ups \subseteq SUBSET (1 .. n) /\ Ups # {}
  OBVIOUS
<1>3. \E U \in Ups : \A V \in Ups : ~ (<<V, U>> \in R)
  <2>1. ASSUME NEW Q, NEW All, NEW T, IsWellFoundedOn(Q, All), T \subseteq All, T # {}
        PROVE  \E U \in T : \A V \in T : ~ (<<V, U>> \in Q)
    BY <2>1, WFMin
  <2> QED BY <1>1, <1>2, <2>1
<1>4. PICK k \in M : \A V \in Ups : ~ (<<V, UpTo(k)>> \in R)
  BY <1>3
<1>5. ASSUME NEW j \in M, ~ (k <= j) PROVE FALSE
  <2>1. j \in Nat /\ k \in Nat /\ j < k
    BY <1>5
  <2>2. UpTo(j) \subseteq UpTo(k) /\ k \in UpTo(k) /\ k \notin UpTo(j)
    <3>1. ASSUME NEW i \in M, i <= j PROVE i <= k
      BY <2>1, <3>1
    <3>2. k <= k /\ ~ (k <= j)
      BY <2>1
    <3> QED BY <2>1, <3>1, <3>2
  <2>3. <<UpTo(j), UpTo(k)>> \in R
    BY <2>2 DEF StrictSubsetOrdering
  <2> QED BY <1>4, <2>3
<1> QED BY <1>5

\* The type an upgrade finds is one of those marked, if there is any.
LEMMA FoundType ==
  ASSUME NEW info \in SUBSET TypeSet
  PROVE  /\ ListType(info) \in info \cup {None}
         /\ info # {} => ListType(info) \in info
         /\ info = {} => ListType(info) = None
<1> DEFINE marked == {k \in DOMAIN Types : Types[k] \in info}
<1>1. DOMAIN Types = 1 .. Len(Types) /\ Len(Types) \in Nat
  BY TreeAssumption
<1>2. info # {} => marked # {}
  <2> SUFFICES ASSUME NEW t \in info PROVE marked # {}
    OBVIOUS
  <2>1. PICK k \in DOMAIN Types : t = Types[k]
    BY DEF TypeSet
  <2> QED BY <2>1
<1>3. CASE marked = {}
  BY <1>2, <1>3 DEF ListType
<1>4. CASE marked # {}
  <2> DEFINE k == CHOOSE k \in marked : \A j \in marked : k <= j
  <2>1. \E i \in marked : \A j \in marked : i <= j
    BY <1>1, <1>4, FirstPosition
  <2>2. k \in marked
    BY <2>1
  <2>3. ListType(info) = Types[k]
    BY <1>4 DEF ListType
  <2> QED BY <2>2, <2>3
<1> QED BY <1>3, <1>4

LEMMA KindType ==
  ASSUME TreeTypes, run \in Requests
  PROVE  /\ Recorded => Kind \in TypeSet \cup {None}
         /\ Recorded => Saved \subseteq TypeSet
         /\ ~ Upgrades => Kind = run.type
         /\ Recorded /\ Upgrades => Kind = ListType(tree.info) /\ tree.info \in SUBSET TypeSet
<1>1. run.path \in Paths /\ run.type \in TypeSet \cup {None}
  BY InstallerAssumption DEF Request
<1>2. tree.info \in (SUBSET TypeSet) \cup {Missing}
  BY <1>1 DEF TreeTypes, tree, Tree
<1>3. CASE Upgrades /\ Recorded
  BY <1>1, <1>2, <1>3, FoundType DEF Recorded, Kind, Saved
<1>4. CASE ~ Upgrades
  BY <1>1, <1>4 DEF Kind, Saved
<1> QED BY <1>3, <1>4 DEF Recorded

-----------------------------------------------------------------------------
(* How a run moves on.                                                     *)

\* A step that goes on, or ends the run with success.
LEMMA GoesOn ==
  ASSUME Advance, step \in Steps \ {"idle"}
  PROVE  IF step \in {"args", "remove"}
         THEN run' = None /\ step' = "idle" /\ last' = [run |-> run, result |-> "success"]
         ELSE /\ run' = run /\ last' = last
              /\ step = "dirs" => step' = "copy"
              /\ step = "copy" => step' = IF copied + 1 < Len(Parts) THEN "copy" ELSE "list"
              /\ step = "list" => step' = "so"
              /\ step = "so" => step' = IF run.op = "install" THEN "daemon" ELSE "args"
              /\ step = "script" => step' = "daemon"
              /\ step = "daemon" => step' = "temp"
              /\ step = "temp" => step' = "move"
              /\ step = "move" => step' = IF run.op = "install" THEN "args" ELSE "config"
              /\ step = "config" => step' = "remove"
BY DEF Advance, Goto, Exit, Steps

LEMMA Running ==
  ASSUME IInv, TInv, step # "idle"
  PROVE  run \in Requests /\ run.engine \in Engines /\ run.path \in Paths /\ run.pid \in Pids
         /\ run.version \in Versions /\ run.op \in {"install", "upgrade", "uninstall"}
         /\ run.type \in TypeSet \cup {None}
<1>1. run \in Requests
  BY DEF IInv, HelperTypes
<1> QED BY <1>1, InstallerAssumption DEF Request

LEMMA InitTInv == Init => TInv
<1> SUFFICES ASSUME Init PROVE TInv
  OBVIOUS
<1>1. 0 \in 0 .. Len(Parts) /\ 0 \in 0 .. MaxRuns /\ 0 \in 0 .. MaxFaults
  BY PartFacts, InstallerAssumption
<1>2. NoTree \in Tree
  BY DEF NoTree, Tree
<1>3. TreeTypes
  BY <1>1, <1>2 DEF Init, TreeTypes, Steps, List
<1>4. Where /\ CopiedSoFar /\ ListSoFar
  BY DEF Init, Where, CopiedSoFar, ListSoFar
<1>5. InDaemon
  <2>1. first \in FirstDaemons /\ daemon = first /\ step = "idle"
    BY DEF Init
  <2>2. ASSUME NEW e \in Engines, NEW p \in Paths PROVE ~ Names(e, p)
    BY <2>1, InstallerAssumption, TreeAssumption DEF Names
  <2> QED BY <2>1, <2>2 DEF InDaemon
<1> QED BY <1>3, <1>4, <1>5 DEF TInv, Progress

-----------------------------------------------------------------------------
(* Types, and which command is where.                                      *)

\* The parts of the state that belong to the run.
ControlTypes ==
  /\ step \in Steps /\ copied \in 0 .. Len(Parts)
  /\ last \in [run : Requests, result : Results] \cup {None}
  /\ Where

LEMMA EndsWell ==
  ASSUME TInv, run \in Requests, NEW result \in Results, Exit(result),
         copied' \in 0 .. Len(Parts)
  PROVE  ControlTypes'
BY DEF Exit, ControlTypes, Where, Steps

LEMMA MovesWell ==
  ASSUME IInv, TInv, Advance, step # "idle",
         copied' = IF step = "copy" THEN copied + 1 ELSE copied
  PROVE  ControlTypes'
<1>1. step \in Steps \ {"idle"}
  BY DEF TInv, TreeTypes
<1>2. copied' \in 0 .. Len(Parts) /\ copied \in Nat /\ (step = "copy" => copied' = copied + 1)
  BY PartFacts DEF TInv, TreeTypes, Where
<1>3. CASE step \in {"args", "remove"}
  BY <1>1, <1>2, <1>3, GoesOn, Running DEF ControlTypes, Where, Steps, Results
<1>4. CASE step \notin {"args", "remove"}
  <2>1. run' = run /\ last' = last /\ run \in Requests
        /\ run.op \in {"install", "upgrade", "uninstall"}
    BY <1>1, <1>4, GoesOn, Running
  <2>2. step' \in Steps /\ Where'
    BY <1>1, <1>2, <1>4, <2>1, GoesOn, PartFacts DEF TInv, Where, Steps
  <2> QED BY <1>2, <2>1, <2>2 DEF TInv, TreeTypes, ControlTypes
<1> QED BY <1>3, <1>4

LEMMA NextControl == ASSUME IInv, TInv, [Next]_vars PROVE ControlTypes'
<1>1. ASSUME NEW r \in Requests, Begin(r) PROVE ControlTypes'
  <2>1. r.op \in {"install", "upgrade", "uninstall"}
    BY InstallerAssumption DEF Request
  <2>2. /\ run' = r /\ step' = IF r.op = "uninstall" THEN "script" ELSE "dirs"
        /\ copied' = 0 /\ last' = None
    BY <1>1 DEF Begin
  <2> QED BY <2>1, <2>2, PartFacts DEF ControlTypes, Where, Steps
<1>2. ASSUME step # "idle", step # "copy", UNCHANGED copied,
             Advance \/ \E result \in Results : Exit(result)
      PROVE  ControlTypes'
  <2>1. copied' \in 0 .. Len(Parts)
    BY <1>2 DEF TInv, TreeTypes
  <2> QED BY <1>2, <2>1, MovesWell, EndsWell, Running
<1>3. CASE Step
  <2>1. copied' = IF step = "copy" THEN copied + 1 ELSE copied
    BY <1>3 DEF Step
  <2>2. CASE CopyPart
    BY <2>1, <2>2, MovesWell DEF CopyPart
  <2>3. CASE MakeDirs
    BY <1>2, <2>1, <2>3 DEF MakeDirs, Results
  <2>4. CASE PutList
    BY <1>2, <2>1, <2>4 DEF PutList
  <2>5. CASE AddSo
    BY <1>2, <2>1, <2>5 DEF AddSo, Results
  <2>6. CASE SaveArgs
    BY <1>2, <2>1, <2>6 DEF SaveArgs
  <2>7. CASE WriteTemp
    BY <1>2, <2>1, <2>7 DEF WriteTemp
  <2>8. CASE MoveTemp
    BY <1>2, <2>1, <2>8 DEF MoveTemp
  <2>9. CASE Script
    BY <1>2, <2>1, <2>9 DEF Script, Results
  <2>10. CASE RemoveConfig
    BY <1>2, <2>1, <2>10 DEF RemoveConfig
  <2>11. CASE RemoveTree
    BY <1>2, <2>1, <2>11 DEF RemoveTree
  <2> QED BY <1>3, <2>2, <2>3, <2>4, <2>5, <2>6, <2>7, <2>8, <2>9, <2>10, <2>11 DEF Step
<1>4. CASE Helper
  BY <1>2, <1>4 DEF Helper, Results
<1>5. CASE HelperBroken
  <2>1. CASE Exit("error")
    BY <1>2, <1>5, <2>1 DEF HelperBroken, Results
  <2>2. CASE Goto("move")
    BY <1>5, <2>2 DEF HelperBroken, Goto, ControlTypes, TInv, TreeTypes, Where, Steps
  <2> QED BY <1>5, <2>1, <2>2 DEF HelperBroken
<1>6. CASE Fault
  <2>1. CASE Exit("stopped") /\ UNCHANGED copied
    <3>1. copied' \in 0 .. Len(Parts) /\ run \in Requests
      BY <1>6, <2>1, Running DEF TInv, TreeTypes, Fault
    <3> QED BY <2>1, <3>1, EndsWell DEF Results
  <2>2. CASE Advance /\ copied' = IF step = "copy" THEN copied + 1 ELSE copied
    BY <1>6, <2>2, MovesWell DEF Fault
  <2> QED BY <1>6, <2>1, <2>2 DEF Fault
<1>7. CASE UNCHANGED vars
  BY <1>7 DEF vars, TInv, TreeTypes, ControlTypes, Where
<1> QED BY <1>1, <1>3, <1>4, <1>5, <1>6, <1>7 DEF Next

\* Replacing a file leaves a tree.
LEMMA PutTyped ==
  ASSUME IInv, TInv, step = "copy", NEW content \in Versions \cup {Torn}, PutPart(content)
  PROVE  inst' \in [Paths -> Tree]
<1> DEFINE f == Parts[copied + 1]
<1>1. run.path \in Paths /\ inst \in [Paths -> Tree]
  BY Running DEF TInv, TreeTypes
<1>2. copied + 1 \in 1 .. 6
  BY PartFacts DEF TInv, TreeTypes, Where
<1>3. f \in PartNames
  BY <1>2, PartFacts
<1>4. inst' = inst \/ inst' = [inst EXCEPT ![run.path].files[f] = content]
  BY DEF PutPart
<1> HIDE DEF f
<1>5. [inst[run.path] EXCEPT !.files[f] = content] \in Tree
  BY <1>1, <1>3 DEF Tree
<1> QED BY <1>1, <1>4, <1>5

LEMMA PartlyTyped ==
  ASSUME IInv, TInv, Partly, step # "idle"
  PROVE  inst' \in [Paths -> Tree] /\ confDir' \in BOOLEAN /\ list' \in List
         /\ orphans' \subseteq Engines
<1>1. run.path \in Paths /\ inst \in [Paths -> Tree] /\ confDir \in BOOLEAN /\ list \in List
      /\ orphans \subseteq Engines
  BY Running DEF TInv, TreeTypes
<1>2. inst[run.path] \in Tree
  BY <1>1
<1>3. CASE step = "copy"
  <2>1. PutPart(Torn) /\ UNCHANGED <<confDir, list, orphans>>
    BY <1>3 DEF Partly
  <2> QED BY <1>1, <1>3, <2>1, PutTyped
<1>4. CASE step = "list"
  <2>1. confDir' = TRUE /\ list' = [type |-> Torn, so |-> FALSE] /\ UNCHANGED <<inst, orphans>>
    BY <1>4 DEF Partly
  <2> QED BY <1>1, <2>1 DEF List
<1>5. CASE step = "args"
  <2>1. [inst[run.path] EXCEPT !.info = {}] \in Tree
    BY <1>2 DEF Tree
  <2> QED BY <1>1, <1>5, <2>1 DEF Partly
<1>6. CASE step = "temp"
  BY <1>1, <1>6 DEF Partly
<1>7. CASE step = "config"
  BY <1>1, <1>7 DEF Partly, List, OthersNaming
<1>8. CASE step = "remove"
  <2>1. PICK gone \in SomeGone, info \in {tree.info, Missing},
             script \in {FALSE, tree.script} :
           inst' = [inst EXCEPT ![run.path] =
                      [dir |-> TRUE, script |-> script, info |-> info,
                       files |-> [f \in PartNames |-> IF f \in gone THEN Missing ELSE files[f]]]]
    BY <1>8 DEF Partly
  <2>2. [dir |-> TRUE, script |-> script, info |-> info,
         files |-> [f \in PartNames |-> IF f \in gone THEN Missing ELSE files[f]]] \in Tree
    BY <1>2 DEF Tree, tree, files
  <2>3. UNCHANGED <<confDir, list>> /\ orphans' = orphans \cup OthersNaming
    BY <1>8 DEF Partly
  <2> QED BY <1>1, <2>1, <2>2, <2>3 DEF OthersNaming
<1> QED BY <1>3, <1>4, <1>5, <1>6, <1>7, <1>8 DEF Partly

LEMMA StepTyped ==
  ASSUME IInv, TInv, Step
  PROVE  inst' \in [Paths -> Tree] /\ confDir' \in BOOLEAN /\ list' \in List
         /\ orphans' \subseteq Engines
<1>1. step # "idle"
  BY DEF Step, MakeDirs, CopyPart, PutList, AddSo, SaveArgs, WriteTemp, MoveTemp,
     Script, RemoveConfig, RemoveTree
<1>2. run \in Requests /\ run.path \in Paths /\ run.version \in Versions
  BY <1>1, Running
<1>3. inst \in [Paths -> Tree] /\ confDir \in BOOLEAN /\ list \in List /\ orphans \subseteq Engines
  BY DEF TInv, TreeTypes
<1>4. inst[run.path] \in Tree
  BY <1>2, <1>3
<1>5. Recorded => Kind \in TypeSet \cup {None} /\ Saved \subseteq TypeSet
  BY <1>2, KindType DEF TInv
<1>6. CASE MakeDirs
  <2>1. [inst[run.path] EXCEPT !.dir = TRUE, !.script = TRUE] \in Tree
    BY <1>4 DEF Tree
  <2> QED BY <1>2, <1>3, <1>6, <2>1 DEF MakeDirs
<1>7. CASE CopyPart
  BY <1>2, <1>3, <1>7, PutTyped DEF CopyPart
<1>8. CASE PutList
  BY <1>3, <1>5, <1>8 DEF PutList, List
<1>9. CASE AddSo
  <2>1. list' = list \/ list' = [type |-> IF list = Missing THEN Torn ELSE list.type, so |-> TRUE]
    BY <1>9 DEF AddSo
  <2>2. [type |-> IF list = Missing THEN Torn ELSE list.type, so |-> TRUE] \in List
    BY <1>3 DEF List
  <2> QED BY <1>3, <1>9, <2>1, <2>2 DEF AddSo
<1>10. CASE SaveArgs
  <2>1. Recorded => [inst[run.path] EXCEPT !.info = Saved] \in Tree
    BY <1>4, <1>5 DEF Tree
  <2>2. inst' = inst \/ (Recorded /\ inst' = [inst EXCEPT ![run.path].info = Saved])
    BY <1>10 DEF SaveArgs
  <2>3. UNCHANGED <<confDir, list, orphans>>
    BY <1>10 DEF SaveArgs
  <2> QED BY <1>2, <1>3, <2>1, <2>2, <2>3
<1>11. CASE WriteTemp
  BY <1>3, <1>11 DEF WriteTemp
<1>12. CASE MoveTemp
  BY <1>3, <1>12 DEF MoveTemp
<1>13. CASE Script
  BY <1>3, <1>13 DEF Script, host
<1>14. CASE RemoveConfig
  BY <1>3, <1>14 DEF RemoveConfig, List, OthersNaming
<1>15. CASE RemoveTree
  <2>1. NoTree \in Tree
    BY DEF NoTree, Tree
  <2> QED BY <1>3, <1>15, <2>1 DEF RemoveTree, OthersNaming
<1> QED BY <1>6, <1>7, <1>8, <1>9, <1>10, <1>11, <1>12, <1>13, <1>14, <1>15 DEF Step

LEMMA NextTypes == ASSUME IInv, TInv, [Next]_vars PROVE TreeTypes' /\ Where'
<1>1. ControlTypes'
  BY NextControl
<1>2. inst' \in [Paths -> Tree] /\ confDir' \in BOOLEAN /\ list' \in List
      /\ orphans' \subseteq Engines
  <2>1. CASE UNCHANGED <<inst, confDir, list, orphans>>
    BY <2>1 DEF TInv, TreeTypes
  <2>2. CASE Step
    BY <2>2, StepTyped
  <2>3. CASE Fault
    <3>1. CASE Partly
      BY <2>3, <3>1, PartlyTyped DEF Fault
    <3>2. CASE UNCHANGED <<host, orphans>>
      BY <2>1, <3>2 DEF host
    <3> QED BY <2>3, <3>1, <3>2 DEF Fault
  <2> QED BY <2>1, <2>2, <2>3 DEF Next, Begin, Helper, HelperBroken, vars, host, history
<1>3. runs' \in 0 .. MaxRuns /\ faults' \in 0 .. MaxFaults
  <2>1. runs \in 0 .. MaxRuns /\ faults \in 0 .. MaxFaults /\ MaxRuns \in Nat /\ MaxFaults \in Nat
    BY InstallerAssumption DEF TInv, TreeTypes
  <2>2. \/ UNCHANGED <<runs, faults>>
        \/ runs < MaxRuns /\ runs' = runs + 1 /\ faults' = faults
        \/ faults < MaxFaults /\ faults' = faults + 1 /\ runs' = runs
    BY DEF Next, Begin, Step, Helper, HelperBroken, Fault, vars, history
  <2> QED BY <2>1, <2>2
<1>4. knownOs' \in BOOLEAN /\ unnoticed' \in BOOLEAN
  BY Zenon DEF TInv, TreeTypes, Next, Begin, Step, Helper, HelperBroken, Fault, vars, history
<1> QED BY <1>1, <1>2, <1>3, <1>4 DEF ControlTypes, TreeTypes

-----------------------------------------------------------------------------
(* How far the run under way has come.                                     *)

\* The steps at which the helper is not under way and no daemon.json changes.
LEMMA DaemonLeft ==
  ASSUME TInv, UNCHANGED <<daemon, first>>,
         step' \notin {"temp", "move"},
         step' \in {"config", "remove"} => step \in {"config", "remove"} /\ run' = run,
         step' = "args" => run'.op # "install"
  PROVE  ~ unnoticed => InDaemon'
BY DEF TInv, Progress, InDaemon, Names

LEMMA NextInDaemon ==
  ASSUME IInv, TInv, [Next]_vars
  PROVE  InDaemon'
<1> SUFFICES ASSUME ~ unnoticed' PROVE InDaemon'
  BY DEF InDaemon
<1>0. ~ unnoticed /\ InDaemon
  BY DEF Next, Begin, Step, Helper, HelperBroken, Fault, vars, history, TInv, Progress
<1>1. ASSUME UNCHANGED <<daemon, first>>, step' = "idle" PROVE InDaemon'
  BY <1>0, <1>1, DaemonLeft
<1>2. ASSUME NEW r \in Requests, Begin(r) PROVE InDaemon'
  BY <1>0, <1>2, DaemonLeft DEF Begin, host, history
<1>3. ASSUME UNCHANGED <<daemon, first>>, step \in Steps \ {"idle", "daemon", "temp", "move"},
             Advance
      PROVE  InDaemon'
  BY <1>0, <1>3, DaemonLeft, GoesOn DEF Steps
<1>4. CASE Helper
  <2>1. UNCHANGED <<daemon, first>> /\ step = "daemon" /\ step \in Steps
    BY <1>4 DEF Helper, host, history, Steps
  <2>2. CASE HelperRefuses
    BY <1>1, <1>4, <2>1, <2>2 DEF Helper, Exit
  <2>3. CASE ~ HelperRefuses
    <3>1. run' = run /\ step' = "temp"
      BY <1>4, <2>1, <2>3, GoesOn DEF Helper
    <3>2. made' = IF run.op = "install" THEN AddRuntime(conf) ELSE RemoveRuntime(conf)
      BY <1>4, <2>3 DEF Helper
    <3>3. run \in Requests /\ run.engine \in Engines /\ run.path \in Paths
          /\ conf \in Daemon \cup {Missing, Torn} /\ conf # Torn
      BY <2>1, <2>3, Running DEF IInv, HelperTypes, conf, HelperRefuses, Unmodifiable
    <3>4. CASE run.op = "install"
      <4> DEFINE old == IF conf # Missing THEN conf
                ELSE [runtimes |-> "map", ascend |-> None, default |-> None, user |-> None]
      <4>1. old \in Daemon
        BY <3>3 DEF Daemon
      <4>2. made' = [old EXCEPT !.runtimes = "map", !.ascend = run.path,
                                !.default = IF run.engine \in Reserving THEN @ ELSE "ascend"]
        BY <3>2, <3>4 DEF AddRuntime
      <4> HIDE DEF old
      <4>3. made'.runtimes = "map" /\ made'.ascend = run.path
        BY <4>1, <4>2 DEF Daemon
      <4> QED BY <1>0, <2>1, <3>1, <3>4, <4>3 DEF InDaemon, Names
    <3>5. CASE run.op # "install"
      <4>1. conf \in Daemon
        BY <2>1, <3>3, <3>5 DEF IInv, HelperHasInput
      <4>2. made' = [conf EXCEPT !.ascend = IF conf.runtimes = "map" THEN None ELSE @,
                                 !.default = IF @ = "ascend" THEN None ELSE @]
        BY <3>2, <3>5 DEF RemoveRuntime
      <4>3. made'.ascend = IF conf.runtimes = "map" THEN None ELSE conf.ascend
        BY <4>1, <4>2 DEF Daemon
      <4>4. conf.runtimes # "map" => conf.ascend \notin Paths
        BY <1>0, <3>3, <4>1, StrangeValues DEF InDaemon, Names, conf
      <4>5. made'.ascend \notin Paths
        BY <4>3, <4>4, InstallerAssumption
      <4> QED BY <1>0, <2>1, <3>1, <3>5, <4>5 DEF InDaemon, Names
    <3> QED BY <3>4, <3>5
  <2> QED BY <2>2, <2>3
<1>5. CASE HelperBroken
  <2>1. Exit("error") /\ UNCHANGED <<daemon, first>>
    BY <1>5 DEF HelperBroken, host
  <2> QED BY <1>1, <2>1 DEF Exit
<1>6. CASE Step
  <2>1. UNCHANGED first /\ step \in Steps
    BY <1>6 DEF Step, TInv, TreeTypes
  <2>2. CASE WriteTemp
    <3>1. step = "temp" /\ run' = run /\ step' = "move" /\ UNCHANGED <<daemon, made>>
      BY <1>6, <2>1, <2>2, GoesOn DEF WriteTemp, Step
    <3> QED BY <1>0, <2>1, <3>1 DEF InDaemon, Names
  <2>3. CASE MoveTemp
    <3>1. step = "move" /\ run' = run
          /\ step' = IF run.op = "install" THEN "args" ELSE "config"
      BY <2>1, <2>3, GoesOn DEF MoveTemp
    <3>2. run \in Requests /\ run.engine \in Engines /\ run.path \in Paths /\ run.pid \in Pids
      BY <3>1, Running
    <3>3. made \in Daemon /\ tmp[run.engine][run.pid] = made /\ LeftOver
      BY <1>0, <3>1, StrangeValues DEF IInv, MadeKept, LeftOver
    <3>4. /\ daemon' = [daemon EXCEPT ![run.engine] = made]
          /\ tmp' = [tmp EXCEPT ![run.engine][run.pid] = Missing]
      BY <2>3, <3>3 DEF MoveTemp
    <3>5. \A e \in Engines : daemon'[e] = IF e = run.engine THEN made ELSE daemon[e]
      BY <3>4 DEF IInv, HelperTypes
    <3>6. tmp'[run.engine][run.pid] = Missing
      BY <3>2, <3>4 DEF IInv, HelperTypes
    <3>7. made \notin {Missing, Torn}
      BY <3>3, StrangeValues
    <3>8. CASE run.op = "install"
      <4>1. made.runtimes = "map" /\ made.ascend = run.path /\ step' = "args"
        BY <1>0, <3>1, <3>8 DEF InDaemon
      <4> QED BY <1>0, <2>1, <3>1, <3>2, <3>3, <3>5, <3>6, <3>7, <4>1 DEF InDaemon, Names
    <3>9. CASE run.op # "install"
      <4>1. made.ascend \notin Paths /\ step' = "config"
        BY <1>0, <3>1, <3>9 DEF InDaemon
      <4> QED BY <1>0, <2>1, <3>1, <3>2, <3>3, <3>5, <4>1 DEF InDaemon, Names
    <3> QED BY <3>8, <3>9
  <2>4. CASE MakeDirs
    BY <1>1, <1>3, <2>1, <2>4 DEF MakeDirs, Exit
  <2>5. CASE CopyPart
    BY <1>3, <2>1, <2>5 DEF CopyPart
  <2>6. CASE PutList
    BY <1>3, <2>1, <2>6 DEF PutList
  <2>7. CASE AddSo
    BY <1>1, <1>3, <2>1, <2>7 DEF AddSo, Exit
  <2>8. CASE SaveArgs
    BY <1>3, <2>1, <2>8 DEF SaveArgs
  <2>9. CASE Script
    BY <1>1, <1>3, <2>1, <2>9 DEF Script, Exit, host
  <2>10. CASE RemoveConfig
    BY <1>3, <2>1, <2>10 DEF RemoveConfig
  <2>11. CASE RemoveTree
    BY <1>3, <2>1, <2>11 DEF RemoveTree
  <2> QED BY <1>6, <2>2, <2>3, <2>4, <2>5, <2>6, <2>7, <2>8, <2>9, <2>10, <2>11 DEF Step
<1>7. CASE Fault
  <2>1. Exit("stopped") /\ UNCHANGED first
    BY <1>7 DEF Fault
  <2>2. UNCHANGED daemon
    BY <1>7 DEF Fault, Partly, host
  <2> QED BY <1>1, <2>1, <2>2 DEF Exit
<1>8. CASE UNCHANGED vars
  BY <1>0, <1>8 DEF vars, host, history, InDaemon, Names
<1> QED BY <1>2, <1>4, <1>5, <1>6, <1>7, <1>8 DEF Next

\* A step of the run that leaves the files it copied.
LEMMA CopiesLeft ==
  ASSUME TInv, run' = run, UNCHANGED copied,
         step \notin {"idle", "dirs", "copy"} \/ run.op = "uninstall",
         inst'[run.path].files = inst[run.path].files,
         inst'[run.path].script = inst[run.path].script
  PROVE  ~ unnoticed => CopiedSoFar'
BY DEF TInv, Progress, CopiedSoFar, tree, files

LEMMA NextCopiedSoFar ==
  ASSUME IInv, TInv, [Next]_vars
  PROVE  CopiedSoFar'
<1> SUFFICES ASSUME ~ unnoticed' PROVE CopiedSoFar'
  BY DEF CopiedSoFar
<1>0. ~ unnoticed /\ CopiedSoFar /\ step \in Steps
  BY DEF Next, Begin, Step, Helper, HelperBroken, Fault, vars, history, TInv, Progress, TreeTypes
<1>1. ASSUME step' = "idle" PROVE CopiedSoFar'
  BY <1>1 DEF CopiedSoFar
<1>2. ASSUME NEW r \in Requests, Begin(r) PROVE CopiedSoFar'
  BY <1>2 DEF Begin, CopiedSoFar
<1>3. ASSUME Advance, UNCHANGED copied, step \notin {"idle", "dirs", "copy"} \/ run.op = "uninstall",
             step \notin {"args", "remove"} =>
               /\ inst'[run.path].files = inst[run.path].files
               /\ inst'[run.path].script = inst[run.path].script,
             step # "idle"
      PROVE  CopiedSoFar'
  BY <1>0, <1>1, <1>3, CopiesLeft, GoesOn
<1>4. CASE Helper
  BY <1>0, <1>1, <1>3, <1>4 DEF Helper, Exit, host
<1>5. CASE HelperBroken
  BY <1>1, <1>5 DEF HelperBroken, Exit
<1>6. CASE Step
  <2>1. copied' = IF step = "copy" THEN copied + 1 ELSE copied
    BY <1>6 DEF Step
  <2>2. CASE MakeDirs
    <3>1. CASE Advance
      <4>1. run' = run /\ step' = "copy" /\ copied' = 0 /\ run.path \in Paths
        BY <1>0, <2>1, <2>2, <3>1, GoesOn, Running DEF MakeDirs, TInv, Where
      <4>2. run.op = "install" => inst'[run.path].script
        <5>1. inst[run.path] \in Tree /\ inst \in [Paths -> Tree]
          BY <4>1 DEF TInv, TreeTypes
        <5>2. run.op = "install" =>
                inst' = [inst EXCEPT ![run.path] = [[@ EXCEPT !.dir = TRUE] EXCEPT !.script = TRUE]]
          BY <2>2 DEF MakeDirs
        <5> QED BY <4>1, <5>1, <5>2 DEF Tree
      <4> QED BY <4>1, <4>2 DEF CopiedSoFar, tree
    <3>2. CASE Exit("error")
      BY <1>1, <3>2 DEF Exit
    <3> QED BY <2>2, <3>1, <3>2 DEF MakeDirs
  <2>3. CASE CopyPart
    <3> DEFINE f == Parts[copied + 1]
    <3>1. /\ step = "copy" /\ copied' = copied + 1 /\ copied \in 0 .. 5
          /\ PutPart(run.version) /\ run' = run /\ run.op # "uninstall"
          /\ step' = IF copied' < Len(Parts) THEN "copy" ELSE "list"
      BY <1>0, <2>1, <2>3, GoesOn, PartFacts DEF CopyPart, TInv, TreeTypes, Where
    <3>2. run.path \in Paths /\ run.op \in {"install", "upgrade", "uninstall"}
      BY <3>1, Running
    <3>3. inst[run.path] \in Tree /\ inst \in [Paths -> Tree] /\ f \in PartNames
      BY <3>1, <3>2, PartFacts DEF TInv, TreeTypes
    <3>4. /\ run.op = "install" => inst[run.path].script
          /\ \A k \in 1 .. copied : inst[run.path].files[Parts[k]] # run.version =>
               run.op = "upgrade" /\ Parts[k] = "uninstall.sh"
      BY <1>0, <3>1 DEF CopiedSoFar, tree, files
    <3>5. \A k \in 1 .. copied : Parts[k] # f /\ Parts[k] \in PartNames
      BY <3>1, PartFacts
    <3>6. inst'[run.path].script = inst[run.path].script
          /\ \A k \in 1 .. copied' : inst'[run.path].files[Parts[k]] # run.version =>
               run.op = "upgrade" /\ Parts[k] = "uninstall.sh"
      <4>1. CASE f = "uninstall.sh" /\ ~ tree.script
        <5>1. inst' = inst /\ run.op = "upgrade"
          BY <3>1, <3>2, <3>4, <4>1 DEF PutPart, tree
        <5>2. \A k \in 1 .. copied' : k \in 1 .. copied \/ k = copied + 1
          BY <3>1
        <5> QED BY <3>4, <4>1, <5>1, <5>2
      <4>2. CASE ~ (f = "uninstall.sh" /\ ~ tree.script)
        <5>1. inst' = [inst EXCEPT ![run.path].files[f] = run.version]
          BY <3>1, <4>2 DEF PutPart
        <5> HIDE DEF f
        <5>2. inst'[run.path] = [inst[run.path] EXCEPT !.files[f] = run.version]
          BY <3>2, <3>3, <5>1
        <5>3. inst'[run.path].files = [inst[run.path].files EXCEPT ![f] = run.version]
              /\ inst'[run.path].script = inst[run.path].script
          BY <3>3, <5>2 DEF Tree
        <5>4. inst[run.path].files \in [PartNames -> Versions \cup {Missing, Torn}]
          BY <3>3 DEF Tree
        <5>5. inst'[run.path].files[f] = run.version
          BY <3>3, <5>3, <5>4
        <5>6. \A k \in 1 .. copied :
                inst'[run.path].files[Parts[k]] = inst[run.path].files[Parts[k]]
          BY <3>5, <5>3, <5>4
        <5>7. \A k \in 1 .. copied' : k \in 1 .. copied \/ Parts[k] = f
          BY <3>1 DEF f
        <5> QED BY <3>4, <5>3, <5>5, <5>6, <5>7
      <4> QED BY <4>1, <4>2
    <3>7. copied' \in 1 .. 6 /\ (step' # "copy" => copied' = Len(Parts))
      BY <3>1, PartFacts
    <3> QED BY <3>1, <3>4, <3>6, <3>7 DEF CopiedSoFar, tree, files
  <2>4. CASE PutList
    BY <1>3, <2>1, <2>4 DEF PutList
  <2>5. CASE AddSo
    BY <1>1, <1>3, <2>1, <2>5 DEF AddSo, Exit
  <2>6. CASE SaveArgs
    BY <1>3, <2>1, <2>6 DEF SaveArgs
  <2>7. CASE WriteTemp
    BY <1>3, <2>1, <2>7 DEF WriteTemp
  <2>8. CASE MoveTemp
    BY <1>3, <2>1, <2>8 DEF MoveTemp
  <2>9. CASE Script
    BY <1>1, <1>3, <2>1, <2>9 DEF Script, Exit, host
  <2>10. CASE RemoveConfig
    BY <1>3, <2>1, <2>10 DEF RemoveConfig
  <2>11. CASE RemoveTree
    BY <1>3, <2>1, <2>11 DEF RemoveTree
  <2> QED BY <1>6, <2>2, <2>3, <2>4, <2>5, <2>6, <2>7, <2>8, <2>9, <2>10, <2>11 DEF Step
<1>7. CASE Fault
  BY <1>1, <1>7 DEF Fault, Exit
<1>8. CASE UNCHANGED vars
  BY <1>0, <1>8 DEF vars, host, history, CopiedSoFar, tree, files
<1> QED BY <1>2, <1>4, <1>5, <1>6, <1>7, <1>8 DEF Next

LEMMA NextListSoFar ==
  ASSUME IInv, TInv, [Next]_vars
  PROVE  ListSoFar'
<1> SUFFICES ASSUME ~ unnoticed' PROVE ListSoFar'
  BY DEF ListSoFar
<1>0. ~ unnoticed /\ ListSoFar /\ step \in Steps
  BY DEF Next, Begin, Step, Helper, HelperBroken, Fault, vars, history, TInv, Progress, TreeTypes
<1>1. ASSUME step' \in {"idle", "script", "dirs", "copy", "list", "config"} PROVE ListSoFar'
  BY <1>1 DEF ListSoFar
\* The run goes on, and the tree and the list stay.
<1>2. ASSUME step \in {"daemon", "temp", "move"}, step' \in {"temp", "move", "args", "config"},
             UNCHANGED <<inst, list, run>>
      PROVE  ListSoFar'
  <2>1. Recorded' = Recorded /\ Kind' = Kind
    BY <1>2 DEF Recorded, Kind, Upgrades, tree
  <2> QED BY <1>0, <1>2, <2>1 DEF ListSoFar
<1>3. ASSUME NEW r \in Requests, Begin(r) PROVE ListSoFar'
  BY <1>1, <1>3 DEF Begin
<1>4. CASE Helper
  BY <1>0, <1>1, <1>2, <1>4, GoesOn DEF Helper, Exit, host
<1>5. CASE HelperBroken
  BY <1>1, <1>5 DEF HelperBroken, Exit
<1>6. CASE Step
  <2>1. CASE MakeDirs
    BY <1>0, <1>1, <2>1, GoesOn DEF MakeDirs, Exit
  <2>2. CASE CopyPart
    BY <1>0, <1>1, <2>2, GoesOn DEF CopyPart
  <2>3. CASE PutList
    <3>1. step' = "so" /\ run' = run /\ UNCHANGED inst
          /\ (Recorded => list' = [type |-> Kind, so |-> FALSE])
      BY <1>0, <2>3, GoesOn DEF PutList
    <3>2. Recorded' = Recorded /\ Kind' = Kind
      BY <3>1 DEF Recorded, Kind, Upgrades, tree
    <3> QED BY <3>1, <3>2 DEF ListSoFar
  <2>4. CASE AddSo
    <3>1. CASE Exit("error")
      BY <1>1, <3>1 DEF Exit
    <3>2. CASE Advance
      <4>1. step = "so" /\ step' \in {"daemon", "args"} /\ run' = run /\ UNCHANGED inst
        BY <1>0, <2>4, <3>2, GoesOn DEF AddSo
      <4>2. Recorded' = Recorded /\ Kind' = Kind
        BY <4>1 DEF Recorded, Kind, Upgrades, tree
      <4>3. Recorded => list = [type |-> Kind, so |-> FALSE]
        BY <1>0, <4>1 DEF ListSoFar
      <4>4. ASSUME Recorded PROVE list' = [type |-> Kind, so |-> Kind \in SoTypes]
        <5>1. CASE Kind \in SoTypes
          <6>0. run \in Requests /\ None \notin Requests
            BY <4>1, Running, StrangeValues
          <6>1. list # Missing /\ list.type = Kind
            <7>2. Kind \in TypeSet \cup {None}
              BY <4>4, <6>0, KindType DEF TInv
            <7>3. [type |-> Kind, so |-> FALSE] \in [type : TypeSet \cup {None, Torn}, so : BOOLEAN]
              BY <7>2
            <7>4. \A l \in [type : TypeSet \cup {None, Torn}, so : BOOLEAN] : Missing # l
              BY TreeAssumption
            <7>5. [type |-> Kind, so |-> FALSE] # Missing
              BY <7>3, <7>4
            <7> QED BY <4>3, <4>4, <7>5
          <6>2. list' = [type |-> list.type, so |-> TRUE] \/ Exit("error")
            BY <2>4, <4>4, <5>1, <6>1 DEF AddSo
          <6>3. ~ Exit("error")
            BY <4>1, <6>0 DEF Exit
          <6>4. [type |-> Kind, so |-> Kind \in SoTypes] = [type |-> Kind, so |-> TRUE]
            BY <5>1, Zenon
          <6>5. list' = [type |-> Kind, so |-> TRUE]
            BY <6>1, <6>2, <6>3
          <6> QED BY <6>4, <6>5, Zenon
        <5>2. CASE Kind \notin SoTypes
          <6>0. list' = list
            BY <2>4, <5>2 DEF AddSo
          <6>1. list' = [type |-> Kind, so |-> FALSE]
            BY <4>3, <4>4, <6>0
          <6>2. (Kind \in SoTypes) = FALSE
            BY <5>2, SMT
          <6>3. [type |-> Kind, so |-> Kind \in SoTypes] = [type |-> Kind, so |-> FALSE]
            BY <6>2, Zenon
          <6> QED BY <6>1, <6>3, Zenon
        <5> QED BY <5>1, <5>2
      <4> QED BY <4>1, <4>2, <4>4 DEF ListSoFar
    <3> QED BY <2>4, <3>1, <3>2 DEF AddSo
  <2>5. CASE SaveArgs
    BY <1>0, <1>1, <2>5, GoesOn DEF SaveArgs
  <2>6. CASE WriteTemp
    BY <1>0, <1>2, <2>6, GoesOn DEF WriteTemp
  <2>7. CASE MoveTemp
    BY <1>0, <1>2, <2>7, GoesOn DEF MoveTemp
  <2>8. CASE Script
    <3>1. CASE step' = "idle"
      BY <1>1, <3>1
    <3>2. CASE Advance
      <4>1. step' = "daemon" /\ run' = run /\ run.op = "uninstall"
        BY <1>0, <2>8, <3>2, GoesOn DEF Script, TInv, Where
      <4> QED BY <4>1 DEF ListSoFar
    <3> QED BY <2>8, <3>1, <3>2 DEF Script, Exit
  <2>9. CASE RemoveConfig
    <3>1. step' = "remove" /\ list' = Missing
      BY <1>0, <2>9, GoesOn DEF RemoveConfig
    <3> QED BY <3>1 DEF ListSoFar
  <2>10. CASE RemoveTree
    BY <1>0, <1>1, <2>10, GoesOn DEF RemoveTree
  <2> QED BY <1>6, <2>1, <2>2, <2>3, <2>4, <2>5, <2>6, <2>7, <2>8, <2>9, <2>10 DEF Step
<1>7. CASE Fault
  BY <1>1, <1>7 DEF Fault, Exit
<1>8. CASE UNCHANGED vars
  <2>1. UNCHANGED <<run, step, inst, list>>
    BY <1>8 DEF vars, host
  <2>2. Recorded' = Recorded /\ Kind' = Kind
    BY <2>1 DEF Recorded, Kind, Upgrades, tree
  <2> QED BY <1>0, <2>1, <2>2 DEF ListSoFar
<1> QED BY <1>3, <1>4, <1>5, <1>6, <1>7, <1>8 DEF Next

\* TInv is an invariant for all engines, paths, command lines and bounds.
THEOREM TreeInvariance == Spec => []TInv
<1>1. IInv /\ TInv /\ [Next]_vars => TInv'
  BY NextTypes, NextInDaemon, NextCopiedSoFar, NextListSoFar DEF TInv, Progress
<1> QED BY InitTInv, <1>1, InstallerInvariance, PTL DEF Spec

\* Every variable keeps its type, and a daemon.json that no longer parses was
\* so before the first installation, unless a failing command went unnoticed.
THEOREM InstallerTypes == Spec => []TypeOK
<1>1. IInv /\ TInv => TypeOK
  <2> SUFFICES ASSUME IInv, TInv PROVE TypeOK
    OBVIOUS
  <2>1. ~ unnoticed => \A e \in Engines : daemon[e] = Torn => first[e] = Torn
    BY StrangeValues DEF TInv, Progress, InDaemon
  <2> QED BY <2>1 DEF IInv, HelperTypes, TInv, TreeTypes, TypeOK
<1> QED BY <1>1, InstallerInvariance, TreeInvariance, PTL

-----------------------------------------------------------------------------
(* The properties.                                                         *)

\* A step that leaves daemon.json and removes no file.
LEMMA NothingGone ==
  ASSUME NamedIsThere, unnoticed => unnoticed', UNCHANGED <<daemon, orphans>>,
         \A p \in Paths, f \in PartNames :
           inst[p].files[f] # Missing => inst'[p].files[f] # Missing,
         list # Missing => list' # Missing
  PROVE  NamedIsThere'
BY DEF NamedIsThere, Names

\* A step of a removal: the engines that still name a runtime are orphans.
LEMMA RemovedForOthers ==
  ASSUME IInv, TInv, unnoticed => unnoticed', UNCHANGED daemon,
         step \in {"config", "remove"}, orphans' = orphans \cup OthersNaming
  PROVE  NamedIsThere'
<1> SUFFICES ASSUME ~ unnoticed', NEW e \in Engines \ orphans', NEW p \in Paths, Names(e, p)
             PROVE  FALSE
  BY DEF NamedIsThere, Names
<1>1. e # run.engine
  BY DEF TInv, Progress, InDaemon, Names
<1> QED BY <1>1 DEF OthersNaming, Names

\* Writing a file, in whole or in part, leaves a file.
LEMMA PutThere ==
  ASSUME IInv, TInv, step = "copy", NEW content \in Versions \cup {Torn}, PutPart(content)
  PROVE  \A p \in Paths, f \in PartNames :
           inst[p].files[f] # Missing => inst'[p].files[f] # Missing
<1> DEFINE g == Parts[copied + 1]
<1>1. run.path \in Paths /\ inst \in [Paths -> Tree] /\ content # Missing
  BY Running, TreeAssumption, InstallerAssumption DEF TInv, TreeTypes
<1>2. inst' = inst \/ inst' = [inst EXCEPT ![run.path].files[g] = content]
  BY DEF PutPart
<1> HIDE DEF g
<1>3. CASE inst' = [inst EXCEPT ![run.path].files[g] = content]
  <2> SUFFICES ASSUME NEW p \in Paths, NEW f \in PartNames, inst[p].files[f] # Missing
               PROVE  inst'[p].files[f] # Missing
    OBVIOUS
  <2>1. CASE p = run.path
    <3>1. inst'[p] = [inst[p] EXCEPT !.files[g] = content]
      BY <1>1, <1>3, <2>1
    <3>2. inst[p].files \in [PartNames -> Versions \cup {Missing, Torn}]
      BY <1>1 DEF Tree
    <3>3. inst'[p].files = [inst[p].files EXCEPT ![g] = content]
      BY <1>1, <3>1 DEF Tree
    <3>4. inst'[p].files[f] = IF f = g THEN content ELSE inst[p].files[f]
      BY <3>2, <3>3
    <3> QED BY <1>1, <3>4
  <2>2. CASE p # run.path
    BY <1>1, <1>3, <2>2
  <2> QED BY <2>1, <2>2
<1>4. CASE inst' = inst
  BY <1>4
<1> QED BY <1>2, <1>3, <1>4

\* Only these fields of the tree change.
LEMMA FieldsLeftFiles ==
  ASSUME inst \in [Paths -> Tree], NEW q \in Paths, NEW info,
         \/ inst' = inst
         \/ inst' = [inst EXCEPT ![q].info = info]
         \/ inst' = [inst EXCEPT ![q].dir = TRUE, ![q].script = TRUE]
  PROVE  \A p \in Paths : inst'[p].files = inst[p].files
<1>1. inst[q] \in Tree
  OBVIOUS
<1>2. CASE inst' = [inst EXCEPT ![q].info = info]
  <2> DEFINE t == [inst[q] EXCEPT !.info = info]
  <2>1. t.files = inst[q].files
    BY <1>1 DEF Tree
  <2>2. inst' = [inst EXCEPT ![q] = t]
    BY <1>2
  <2> HIDE DEF t
  <2> QED BY <2>1, <2>2
<1>3. CASE inst' = [inst EXCEPT ![q].dir = TRUE, ![q].script = TRUE]
  <2> DEFINE t == [[inst[q] EXCEPT !.dir = TRUE] EXCEPT !.script = TRUE]
  <2>1. t.files = inst[q].files
    BY <1>1 DEF Tree
  <2>2. inst' = [inst EXCEPT ![q] = t]
    BY <1>3
  <2> HIDE DEF t
  <2> QED BY <2>1, <2>2
<1>4. CASE inst' = inst
  BY <1>4
<1> QED BY <1>2, <1>3, <1>4

LEMMA NextNamedIsThere ==
  ASSUME IInv, TInv, NamedIsThere, [Next]_vars
  PROVE  NamedIsThere'
<1>0. unnoticed => unnoticed'
  BY DEF Next, Begin, Step, Helper, HelperBroken, Fault, vars, history
<1>1. inst \in [Paths -> Tree]
  BY DEF TInv, TreeTypes
<1>2. ASSUME UNCHANGED <<daemon, orphans, inst>>, list # Missing => list' # Missing
      PROVE  NamedIsThere'
  BY <1>0, <1>2, NothingGone
<1>3. CASE UNCHANGED <<daemon, orphans, inst, list>>
  BY <1>2, <1>3
<1>4. ASSUME NEW content \in Versions \cup {Torn}, step = "copy", PutPart(content),
             UNCHANGED <<daemon, orphans, list>>
      PROVE  NamedIsThere'
  BY <1>0, <1>4, PutThere, NothingGone
<1>5. ASSUME step # "idle", NEW info,
             \/ inst' = inst
             \/ inst' = [inst EXCEPT ![run.path].info = info]
             \/ inst' = [inst EXCEPT ![run.path].dir = TRUE, ![run.path].script = TRUE],
             UNCHANGED <<daemon, orphans, list>>
      PROVE  NamedIsThere'
  <2>1. run.path \in Paths
    BY <1>5, Running
  <2>2. \A p \in Paths : inst'[p].files = inst[p].files
    BY <1>1, <1>5, <2>1, FieldsLeftFiles
  <2> QED BY <1>0, <1>5, <2>2, NothingGone
<1>6. ASSUME list' \in [type : TypeSet \cup {None, Torn}, so : BOOLEAN] PROVE list' # Missing
  BY <1>6, TreeAssumption
<1>7. CASE Step
  <2>1. CASE MakeDirs
    <3>1. UNCHANGED <<daemon, orphans, list>> /\ step # "idle"
      BY <2>1 DEF MakeDirs
    <3>2. inst' = inst \/ inst' = [inst EXCEPT ![run.path].dir = TRUE, ![run.path].script = TRUE]
      BY <2>1 DEF MakeDirs
    <3> QED BY <1>5, <3>1, <3>2
  <2>2. CASE CopyPart
    BY <1>4, <2>2, Running DEF CopyPart
  <2>3. CASE PutList
    <3>1. Recorded => Kind \in TypeSet \cup {None}
      BY <2>3, Running, KindType DEF PutList, TInv
    <3>2. Recorded => [type |-> Kind, so |-> FALSE]
                        \in [type : TypeSet \cup {None, Torn}, so : BOOLEAN]
      BY <3>1
    <3> QED BY <1>2, <1>6, <2>3, <3>2 DEF PutList
  <2>4. CASE AddSo
    <3>1. UNCHANGED <<daemon, orphans, inst>>
          /\ \/ list' = list
             \/ list' = [type |-> IF list = Missing THEN Torn ELSE list.type, so |-> TRUE]
      BY <2>4 DEF AddSo
    <3>2. [type |-> IF list = Missing THEN Torn ELSE list.type, so |-> TRUE]
            \in [type : TypeSet \cup {None, Torn}, so : BOOLEAN]
      BY DEF TInv, TreeTypes, List
    <3> QED BY <1>2, <1>6, <3>1, <3>2
  <2>5. CASE SaveArgs
    <3>1. UNCHANGED <<daemon, orphans, list>> /\ step # "idle"
      BY <2>5 DEF SaveArgs
    <3>2. inst' = inst \/ inst' = [inst EXCEPT ![run.path].info = Saved]
      BY <2>5 DEF SaveArgs
    <3> QED BY <1>5, <3>1, <3>2
  <2>6. CASE WriteTemp
    BY <1>3, <2>6 DEF WriteTemp
  <2>7. CASE MoveTemp
    <3> SUFFICES ASSUME ~ unnoticed', NEW e \in Engines \ orphans', NEW p \in Paths, Names(e, p)'
                 PROVE  (\A f \in PartNames : inst[p].files[f] # Missing) /\ list # Missing
      BY <2>7 DEF NamedIsThere, MoveTemp
    <3>1. step = "move" /\ ~ unnoticed
      BY <1>0, <2>7 DEF MoveTemp
    <3>2. run.engine \in Engines /\ run.path \in Paths /\ run.pid \in Pids /\ run \in Requests
          /\ run.version \in Versions /\ run.op \in {"install", "uninstall"}
      BY <3>1, Running DEF TInv, Where
    <3>3. made \in Daemon /\ tmp[run.engine][run.pid] = made /\ LeftOver
      BY <3>1, StrangeValues DEF IInv, MadeKept, LeftOver
    <3>4. daemon' = [daemon EXCEPT ![run.engine] = made]
      BY <2>7, <3>3 DEF MoveTemp
    <3>5. daemon'[e] = IF e = run.engine THEN made ELSE daemon[e]
      BY <3>4 DEF IInv, HelperTypes
    <3>6. CASE e # run.engine
      <4>1. e \notin orphans /\ Names(e, p)
        BY <2>7, <3>5, <3>6 DEF MoveTemp, Names
      <4> QED BY <3>1, <4>1 DEF NamedIsThere
    <3>7. CASE e = run.engine
      <4>1. made.ascend = p
        BY <3>5, <3>7 DEF Names
      <4>2. run.op = "install" /\ p = run.path
        BY <3>1, <3>2, <4>1 DEF TInv, Progress, InDaemon
      <4>3. copied = 6 /\ \A k \in 1 .. 6 : inst[p].files[Parts[k]] = run.version
        BY <3>1, <4>2, PartFacts DEF TInv, Progress, CopiedSoFar, tree, files
      <4>4. \A f \in PartNames : inst[p].files[f] = run.version
        BY <4>3, PartFacts
      <4>5. list = [type |-> run.type, so |-> run.type \in SoTypes]
        BY <3>1, <4>2, Zenon DEF TInv, Progress, ListSoFar, Recorded, Kind, Upgrades
      <4>6. list \in [type : TypeSet \cup {None, Torn}, so : BOOLEAN]
        <5>1. run.type \in TypeSet \cup {None, Torn}
          BY <3>1, Running
        <5>2. [type |-> run.type, so |-> run.type \in SoTypes]
                \in [type : TypeSet \cup {None, Torn}, so : BOOLEAN]
          BY <5>1, SMT
        <5> QED BY <4>5, <5>2, Zenon
      <4> QED BY <3>2, <4>4, <4>6, TreeAssumption
    <3> QED BY <3>6, <3>7
  <2>8. CASE Script
    BY <1>3, <2>8 DEF Script, host
  <2>9. CASE RemoveConfig
    BY <1>0, <2>9, RemovedForOthers DEF RemoveConfig
  <2>10. CASE RemoveTree
    BY <1>0, <2>10, RemovedForOthers DEF RemoveTree
  <2> QED BY <1>7, <2>1, <2>2, <2>3, <2>4, <2>5, <2>6, <2>7, <2>8, <2>9, <2>10 DEF Step
<1>8. CASE Fault
  <2>1. CASE Partly
    <3>1. CASE step = "copy"
      BY <1>4, <2>1, <3>1 DEF Partly
    <3>2. CASE step = "list"
      <4>1. UNCHANGED <<daemon, orphans, inst>> /\ list' = [type |-> Torn, so |-> FALSE]
        BY <2>1, <3>2 DEF Partly
      <4>2. [type |-> Torn, so |-> FALSE] \in [type : TypeSet \cup {None, Torn}, so : BOOLEAN]
        OBVIOUS
      <4> QED BY <1>2, <1>6, <4>1, <4>2
    <3>3. CASE step = "args"
      <4>1. UNCHANGED <<daemon, orphans, list>> /\ inst' = [inst EXCEPT ![run.path].info = {}]
        BY <2>1, <3>3 DEF Partly
      <4> QED BY <1>5, <3>3, <4>1
    <3>4. CASE step = "temp"
      BY <1>3, <2>1, <3>4 DEF Partly
    <3>5. CASE step \in {"config", "remove"}
      <4>1. orphans' = orphans \cup OthersNaming /\ UNCHANGED daemon
        BY <2>1, <3>5 DEF Partly
      <4> QED BY <1>0, <3>5, <4>1, RemovedForOthers
    <3> QED BY <2>1, <3>1, <3>2, <3>3, <3>4, <3>5 DEF Partly
  <2>2. CASE UNCHANGED <<host, orphans>>
    BY <1>3, <2>2 DEF host
  <2> QED BY <1>8, <2>1, <2>2 DEF Fault
<1> QED BY <1>3, <1>7, <1>8 DEF Next, Begin, Helper, HelperBroken, vars, host, history

\* Only a run that ended with success claims anything.
LEMMA NoSuccess ==
  ASSUME step' # "idle" \/ last' = None \/ last'.result # "success"
  PROVE  SuccessIsTrue'
BY DEF SuccessIsTrue, InstalledComplete, UpgradedConsistent, UninstalledGone, Ended

\* The last step of an installation or an upgrade.
LEMMA SavedArgs ==
  ASSUME IInv, TInv, SaveArgs, ~ unnoticed, UNCHANGED unnoticed
  PROVE  SuccessIsTrue'
<1> DEFINE t == inst[run.path]
           u == inst'[run.path]
<1>1. /\ step = "args" /\ step \in Steps /\ run.op # "uninstall"
      /\ UNCHANGED <<list, daemon, tmp>>
  BY DEF SaveArgs, TInv, TreeTypes, Where
<1>2. step' = "idle" /\ last' = [run |-> run, result |-> "success"]
  BY <1>1, GoesOn DEF SaveArgs
<1>3. /\ run \in Requests /\ run.path \in Paths /\ run.op \in {"install", "upgrade"}
      /\ run.type \in TypeSet \cup {None} /\ inst \in [Paths -> Tree] /\ t \in Tree
  BY <1>1, Running DEF TInv, TreeTypes
<1>4. copied = 6 /\ \A k \in 1 .. 6 :
        t.files[Parts[k]] # run.version => run.op = "upgrade" /\ Parts[k] = "uninstall.sh"
  BY <1>1, PartFacts DEF TInv, Progress, CopiedSoFar, tree, files
<1>5. \A f \in PartNames : t.files[f] # run.version => run.op = "upgrade" /\ f = "uninstall.sh"
  BY <1>4, PartFacts
<1>6. Recorded => list = [type |-> Kind, so |-> Kind \in SoTypes]
  BY <1>1, Zenon DEF TInv, Progress, ListSoFar
<1>7. u = IF Recorded THEN [t EXCEPT !.info = Saved] ELSE t
  BY <1>3 DEF SaveArgs
<1> HIDE DEF t, u
<1>8. u.files = t.files /\ u.info = IF Recorded THEN Saved ELSE t.info
  BY <1>3, <1>7 DEF Tree
<1>9. last'.run = run /\ last'.result = "success" /\ ~ unnoticed'
  BY <1>2
<1>10. CASE run.op = "install"
  <2>1. Recorded /\ Kind = run.type /\ Saved = {run.type} \ {None}
    BY <1>10 DEF Recorded, Kind, Upgrades, Saved
  <2>2. Names(run.engine, run.path) /\ tmp[run.engine][run.pid] = Missing
    BY <1>1, <1>10 DEF TInv, Progress, InDaemon
  <2>3. \A f \in PartNames : u.files[f] = run.version
    BY <1>5, <1>8, <1>10
  <2>4. u.info = {run.type} \ {None}
    BY <1>8, <2>1
  <2>5. list = [type |-> run.type, so |-> run.type \in SoTypes]
    BY <1>6, <2>1, Zenon
  <2>6. daemon'[run.engine] \notin {Missing, Torn} /\ daemon'[run.engine].ascend = run.path
    BY <1>1, <2>2 DEF Names
  <2>7. InstalledComplete'
    <3>1. /\ \A f \in PartNames : inst'[run.path].files[f] = run.version
          /\ inst'[run.path].info = {run.type} \ {None}
      BY <2>3, <2>4 DEF u
    <3>2. list' = [type |-> run.type, so |-> run.type \in SoTypes]
      BY <1>1, <2>5, Zenon
    <3>3. tmp'[run.engine][run.pid] = Missing
      BY <1>1, <2>2
    <3> QED BY <1>9, <2>6, <3>1, <3>2, <3>3, Zenon DEF InstalledComplete, Names
  <2>8. ~ Ended("upgrade", "success")' /\ ~ Ended("uninstall", "success")'
    BY <1>9, <1>10 DEF Ended
  <2> QED BY <2>7, <2>8 DEF SuccessIsTrue, UpgradedConsistent, UninstalledGone
<1>11. CASE run.op = "upgrade"
  <2>1. \A f \in PartNames \ {"uninstall.sh"} : u.files[f] = run.version
    BY <1>5, <1>8
  <2>2. ASSUME u.info # Missing
        PROVE  \E k \in TypeSet \cup {None} :
                 /\ list' = [type |-> k, so |-> k \in SoTypes]
                 /\ u.info = {k, run.type} \ {None}
    <3>1. Recorded /\ Upgrades
      BY <1>8, <1>11, <2>2 DEF Recorded, Upgrades, tree, t
    <3>2. Kind \in TypeSet \cup {None}
      BY <1>3, <3>1, KindType DEF TInv
    <3>3. u.info = {Kind, run.type} \ {None}
      BY <1>8, <3>1 DEF Saved
    <3>4. list' = [type |-> Kind, so |-> Kind \in SoTypes]
      BY <1>1, <1>6, <3>1, Zenon
    <3> QED BY <3>2, <3>3, <3>4, Zenon
  <2>3. UpgradedConsistent'
    <3>1. \A f \in PartNames \ {"uninstall.sh"} : inst'[run.path].files[f] = run.version
      BY <2>1 DEF u
    <3>2. inst'[run.path].info # Missing =>
            \E k \in TypeSet \cup {None} :
              /\ list' = [type |-> k, so |-> k \in SoTypes]
              /\ inst'[run.path].info = {k, run.type} \ {None}
      BY <2>2, Zenon DEF u
    <3> QED BY <1>9, <3>1, <3>2, Zenon DEF UpgradedConsistent
  <2>4. ~ Ended("install", "success")' /\ ~ Ended("uninstall", "success")'
    BY <1>9, <1>11 DEF Ended
  <2> QED BY <2>3, <2>4 DEF SuccessIsTrue, InstalledComplete, UninstalledGone
<1> QED BY <1>3, <1>10, <1>11

\* The last step of a removal.
LEMMA RemovedLast ==
  ASSUME IInv, TInv, RemoveTree, ~ unnoticed, UNCHANGED unnoticed
  PROVE  SuccessIsTrue'
<1>1. step = "remove" /\ step \in Steps /\ run.op = "uninstall" /\ UNCHANGED <<list, daemon>>
  BY DEF RemoveTree, TInv, TreeTypes, Where
<1>2. last' = [run |-> run, result |-> "success"]
  BY <1>1, GoesOn DEF RemoveTree
<1>3. last'.run = run
  BY <1>2
<1>4. run.path \in Paths /\ inst \in [Paths -> Tree]
  BY <1>1, Running DEF TInv, TreeTypes
<1>5. inst'[run.path] = NoTree
  BY <1>4 DEF RemoveTree
<1>6. list' = Missing /\ ~ Names(run.engine, run.path)
  BY <1>1, <1>4 DEF TInv, Progress, InDaemon, ListSoFar
<1>7. ~ (daemon'[run.engine] \notin {Missing, Torn} /\ daemon'[run.engine].ascend = run.path)
  BY <1>1, <1>6 DEF Names
<1>8. NoTree' = NoTree
  BY DEF NoTree
<1>9. UninstalledGone'
  BY <1>3, <1>5, <1>6, <1>7, <1>8, Zenon DEF UninstalledGone, Names
<1>10. ~ Ended("install", "success")' /\ ~ Ended("upgrade", "success")'
  BY <1>1, <1>3 DEF Ended
<1> QED BY <1>9, <1>10 DEF SuccessIsTrue, InstalledComplete, UpgradedConsistent

LEMMA NextSuccess == ASSUME IInv, TInv, SuccessIsTrue, [Next]_vars PROVE SuccessIsTrue'
<1>0. step \in Steps
  BY DEF TInv, TreeTypes
<1>1. ASSUME Exit("error") \/ Exit("stopped") \/ Exit("skipped") PROVE SuccessIsTrue'
  BY <1>1, NoSuccess DEF Exit
<1>2. ASSUME Advance, step \notin {"idle", "args", "remove"} PROVE SuccessIsTrue'
  <2>1. step' # "idle"
    BY <1>0, <1>2, GoesOn DEF Steps
  <2> QED BY <2>1, NoSuccess
<1>3. CASE UNCHANGED vars
  <2>1. UNCHANGED <<step, last, inst, list, daemon, tmp, unnoticed>>
    BY <1>3 DEF vars, host, history
  <2> QED BY <2>1, Zenon DEF SuccessIsTrue, InstalledComplete, UpgradedConsistent,
          UninstalledGone, Ended, Names
<1>4. ASSUME NEW r \in Requests, Begin(r) PROVE SuccessIsTrue'
  BY <1>4, NoSuccess DEF Begin
<1>5. CASE Helper
  BY <1>1, <1>2, <1>5 DEF Helper
<1>6. CASE HelperBroken
  <2>1. CASE Goto("move")
    BY <2>1, NoSuccess DEF Goto
  <2> QED BY <1>1, <1>6, <2>1 DEF HelperBroken
<1>7. CASE Fault
  <2>1. CASE unnoticed'
    BY <2>1 DEF SuccessIsTrue, InstalledComplete, UpgradedConsistent, UninstalledGone
  <2> QED BY <1>1, <1>7, <2>1 DEF Fault
<1>8. CASE Step
  <2>0. UNCHANGED unnoticed
    BY <1>8 DEF Step
  <2>1. CASE unnoticed
    BY <2>0, <2>1 DEF SuccessIsTrue, InstalledComplete, UpgradedConsistent, UninstalledGone
  <2>2. CASE SaveArgs /\ ~ unnoticed
    BY <2>0, <2>2, SavedArgs
  <2>3. CASE RemoveTree /\ ~ unnoticed
    BY <2>0, <2>3, RemovedLast
  <2>4. CASE Script
    <3>1. step = "script" /\ run.op = "uninstall" /\ UNCHANGED host
      BY <2>4 DEF Script, TInv, Where
    <3>2. CASE Exit("success")
      <4>1. last'.run = run
        BY <3>2 DEF Exit
      <4>2. files["uninstall.sh"] = Torn \/ conf = Missing \/ Advance
            \/ Exit("error") \/ Exit("skipped")
        BY <2>4 DEF Script
      <4>3. ~ Exit("error") /\ ~ Exit("skipped")
        BY <3>2 DEF Exit
      <4>4. CASE files["uninstall.sh"] = Torn \/ conf = Missing
        <5>1. UninstalledGone'
          BY <3>1, <4>1, <4>4 DEF UninstalledGone, files, tree, conf, host
        <5>2. ~ Ended("install", "success")' /\ ~ Ended("upgrade", "success")'
          BY <3>1, <4>1 DEF Ended
        <5> QED BY <5>1, <5>2 DEF SuccessIsTrue, InstalledComplete, UpgradedConsistent
      <4> QED BY <1>2, <3>1, <4>2, <4>3, <4>4
    <3> QED BY <1>1, <1>2, <2>4, <3>1, <3>2 DEF Script
  <2>5. CASE MakeDirs
    BY <1>1, <1>2, <2>5 DEF MakeDirs
  <2>6. CASE CopyPart
    BY <1>2, <2>6 DEF CopyPart
  <2>7. CASE PutList
    BY <1>2, <2>7 DEF PutList
  <2>8. CASE AddSo
    BY <1>1, <1>2, <2>8 DEF AddSo
  <2>9. CASE WriteTemp
    BY <1>2, <2>9 DEF WriteTemp
  <2>10. CASE MoveTemp
    BY <1>2, <2>10 DEF MoveTemp
  <2>11. CASE RemoveConfig
    BY <1>2, <2>11 DEF RemoveConfig
  <2> QED BY <1>8, <2>1, <2>2, <2>3, <2>4, <2>5, <2>6, <2>7, <2>8, <2>9, <2>10, <2>11 DEF Step
<1> QED BY <1>3, <1>4, <1>5, <1>6, <1>7, <1>8 DEF Next

\* The reasons ErrorHasCause accepts, of the run under way.
Cause ==
  CASE run.op = "install" ->
         \/ run.type \in SoTypes /\ ~ knownOs
         \/ conf = Torn
         \/ conf \in Daemon /\ Other \in {conf.runtimes, conf.ascend}
         \/ tmp[run.engine][run.pid] # Missing
         \/ unnoticed
    [] run.op = "upgrade" ->
         \/ ~ tree.dir \/ ~ confDir
         \/ tree.info # Missing /\ ListType(tree.info) \in SoTypes /\ ~ knownOs
    [] run.op = "uninstall" ->
         \/ {"uninstall.sh", "helper"} \cap {f \in PartNames : files[f] \notin Versions} # {}
         \/ conf = Torn
         \/ tmp[run.engine][run.pid] # Missing

LEMMA CauseStays ==
  ASSUME Cause, Exit("error"), UNCHANGED <<inst, daemon, tmp, confDir, knownOs, unnoticed>>
  PROVE  ErrorHasCause'
<1>1. last'.run = run
  BY DEF Exit
<1> QED BY <1>1, Zenon DEF ErrorHasCause, Cause, conf, tree, files

LEMMA NoError ==
  ASSUME step' # "idle" \/ last' = None \/ last'.result # "error"
  PROVE  ErrorHasCause'
BY DEF ErrorHasCause

LEMMA NextErrorHasCause == ASSUME IInv, TInv, ErrorHasCause, [Next]_vars PROVE ErrorHasCause'
<1>0. step \in Steps
  BY DEF TInv, TreeTypes
<1>1. ASSUME Exit("success") \/ Exit("stopped") \/ Exit("skipped") PROVE ErrorHasCause'
  BY <1>1, NoError DEF Exit
<1>2. ASSUME Advance, step # "idle" PROVE ErrorHasCause'
  <2>1. step' # "idle" \/ last'.result # "error"
    BY <1>0, <1>2, GoesOn DEF Steps
  <2> QED BY <2>1, NoError
<1>3. CASE UNCHANGED vars
  <2>1. UNCHANGED <<step, last, inst, daemon, tmp, confDir, knownOs, unnoticed>>
    BY <1>3 DEF vars, host, history
  <2> QED BY <2>1, Zenon DEF ErrorHasCause
<1>4. ASSUME NEW r \in Requests, Begin(r) PROVE ErrorHasCause'
  BY <1>4, NoError DEF Begin
<1>5. CASE Helper
  <2>1. CASE ~ HelperRefuses
    BY <1>2, <1>5, <2>1 DEF Helper
  <2>2. CASE HelperRefuses
    <3>1. /\ step = "daemon" /\ Exit("error")
          /\ UNCHANGED <<inst, daemon, tmp, confDir, knownOs, unnoticed>>
      BY <1>5, <2>2 DEF Helper, host, history
    <3>2. run.op \in {"install", "uninstall"} /\ run.engine \in Engines /\ run.path \in Paths
          /\ run.version \in Versions
      BY <3>1, Running DEF TInv, Where
    <3>3. conf \in Daemon \cup {Missing, Torn}
      BY <3>2 DEF IInv, HelperTypes, conf
    <3>4. CASE run.op = "install"
      <4>1. ~ unnoticed => files["runtime"] # Missing
        <5>1. SUFFICES ASSUME ~ unnoticed PROVE files["runtime"] # Missing
          OBVIOUS
        <5>2. copied = 6 /\ files[Parts[1]] = run.version
          BY <3>1, <3>4, <5>1, PartFacts DEF TInv, Progress, CopiedSoFar
        <5>3. Parts[1] = "runtime"
          BY DEF Parts
        <5> QED BY <3>2, <5>2, <5>3, TreeAssumption
      <4> QED BY <2>2, <3>1, <3>3, <3>4, <4>1, CauseStays
              DEF Cause, HelperRefuses, Unmodifiable, LeftOver
    <3>5. CASE run.op = "uninstall"
      BY <2>2, <3>1, <3>5, CauseStays DEF Cause, HelperRefuses, Unmodifiable, LeftOver
    <3> QED BY <3>2, <3>4, <3>5
  <2> QED BY <2>1, <2>2
<1>6. CASE HelperBroken
  <2>1. CASE Goto("move")
    BY <2>1, NoError DEF Goto
  <2>2. CASE Exit("error") /\ UNCHANGED unnoticed
    <3>1. UNCHANGED <<inst, daemon, tmp, confDir, knownOs>> /\ run.op = "uninstall"
      BY <1>6 DEF HelperBroken, host
    <3>2. "helper" \in PartNames /\ files["helper"] \notin Versions
      BY <1>6, PartFacts, TreeAssumption DEF HelperBroken
    <3> QED BY <2>2, <3>1, <3>2, CauseStays DEF Cause
  <2> QED BY <1>6, <2>1, <2>2 DEF HelperBroken
<1>7. CASE Fault
  BY <1>1, <1>2, <1>7 DEF Fault
<1>8. CASE Step
  <2>0. UNCHANGED <<knownOs, unnoticed>>
    BY <1>8 DEF Step
  <2>1. CASE MakeDirs
    <3>1. CASE run.op # "install" /\ ~ (tree.dir /\ confDir)
      <4>1. run.op = "upgrade"
        BY <2>1, <3>1, Running DEF MakeDirs, TInv, Where
      <4>2. Exit("error") /\ UNCHANGED <<inst, daemon, tmp, confDir>>
        BY <2>1, <3>1 DEF MakeDirs
      <4> QED BY <2>0, <3>1, <4>1, <4>2, CauseStays DEF Cause
    <3> QED BY <1>2, <2>1, <3>1 DEF MakeDirs
  <2>2. CASE AddSo
    <3>1. CASE Recorded /\ Kind \in SoTypes /\ ~ knownOs
      <4>1. run.op \in {"install", "upgrade"} /\ Exit("error")
            /\ UNCHANGED <<inst, daemon, tmp, confDir>>
        BY <2>2, <3>1, Running DEF AddSo, TInv, Where
      <4> QED BY <2>0, <3>1, <4>1, CauseStays DEF Cause, Recorded, Kind, Upgrades
    <3> QED BY <1>2, <2>2, <3>1 DEF AddSo
  <2>3. CASE Script
    <3>1. CASE files["uninstall.sh"] \in {Missing, Torn} /\ Exit("error")
      <4>1. /\ run.op = "uninstall" /\ UNCHANGED <<inst, daemon, tmp, confDir>>
            /\ "uninstall.sh" \in PartNames /\ files["uninstall.sh"] \notin Versions
        BY <2>3, <3>1, PartFacts, TreeAssumption DEF Script, TInv, Where, host
      <4> QED BY <2>0, <3>1, <4>1, CauseStays DEF Cause
    <3> QED BY <1>1, <1>2, <2>3, <3>1 DEF Script
  <2>4. CASE CopyPart
    BY <1>2, <2>4 DEF CopyPart
  <2>5. CASE PutList
    BY <1>2, <2>5 DEF PutList
  <2>6. CASE SaveArgs
    BY <1>2, <2>6 DEF SaveArgs
  <2>7. CASE WriteTemp
    BY <1>2, <2>7 DEF WriteTemp
  <2>8. CASE MoveTemp
    BY <1>2, <2>8 DEF MoveTemp
  <2>9. CASE RemoveConfig
    BY <1>2, <2>9 DEF RemoveConfig
  <2>10. CASE RemoveTree
    BY <1>2, <2>10 DEF RemoveTree
  <2> QED BY <1>8, <2>1, <2>2, <2>3, <2>4, <2>5, <2>6, <2>7, <2>8, <2>9, <2>10 DEF Step
<1> QED BY <1>3, <1>4, <1>5, <1>6, <1>7, <1>8 DEF Next

\* Whenever and however often the scripts are stopped, an engine that names
\* the runtime finds all its files and base.list.
THEOREM NamedAlwaysThere == Spec => []NamedIsThere
<1>1. Init => NamedIsThere
  <2> SUFFICES ASSUME Init, NEW e \in Engines, NEW p \in Paths PROVE ~ Names(e, p)
    BY DEF NamedIsThere
  <2> QED BY InstallerAssumption, TreeAssumption DEF Init, Names
<1>2. IInv /\ TInv /\ NamedIsThere /\ [Next]_vars => NamedIsThere'
  BY NextNamedIsThere
<1> QED BY <1>1, <1>2, InstallerInvariance, TreeInvariance, PTL DEF Spec

\* An installation, an upgrade or a removal that reports success has done
\* what it is for, whatever the runs before it left behind.
THEOREM SuccessAlwaysTrue == Spec => []SuccessIsTrue
<1>1. Init => SuccessIsTrue
  BY DEF Init, SuccessIsTrue, InstalledComplete, UpgradedConsistent, UninstalledGone, Ended
<1>2. IInv /\ TInv /\ SuccessIsTrue /\ [Next]_vars => SuccessIsTrue'
  BY NextSuccess
<1> QED BY <1>1, <1>2, InstallerInvariance, TreeInvariance, PTL DEF Spec

\* A run that reports an error had a reason, and it is still there.
THEOREM ErrorAlwaysHasCause == Spec => []ErrorHasCause
<1>1. Init => ErrorHasCause
  BY DEF Init, ErrorHasCause
<1>2. IInv /\ TInv /\ ErrorHasCause /\ [Next]_vars => ErrorHasCause'
  BY NextErrorHasCause
<1> QED BY <1>1, <1>2, InstallerInvariance, TreeInvariance, PTL DEF Spec
=============================================================================
