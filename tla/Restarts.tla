------------------------------ MODULE Restarts ------------------------------
(***************************************************************************)
(* The program under its launcher: when it crashes another one takes its   *)
(* place, on the directories the first has left behind.                    *)
(*                                                                         *)
(* Launcher and Directories share the program's break flag; a step of the  *)
(* program needs a process that runs it.                                   *)
(***************************************************************************)
EXTENDS Naturals, Sequences, FiniteSets

CONSTANTS Pids, Monitor, MaxCrashes,                   \* of Launcher
          Disks, Names, Dir, File, Origins, Creates,   \* of Directories
          Failures, None

VARIABLES launcher, child, state, stop, crashes,
          tree, pc, again, told, creating, at, path, made, tried, failed, ready, errors,
          origin, found, calm,
          break

L == INSTANCE Launcher
D == INSTANCE Directories

ASSUME RestartsAssumption ==
  /\ Monitor \notin Pids
  /\ MaxCrashes \in Nat
  /\ IsFiniteSet(Disks) /\ None \notin Disks \cup D!Nodes
  /\ File \in Names
  /\ Dir \in [Disks -> Seq(Names) \ {<<>>}]
  /\ \A O \in Origins :
       O \subseteq Seq(Names) /\ <<>> \in O /\ \A p \in O : D!Prefixes(p) \subseteq O
  /\ \A d \in Disks : D!FileOf(d) \notin D!Dirs
  /\ Creates \subseteq SUBSET Disks

launching == <<launcher, child, state, stop, crashes>>
program   == <<tree, pc, again, told, creating, at, path, made, tried, failed, ready, errors,
               origin, found, calm>>
vars == <<launching, program, break>>

Processes == Pids \cup {Monitor}

Init == L!Init /\ D!Init

(* The launcher starts the program, in a child or by itself.               *)
Start == (L!ForkChild \/ L!ForkFails) /\ D!Begin

(* The launcher waits, sleeps, is told to break or dies.                   *)
Watch ==
  /\ L!ReapCrashed \/ L!ReapEnded \/ L!WakeUp
  /\ UNCHANGED program

Disturb ==
  /\ L!TellMonitor \/ L!MonitorDies
  /\ UNCHANGED program

(* The program returns from main.                                          *)
Return ==
  /\ pc = "exit"
  /\ \E p \in Processes : L!ProgramExits(p)
  /\ D!End

(* It crashes, is killed, or exits from the handler of SIGQUIT.            *)
Die ==
  /\ \E p \in Processes : L!ProgramCrashes(p) \/ L!ProgramKilled(p) \/ L!ProgramExits(p)
  /\ D!End

JobControl ==
  /\ \E p \in Pids : L!ProgramStops(p) \/ L!ProgramContinues(p)
  /\ UNCHANGED program

Tell == L!TellProgram /\ D!Told

Runnable == \E p \in Processes : L!CanRun(p)

MainStep == Runnable /\ D!MainStep /\ UNCHANGED launching

(* One disk service's step.                                                *)
DiskStep(d) == Runnable /\ D!DiskStep(d) /\ UNCHANGED launching

Ended == launcher \in {"gone", "dead"} /\ \A p \in Processes : ~L!Runs(p)

Over == Ended /\ UNCHANGED vars

Next ==
  \/ Start \/ Watch \/ Disturb
  \/ MainStep \/ \E d \in Disks : DiskStep(d)
  \/ Return \/ Die \/ JobControl \/ Tell
  \/ Over

Spec == Init /\ [][Next]_vars

(* The monitor and the program's threads are scheduled, a stopped program  *)
(* is continued, and one that has come to the end of main exits.           *)
Fairness ==
  /\ WF_vars(Start) /\ WF_vars(Watch)
  /\ \A p \in Pids : WF_vars(L!ProgramContinues(p) /\ UNCHANGED program)
  /\ SF_vars(MainStep) /\ \A d \in Disks : SF_vars(DiskStep(d))
  /\ SF_vars(Return)

FairSpec == Spec /\ Fairness

-----------------------------------------------------------------------------
(* Every variable keeps its type.                                          *)
TypeOK == L!TypeOK /\ D!TypeOK

OneProgram    == L!OneProgram
KeepsExisting == D!KeepsExisting
RunsOnDirs    == D!RunsOnDirs
LeavesTree    == D!LeavesTree

(* "Immortal process" (workload.c 310, process.c 49): after a crash the    *)
(* program runs again, unless the monitor dies; what the crash left on the *)
(* disks does not matter.                                                  *)
CrashRestarts ==
  launcher = "wait" /\ state[child] = "crashed" ~>
    launcher = "dead" \/ \E p \in Processes : L!Runs(p)

(* A monitor that was told to break while no program ran does not let      *)
(* another one go on: the copy of its flag breaks off the load, the new    *)
(* child exits, and the monitor follows it (main.c 45-55, process.c 76-85).*)
ToldMonitorEnds ==
  stop /\ launcher \in {"sleep", "fork"} ~> Ended
=============================================================================
