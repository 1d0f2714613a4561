------------------------------- MODULE Launcher -------------------------------
(***************************************************************************)
(* The launcher (source/process.c), started with --launcher: a monitor     *)
(* that forks the program, waits for it, and forks it again when it died   *)
(* of a signal that says it crashed.                                       *)
(*                                                                         *)
(* The monitor keeps the handlers main installed: SIGTERM, SIGINT and      *)
(* SIGHUP only set its break flag, which the next child inherits; SIGQUIT  *)
(* and the fatal signals end it, and the child goes on alone.  When fork   *)
(* fails the monitor returns and is the program itself, with nobody to     *)
(* watch it; nobody looks at what workload_launcher returned.              *)
(*                                                                         *)
(* Of the program there are its break flag and how its process ends.       *)
(* Restarts composes these actions with the program's own.                 *)
(***************************************************************************)
EXTENDS Naturals, FiniteSets

CONSTANTS
  Pids,       \* process ids for children
  Monitor,    \* the process that was started
  MaxCrashes  \* bound: the program crashes no more often than this

VARIABLES
  launcher,  \* where the monitor is: fork, wait, sleep, program; gone once it
             \* has exited, dead once a signal has ended it
  child,     \* s_pid
  state,     \* of each process id: free, runs, stopped, or dead and not yet waited for
  stop,      \* g_workload_break of the monitor
  break,     \* g_workload_break of the program
  crashes    \* history: how often the program crashed

vars == <<launcher, child, state, stop, break, crashes>>

Dead == {"exited", "crashed", "killed"}

Init ==
  /\ launcher = "fork"
  /\ child = Monitor
  /\ state = [p \in Pids |-> "free"]
  /\ stop = FALSE /\ break = FALSE
  /\ crashes = 0

(* Does process p run the program?                                         *)
Runs(p) == IF p = Monitor THEN launcher = "program" ELSE state[p] \in {"runs", "stopped"}

-----------------------------------------------------------------------------
(* The monitor.                                                            *)

(* Mutant: the child does not know what the monitor was told.              *)
ForkChild_Fresh ==
  /\ launcher = "fork"
  /\ \E p \in Pids :
       /\ state[p] = "free"
       /\ state' = [state EXCEPT ![p] = "runs"]
       /\ child' = p
  /\ launcher' = "wait"
  /\ break' = FALSE
  /\ UNCHANGED <<stop, crashes>>

(* The child has the fatal signals' handlers taken away, and a copy of the *)
(* monitor's break flag.                                                   *)
ForkChild ==
  /\ launcher = "fork"
  /\ \E p \in Pids :
       /\ state[p] = "free"
       /\ state' = [state EXCEPT ![p] = "runs"]
       /\ child' = p
  /\ launcher' = "wait"
  /\ break' = stop
  /\ UNCHANGED <<stop, crashes>>

ForkFails ==
  /\ launcher = "fork"
  /\ launcher' = "program"
  /\ break' = stop
  /\ UNCHANGED <<child, state, stop, crashes>>

(* Mutant: a child that was stopped is taken for a crashed one.            *)
ReapCrashed_OrStopped ==
  /\ launcher = "wait"
  /\ state[child] \in {"crashed", "stopped"}
  /\ state' = [state EXCEPT ![child] = IF @ = "crashed" THEN "free" ELSE @]
  /\ launcher' = "sleep"
  /\ UNCHANGED <<child, stop, break, crashes>>

(* Mutant: every child that died of a signal ends the launcher.            *)
ReapCrashed_Ends ==
  /\ launcher = "wait"
  /\ state[child] = "crashed"
  /\ state' = [state EXCEPT ![child] = "free"]
  /\ launcher' = "gone"
  /\ UNCHANGED <<child, stop, break, crashes>>

(* waitpid also tells of a stopped or continued child; only a dead one is  *)
(* looked at.  SIGBUS, SIGSTKFLT, SIGILL, SIGFPE, SIGSEGV, SIGPIPE: again. *)
ReapCrashed ==
  /\ launcher = "wait"
  /\ state[child] = "crashed"
  /\ state' = [state EXCEPT ![child] = "free"]
  /\ launcher' = "sleep"
  /\ UNCHANGED <<child, stop, break, crashes>>

(* A normal exit or any other signal ends the launcher.                    *)
ReapEnded ==
  /\ launcher = "wait"
  /\ state[child] \in {"exited", "killed"}
  /\ state' = [state EXCEPT ![child] = "free"]
  /\ launcher' = "gone"
  /\ UNCHANGED <<child, stop, break, crashes>>

(* After three seconds, whatever signals come.                             *)
WakeUp ==
  /\ launcher = "sleep"
  /\ launcher' = "fork"
  /\ UNCHANGED <<child, state, stop, break, crashes>>

Watching == launcher \in {"fork", "wait", "sleep"}

(* SIGTERM, SIGINT or SIGHUP to the monitor.                               *)
TellMonitor ==
  /\ Watching /\ ~stop
  /\ stop' = TRUE
  /\ UNCHANGED <<launcher, child, state, break, crashes>>

(* SIGQUIT, SIGKILL or a fatal signal to the monitor.  Nobody waits for    *)
(* its child any more.                                                     *)
MonitorDies ==
  /\ Watching
  /\ launcher' = "dead"
  /\ state' = [p \in Pids |-> IF state[p] \in Dead THEN "free" ELSE state[p]]
  /\ UNCHANGED <<child, stop, break, crashes>>

-----------------------------------------------------------------------------
(* The program, in process p.                                              *)

(* Where p's end leaves it: waited for, or gone with the monitor.          *)
Becomes(p, s) ==
  IF p = Monitor THEN launcher' = "gone" /\ UNCHANGED state
  ELSE /\ state' = [state EXCEPT ![p] = IF launcher = "dead" THEN "free" ELSE s]
       /\ UNCHANGED launcher

CanRun(p) == Runs(p) /\ (p \in Pids => state[p] = "runs")

(* It returns from main, or SIGQUIT makes it exit.                         *)
ProgramExits(p) ==
  /\ CanRun(p)
  /\ Becomes(p, "exited")
  /\ UNCHANGED <<child, stop, break, crashes>>

ProgramCrashes(p) ==
  /\ CanRun(p) /\ crashes < MaxCrashes
  /\ crashes' = crashes + 1
  /\ Becomes(p, "crashed")
  /\ UNCHANGED <<child, stop, break>>

(* A signal the launcher does not restart after: SIGKILL, SIGABRT.         *)
ProgramKilled(p) ==
  /\ Runs(p)
  /\ Becomes(p, "killed")
  /\ UNCHANGED <<child, stop, break, crashes>>

(* Job control.                                                            *)
ProgramStops(p) ==
  /\ p \in Pids /\ state[p] = "runs"
  /\ state' = [state EXCEPT ![p] = "stopped"]
  /\ UNCHANGED <<launcher, child, stop, break, crashes>>

ProgramContinues(p) ==
  /\ p \in Pids /\ state[p] = "stopped"
  /\ state' = [state EXCEPT ![p] = "runs"]
  /\ UNCHANGED <<launcher, child, stop, break, crashes>>

(* SIGTERM or SIGINT to the program.                                       *)
TellProgram ==
  /\ \E p \in Pids \cup {Monitor} : Runs(p)
  /\ break' = TRUE
  /\ UNCHANGED <<launcher, child, state, stop, crashes>>

-----------------------------------------------------------------------------
(* Every variable keeps its type.                                          *)
TypeOK ==
  /\ launcher \in {"fork", "wait", "sleep", "program", "gone", "dead"}
  /\ child \in Pids \cup {Monitor}
  /\ launcher = "wait" => child \in Pids
  /\ state \in [Pids -> {"free", "runs", "stopped"} \cup Dead]
  /\ {stop, break} \subseteq BOOLEAN
  /\ crashes \in 0 .. MaxCrashes

(* Never do two processes run the program, on the same directories, files  *)
(* and port (process.c 43-126): whoever is stopped, killed or told to end. *)
OneProgram ==
  \A p, q \in Pids \cup {Monitor} : Runs(p) /\ Runs(q) => p = q
=============================================================================
