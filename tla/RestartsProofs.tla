---------------------------- MODULE RestartsProofs ----------------------------
(***************************************************************************)
(* Proofs about Restarts, for any number of process ids, disks, paths and  *)
(* crashes: two processes never run the program, and what was there before *)
(* it is never deleted.                                                    *)
(***************************************************************************)
EXTENDS Restarts, TLAPS

(* All steps of the program itself.                                        *)
ProgramStep == MainStep \/ \E d \in Disks : DiskStep(d)

-----------------------------------------------------------------------------
(* One program.  Only the process the monitor waits for is not free, and   *)
(* before it forks, and once it is the program or has exited, none is.     *)

LauncherTypes ==
  /\ launcher \in {"fork", "wait", "sleep", "program", "gone", "dead"}
  /\ child \in Processes
  /\ launcher = "wait" => child \in Pids
  /\ state \in [Pids -> {"free", "runs", "stopped"} \cup L!Dead]

OnlyChild ==
  /\ \A p \in Pids : state[p] # "free" => p = child
  /\ launcher \in {"fork", "sleep", "program", "gone"} => \A p \in Pids : state[p] = "free"

Watched == LauncherTypes /\ OnlyChild

LEMMA WatchedInit == Init => Watched
BY DEF Init, L!Init, Watched, LauncherTypes, OnlyChild, Processes, L!Dead

(* What the end of the program in one process leaves.                      *)
LEMMA EndKeepsWatched ==
  ASSUME Watched, NEW p \in Processes, NEW s \in L!Dead,
         L!Runs(p), L!Becomes(p, s), child' = child
  PROVE  Watched'
<1>1. CASE p = Monitor
  BY <1>1 DEF Watched, LauncherTypes, OnlyChild, L!Runs, L!Becomes, Processes
<1>2. CASE p # Monitor
  <2>1. p \in Pids /\ p = child /\ launcher \in {"wait", "dead"}
    BY <1>2 DEF Watched, LauncherTypes, OnlyChild, L!Runs, Processes
  <2>2. launcher' = launcher
        /\ state' = [state EXCEPT ![p] = IF launcher = "dead" THEN "free" ELSE s]
    BY <1>2 DEF L!Becomes
  <2>. QED  BY <2>1, <2>2 DEF Watched, LauncherTypes, OnlyChild, Processes, L!Dead
<1>. QED  BY <1>1, <1>2

LEMMA WatchedStep == Watched /\ [Next]_vars => Watched'
<1>. SUFFICES ASSUME Watched, [Next]_vars PROVE Watched'
  OBVIOUS
<1>. USE RestartsAssumption DEF Watched, LauncherTypes, OnlyChild, Processes
<1>1. CASE Start
  BY <1>1 DEF Start, L!ForkChild, L!ForkFails
<1>2. CASE Watch
  BY <1>2 DEF Watch, L!ReapCrashed, L!ReapEnded, L!WakeUp, L!Dead
<1>3. CASE Disturb
  BY <1>3 DEF Disturb, L!TellMonitor, L!MonitorDies, L!Watching, L!Dead
<1>4. CASE ProgramStep
  BY <1>4 DEF ProgramStep, MainStep, DiskStep, launching
<1>5. CASE Return
  <2>1. PICK p \in Processes : L!ProgramExits(p)
    BY <1>5 DEF Return
  <2>. QED  BY <2>1, EndKeepsWatched DEF L!ProgramExits, L!CanRun, L!Dead
<1>6. CASE Die
  <2>1. PICK p \in Processes : L!ProgramCrashes(p) \/ L!ProgramKilled(p) \/ L!ProgramExits(p)
    BY <1>6 DEF Die
  <2>2. CASE L!ProgramCrashes(p)
    BY <2>2, EndKeepsWatched DEF L!ProgramCrashes, L!CanRun, L!Dead
  <2>3. CASE L!ProgramKilled(p)
    BY <2>3, EndKeepsWatched DEF L!ProgramKilled, L!Dead
  <2>4. CASE L!ProgramExits(p)
    BY <2>4, EndKeepsWatched DEF L!ProgramExits, L!CanRun, L!Dead
  <2>. QED  BY <2>1, <2>2, <2>3, <2>4
<1>7. CASE JobControl
  BY <1>7 DEF JobControl, L!ProgramStops, L!ProgramContinues
<1>8. CASE Tell
  BY <1>8 DEF Tell, L!TellProgram
<1>9. CASE Over \/ UNCHANGED vars
  BY <1>9 DEF Over, vars, launching
<1>. QED
  BY <1>1, <1>2, <1>3, <1>4, <1>5, <1>6, <1>7, <1>8, <1>9 DEF Next, ProgramStep

(* Never do two processes run the program (process.c 43-126): whatever is  *)
(* stopped, continued, killed, crashes or fails to fork.                   *)
THEOREM OneProgramOnly == Spec => []OneProgram
<1>1. Watched => OneProgram
  BY RestartsAssumption DEF Watched, LauncherTypes, OnlyChild, OneProgram, L!OneProgram, L!Runs
<1>. QED  BY <1>1, WatchedInit, WatchedStep, PTL DEF Spec

-----------------------------------------------------------------------------
(* Paths.                                                                  *)

LEMMA Prefix ==
  ASSUME NEW S, NEW s \in Seq(S), NEW n \in 0 .. Len(s)
  PROVE  /\ SubSeq(s, 1, n) \in Seq(S)
         /\ Len(SubSeq(s, 1, n)) = n
         /\ \A i \in 1 .. n : SubSeq(s, 1, n)[i] = s[i]
OBVIOUS

LEMMA PrefixOfPrefix ==
  ASSUME NEW S, NEW s \in Seq(S), NEW n \in 0 .. Len(s), NEW m \in 0 .. n
  PROVE  SubSeq(SubSeq(s, 1, n), 1, m) = SubSeq(s, 1, m)
OBVIOUS

LEMMA WholePrefix ==
  ASSUME NEW S, NEW s \in Seq(S) PROVE SubSeq(s, 1, Len(s)) = s
OBVIOUS

-----------------------------------------------------------------------------
(* What is deleted.  A service deletes at and below the first directory it *)
(* made (Below), which was not there before the program; nor then was      *)
(* anything below it.                                                      *)

Below(m, p) == Len(m) <= Len(p) /\ SubSeq(p, 1, Len(m)) = m

PathTypes ==
  /\ origin \in Origins
  /\ tree \subseteq Seq(Names)
  /\ path \in [Disks -> Seq(Names)]
  /\ made \in [Disks -> Seq(Names) \cup {None}]
  /\ at \in [Disks -> {"none", "check", "stat", "mkdir", "file", "report", "ready", "list",
                       "remove", "returned"}]

OnTheWay == \A d \in Disks : at[d] \in {"stat", "mkdir"} => Below(path[d], Dir[d])

MadeIsNew == \A d \in Disks : made[d] # None => made[d] \notin origin

DeletesOwn ==
  \A d \in Disks : at[d] \in {"list", "remove"} => made[d] # None /\ Below(made[d], path[d])

Kept == PathTypes /\ OnTheWay /\ MadeIsNew /\ DeletesOwn /\ KeepsExisting

(* Nothing below a directory that was not there was there.                 *)
LEMMA NewBelowNew ==
  ASSUME NEW O \in Origins, NEW p \in Seq(Names), NEW m \in Seq(Names), Below(m, p), m \notin O
  PROVE  p \notin O
<1>. SUFFICES ASSUME p \in O PROVE FALSE
  OBVIOUS
<1>1. Len(m) \in 0 .. Len(p) /\ m = SubSeq(p, 1, Len(m))
  BY DEF Below
<1>2. m \in D!Prefixes(p)
  BY <1>1 DEF D!Prefixes
<1>. QED  BY <1>2, RestartsAssumption

(* Up from below m, and down to a child, is below m.                       *)
LEMMA ParentBelow ==
  ASSUME NEW m \in Seq(Names), NEW p \in Seq(Names), Below(m, p), p # m
  PROVE  D!Parent(p) \in Seq(Names) /\ Below(m, D!Parent(p))
<1>1. Len(m) < Len(p)
  BY WholePrefix DEF Below
<1>2. Len(p) - 1 \in 0 .. Len(p) /\ Len(m) \in 0 .. Len(p) - 1
  BY <1>1
<1>3. D!Parent(p) \in Seq(Names) /\ Len(D!Parent(p)) = Len(p) - 1
  BY <1>2, Prefix DEF D!Parent
<1>4. SubSeq(D!Parent(p), 1, Len(m)) = SubSeq(p, 1, Len(m))
  BY <1>2, PrefixOfPrefix DEF D!Parent
<1>. QED  BY <1>2, <1>3, <1>4 DEF Below

LEMMA ChildBelow ==
  ASSUME NEW m \in Seq(Names), NEW p \in Seq(Names), NEW c \in Seq(Names),
         Below(m, p), Len(c) = Len(p) + 1, D!Parent(c) = p
  PROVE  Below(m, c)
<1>1. p = SubSeq(c, 1, Len(p))
  BY DEF D!Parent
<1>2. SubSeq(SubSeq(c, 1, Len(p)), 1, Len(m)) = SubSeq(c, 1, Len(m))
  BY PrefixOfPrefix DEF Below
<1>. QED  BY <1>1, <1>2 DEF Below

LEMMA ParentOnTheWay ==
  ASSUME NEW p \in Seq(Names), NEW q \in Seq(Names), Below(p, q), p # <<>>
  PROVE  D!Parent(p) \in Seq(Names) /\ Below(D!Parent(p), q)
<1>1. Len(p) - 1 \in 0 .. Len(p) /\ Len(p) - 1 \in 0 .. Len(q) /\ Len(p) \in 0 .. Len(q)
  BY DEF Below
<1>2. D!Parent(p) \in Seq(Names) /\ Len(D!Parent(p)) = Len(p) - 1
  BY <1>1, Prefix DEF D!Parent
<1>3. SubSeq(SubSeq(q, 1, Len(p)), 1, Len(p) - 1) = SubSeq(q, 1, Len(p) - 1)
  BY <1>1, PrefixOfPrefix
<1>. QED  BY <1>1, <1>2, <1>3 DEF Below, D!Parent

(* The next directory towards d's own.                                     *)
LEMMA TowardBelow ==
  ASSUME NEW d \in Disks, NEW p \in Seq(Names), Below(p, Dir[d]), p # Dir[d]
  PROVE  D!Toward(d, p) \in Seq(Names) /\ Below(D!Toward(d, p), Dir[d])
<1>1. Dir[d] \in Seq(Names)
  BY RestartsAssumption
<1>2. Len(p) + 1 \in 0 .. Len(Dir[d])
  BY <1>1, WholePrefix DEF Below
<1>. QED  BY <1>1, <1>2, Prefix DEF Below, D!Toward

LEMMA KeptInit == Init => Kept
BY RestartsAssumption
DEF Init, D!Init, Kept, PathTypes, OnTheWay, MadeIsNew, DeletesOwn, KeepsExisting, D!KeepsExisting

(* The main thread touches no path but at the start of a turn.             *)
LEMMA MainStepKeeps == Kept /\ MainStep => Kept'
<1>. SUFFICES ASSUME Kept, MainStep PROVE Kept'
  OBVIOUS
<1>. USE DEF Kept, PathTypes, OnTheWay, MadeIsNew, DeletesOwn, KeepsExisting, D!KeepsExisting
<1>1. CASE D!StartDisks
  <2>1. \A d \in Disks : Dir[d] \in Seq(Names) /\ Below(Dir[d], Dir[d])
    BY RestartsAssumption, WholePrefix DEF Below
  <2>. QED  BY <1>1, <2>1, RestartsAssumption DEF D!StartDisks, D!Fresh
<1>2. CASE \E d \in Disks : D!DiskClosed(d)
  BY <1>2 DEF D!DiskClosed
<1>3. CASE \/ D!GiveUp \/ D!LoadFails \/ D!Loaded \/ D!LeaveRun \/ D!TurnEnds
           \/ \E d \in Disks : D!CloseDisk(d)
  BY <1>3 DEF D!GiveUp, D!LoadFails, D!Loaded, D!LeaveRun, D!TurnEnds, D!CloseDisk, D!service
<1>. QED  BY <1>1, <1>2, <1>3 DEF MainStep, D!MainStep

(* A step of d's service leaves the other services alone.                  *)
LEMMA DiskStepKeeps ==
  ASSUME Kept, NEW d \in Disks, D!DiskStep(d)
  PROVE  Kept'
<1>. USE DEF Kept, PathTypes, OnTheWay, MadeIsNew, DeletesOwn, KeepsExisting, D!KeepsExisting,
             D!Goto, D!main
<1>1. Dir[d] \in Seq(Names) /\ <<>> \in origin
  BY RestartsAssumption
<1>2. CASE D!CheckDir(d) \/ D!Report(d)
  BY <1>2 DEF D!CheckDir, D!Report
<1>3. CASE D!StatDir(d)
  <2>1. CASE path[d] \notin tree
    <3>1. D!Parent(path[d]) \in Seq(Names) /\ Below(D!Parent(path[d]), Dir[d])
      BY <1>1, <1>3, <2>1, ParentOnTheWay DEF D!StatDir
    <3>. QED  BY <1>3, <2>1, <3>1 DEF D!StatDir
  <2>2. CASE path[d] \in tree /\ path[d] = Dir[d]
    BY <1>3, <2>2 DEF D!StatDir
  <2>3. CASE path[d] \in tree /\ path[d] # Dir[d]
    <3>1. D!Toward(d, path[d]) \in Seq(Names) /\ Below(D!Toward(d, path[d]), Dir[d])
      BY <1>3, <2>3, TowardBelow DEF D!StatDir
    <3>. QED  BY <1>3, <2>3, <3>1 DEF D!StatDir
  <2>. QED  BY <2>1, <2>2, <2>3
<1>4. CASE D!MakeDir(d)
  <2>1. path[d] # Dir[d] =>
          D!Toward(d, path[d]) \in Seq(Names) /\ Below(D!Toward(d, path[d]), Dir[d])
    BY <1>4, TowardBelow DEF D!MakeDir
  <2>2. path' \in [Disks -> Seq(Names)] /\ \A e \in Disks : e # d => path'[e] = path[e]
    BY <1>4, <2>1 DEF D!MakeDir, D!Descend
  <2>3. /\ at' \in [Disks -> {"none", "check", "stat", "mkdir", "file", "report", "ready", "list",
                              "remove", "returned"}]
        /\ at'[d] \in {"mkdir", "file"}
        /\ \A e \in Disks : e # d => at'[e] = at[e]
    BY <1>4 DEF D!MakeDir, D!Descend
  <2>4. at'[d] = "mkdir" => Below(path'[d], Dir[d])
    BY <1>4, <2>1 DEF D!MakeDir, D!Descend
  <2>5. /\ made' \in [Disks -> Seq(Names) \cup {None}]
        /\ \A e \in Disks : e # d => made'[e] = made[e]
        /\ made'[d] # None => made'[d] \notin origin
    BY <1>4 DEF D!MakeDir
  <2>6. tree' = tree \cup {path[d]} /\ origin' = origin
    BY <1>4 DEF D!MakeDir
  <2>7. PathTypes'
    BY <2>2, <2>3, <2>5, <2>6
  <2>8. OnTheWay' /\ MadeIsNew' /\ DeletesOwn' /\ KeepsExisting'
    BY <2>2, <2>3, <2>4, <2>5, <2>6
  <2>. QED  BY <2>7, <2>8
<1>5. CASE D!MakeDirFails(d)
  <2>1. made[d] # None => made[d] \in Seq(Names) /\ Below(made[d], made[d])
    BY WholePrefix DEF Below
  <2>. QED  BY <1>5, <2>1 DEF D!MakeDirFails
<1>6. CASE D!WriteFile(d)
  <2>1. D!FileOf(d) \in Seq(Names)
    BY <1>1, RestartsAssumption DEF D!FileOf
  <2>. QED  BY <1>6, <2>1 DEF D!WriteFile
<1>7. CASE D!Stop(d)
  <2>1. made[d] # None => made[d] \in Seq(Names) /\ Below(made[d], made[d])
    BY WholePrefix DEF Below
  <2>. QED  BY <1>7, <2>1 DEF D!Stop
<1>8. CASE D!ReadDir(d)
  <2>1. \A c \in D!Children(path[d]) : c \in Seq(Names) /\ Below(made[d], c)
    BY <1>8, ChildBelow DEF D!ReadDir, D!Children
  <2>. QED  BY <1>8, <2>1 DEF D!ReadDir
<1>9. CASE D!Remove(d)
  <2>1. made[d] \in Seq(Names) /\ made[d] \notin origin /\ Below(made[d], path[d])
    BY <1>9 DEF D!Remove
  <2>2. path[d] \notin origin
    BY <2>1, NewBelowNew
  <2>3. path[d] # made[d] =>
          D!Parent(path[d]) \in Seq(Names) /\ Below(made[d], D!Parent(path[d]))
    BY <2>1, ParentBelow
  <2>. QED  BY <1>9, <2>1, <2>2, <2>3 DEF D!Remove
<1>. QED  BY <1>2, <1>3, <1>4, <1>5, <1>6, <1>7, <1>8, <1>9 DEF D!DiskStep

LEMMA KeptStep == Kept /\ [Next]_vars => Kept'
<1>. SUFFICES ASSUME Kept, [Next]_vars PROVE Kept'
  OBVIOUS
<1>1. CASE MainStep
  BY <1>1, MainStepKeeps
<1>2. CASE \E d \in Disks : DiskStep(d)
  BY <1>2, DiskStepKeeps DEF DiskStep
<1>. USE DEF Kept, PathTypes, OnTheWay, MadeIsNew, DeletesOwn, KeepsExisting, D!KeepsExisting
<1>3. CASE Return \/ Die
  <2>1. D!End
    BY <1>3 DEF Return, Die
  <2>. QED  BY <2>1, RestartsAssumption DEF D!End, D!Fresh
<1>4. CASE Start
  BY <1>4 DEF Start, D!Begin, D!service
<1>5. CASE Tell
  BY <1>5 DEF Tell, D!Told, D!main, D!service
<1>6. CASE Watch \/ Disturb \/ JobControl \/ Over \/ UNCHANGED vars
  BY <1>6 DEF Watch, Disturb, JobControl, Over, vars, program
<1>. QED  BY <1>1, <1>2, <1>3, <1>4, <1>5, <1>6 DEF Next

(* No directory is deleted that was there before the program (io.c         *)
(* 136-262), whatever the services of other disks make and delete at the   *)
(* same time, however often it dies and starts again.                      *)
THEOREM OnlyMadeDeleted == Spec => []KeepsExisting
<1>1. Kept => KeepsExisting
  BY DEF Kept
<1>. QED  BY <1>1, KeptInit, KeptStep, PTL DEF Spec
=============================================================================
