------------------------- MODULE RestartsTreeProofs -------------------------
(***************************************************************************)
(* Proofs about the directories of Restarts, for any disks, with any       *)
(* parents in common: the main loop runs on what is there, a calm turn     *)
(* leaves the directories as it found them, and the types.                 *)
(***************************************************************************)
EXTENDS RestartsProofs, FiniteSetTheorems

(* A program runs when the main thread is somewhere, and its services are  *)
(* open from the start of a load until they are closed one by one.         *)
Places ==
  /\ (\A p \in Processes : ~L!Runs(p)) => pc = "none"
  /\ pc \in {"none", "load", "exit"} => \A d \in Disks : at[d] = "none"
  /\ told # None => pc = "close" /\ told \in Disks /\ at[told] # "none"
  /\ pc = "none" => /\ failed = {}
                    /\ \A d \in Disks : made[d] = None /\ tried[d] = {}

Loading == pc \in {"wait", "run"}
Now(l) == {d \in Disks : at[d] = l}

(* While services start, only those that fail delete anything, and those   *)
(* never are ready.                                                        *)
Starting ==
  /\ failed \subseteq Disks
  /\ \A d \in Disks :
       /\ at[d] \in {"check", "stat", "mkdir", "file", "ready"} => d \notin failed
       /\ Loading /\ at[d] \in {"list", "remove"} => d \in failed
       /\ Loading /\ failed = {} /\ at[d] \in {"file", "report", "ready"} => Dir[d] \in tree
       /\ Loading /\ failed = {} /\ errors = 0 /\ at[d] \in {"report", "ready"} =>
            D!FileOf(d) \in tree
  /\ errors \in Nat
  /\ pc = "wait" => ready = Cardinality(Now("ready"))
  /\ pc = "run" => failed = {} /\ errors = 0 /\ Now("ready") = Disks

Loads == Watched /\ Kept /\ Places /\ Starting

LEMMA LoadsInit == Init => Loads
<1>1. Init => Watched /\ Kept
  BY WatchedInit, KeptInit
<1>. QED
  BY <1>1, RestartsAssumption DEF Init, L!Init, D!Init, Loads, Places, Starting, Loading

LEMMA NowTypes == ASSUME NEW l PROVE IsFiniteSet(Now(l)) /\ Cardinality(Now(l)) \in Nat
<1>1. Now(l) \subseteq Disks
  BY DEF Now
<1>. QED  BY <1>1, FS_Subset, FS_CardinalityType, RestartsAssumption

(* As many as there are disks are all of them.                             *)
LEMMA AllReady == ASSUME Starting, D!Loaded PROVE Now("ready") = Disks
<1>1. pc = "wait" /\ ready = D!Cardinality(Disks)
  BY DEF D!Loaded
<1>2. D!Cardinality(Disks) = Cardinality(Disks)
  BY DEF D!Cardinality, Cardinality
<1>3. ready = Cardinality(Now("ready")) /\ Now("ready") \in SUBSET Disks
  BY <1>1 DEF Starting, Now
<1>4. Cardinality(Now("ready")) = Cardinality(Disks)
  BY <1>1, <1>2, <1>3
<1>. QED  BY <1>3, <1>4, FS_Subset, RestartsAssumption

LEMMA MainStepLoads == Loads /\ MainStep => Places' /\ Starting'
<1>. SUFFICES ASSUME Loads, MainStep PROVE Places' /\ Starting'
  OBVIOUS
<1>. USE RestartsAssumption
     DEF Loads, Kept, PathTypes, Places, Starting, Loading, MainStep, launching, L!Runs
<1>1. CASE D!GiveUp \/ D!LoadFails \/ D!LeaveRun
  BY <1>1 DEF D!GiveUp, D!LoadFails, D!LeaveRun, D!service, Now
<1>2. CASE D!StartDisks
  <2>1. Now("ready")' = {}
    BY <1>2 DEF D!StartDisks, Now
  <2>. QED  BY <1>2, <2>1, FS_EmptySet DEF D!StartDisks, D!Fresh
<1>3. CASE D!Loaded
  <2>1. Now("ready") = Disks
    BY <1>3, AllReady
  <2>2. failed = {}
    BY <2>1 DEF Now
  <2>. QED  BY <1>3, <2>1, <2>2 DEF D!Loaded, D!service, Now
<1>4. CASE \E d \in Disks : D!CloseDisk(d) \/ D!DiskClosed(d)
  <2>1. pc = "close" /\ pc' = "close"
    BY <1>4 DEF D!CloseDisk, D!DiskClosed
  <2>2. UNCHANGED <<launcher, state, tree, made, failed, errors>>
    BY <1>4 DEF D!CloseDisk, D!DiskClosed, D!service
  <2>3. told' # None => told' \in Disks /\ at'[told'] # "none"
    BY <1>4 DEF D!CloseDisk, D!DiskClosed, D!service
  <2>4. \A d \in Disks : at'[d] \in {at[d], "none"}
    BY <1>4 DEF D!CloseDisk, D!DiskClosed, D!service
  <2>. QED  BY <2>1, <2>2, <2>3, <2>4
<1>5. CASE D!TurnEnds
  BY <1>5 DEF D!TurnEnds, D!service, Now
<1>. QED  BY <1>1, <1>2, <1>3, <1>4, <1>5 DEF D!MainStep

LEMMA DiskStepLoads ==
  ASSUME Loads, NEW d \in Disks, DiskStep(d)
  PROVE  Places' /\ Starting'
<1>. USE DEF Loads, Kept, PathTypes, DiskStep, D!Goto, D!main
<1>1. D!DiskStep(d) /\ UNCHANGED launching
  OBVIOUS
<1>2. \A e \in Disks : e # d => at'[e] = at[e] /\ made'[e] = made[e]
  BY <1>1 DEF D!DiskStep, D!CheckDir, D!StatDir, D!MakeDir, D!MakeDirFails, D!WriteFile, D!Report,
     D!Stop, D!ReadDir, D!Remove, D!Descend
<1>3. at[d] # "none" /\ at'[d] # "none"
  BY <1>1 DEF D!DiskStep, D!CheckDir, D!StatDir, D!MakeDir, D!MakeDirFails, D!WriteFile, D!Report,
     D!Stop, D!ReadDir, D!Remove, D!Descend
<1>4. UNCHANGED <<pc, told>>
  BY <1>1 DEF D!DiskStep, D!CheckDir, D!StatDir, D!MakeDir, D!MakeDirFails, D!WriteFile, D!Report,
     D!Stop, D!ReadDir, D!Remove, D!Descend
<1>5. Places'
  BY <1>1, <1>2, <1>3, <1>4 DEF Places, launching, L!Runs
<1>. USE DEF Places, Starting, Loading
<1>6. CASE ~D!Report(d)
  <2>1. at[d] # "ready" => at'[d] # "ready"
    BY <1>1, <1>6 DEF D!DiskStep, D!CheckDir, D!StatDir, D!MakeDir, D!MakeDirFails, D!WriteFile,
       D!Stop, D!ReadDir, D!Remove, D!Descend
  <2>2. Loading => at[d] # "ready"
    BY <1>1, <1>6, RestartsAssumption DEF D!DiskStep, D!CheckDir, D!StatDir, D!MakeDir,
       D!MakeDirFails, D!WriteFile, D!Stop, D!ReadDir, D!Remove
  <2>3. Loading => Now("ready")' = Now("ready") /\ ready' = ready /\ pc = "wait"
    <3>1. ready' = ready
      BY <1>1, <1>6 DEF D!DiskStep, D!CheckDir, D!StatDir, D!MakeDir, D!MakeDirFails, D!WriteFile,
         D!Stop, D!ReadDir, D!Remove
    <3>. QED  BY <2>1, <2>2, <3>1, <1>2 DEF Now
  <2>4. errors' \in Nat /\ failed' \subseteq Disks
    BY <1>1, <1>6 DEF D!DiskStep, D!CheckDir, D!StatDir, D!MakeDir, D!MakeDirFails, D!WriteFile,
       D!Stop, D!ReadDir, D!Remove
  <2>5. \A e \in Disks :
          /\ at'[e] \in {"check", "stat", "mkdir", "file", "ready"} => e \notin failed'
          /\ Loading /\ at'[e] \in {"list", "remove"} => e \in failed'
    BY <1>1, <1>2, <1>6, <2>1, RestartsAssumption DEF D!DiskStep, D!CheckDir, D!StatDir, D!MakeDir,
       D!MakeDirFails, D!WriteFile, D!Stop, D!ReadDir, D!Remove, D!Descend
  <2>6. ASSUME Loading, failed' = {}, NEW e \in Disks, at'[e] \in {"file", "report", "ready"}
        PROVE  Dir[e] \in tree'
    <3>1. tree \subseteq tree' /\ failed = {}
      BY <1>1, <1>6, <2>6 DEF D!DiskStep, D!CheckDir, D!StatDir, D!MakeDir,
         D!MakeDirFails, D!WriteFile, D!Stop, D!ReadDir, D!Remove
    <3>2. CASE e # d
      BY <1>2, <2>6, <3>1, <3>2
    <3>3. CASE e = d
      BY <1>1, <1>6, <2>6, <3>1, <3>3 DEF D!DiskStep, D!CheckDir, D!StatDir, D!MakeDir,
         D!MakeDirFails, D!WriteFile, D!Stop, D!ReadDir, D!Remove, D!Descend
    <3>. QED  BY <3>2, <3>3
  <2>7. ASSUME Loading, failed' = {}, errors' = 0, NEW e \in Disks, at'[e] \in {"report", "ready"}
        PROVE  D!FileOf(e) \in tree'
    <3>1. tree \subseteq tree' /\ failed = {} /\ errors = 0
      BY <1>1, <1>6, <2>7 DEF D!DiskStep, D!CheckDir, D!StatDir, D!MakeDir,
         D!MakeDirFails, D!WriteFile, D!Stop, D!ReadDir, D!Remove
    <3>2. CASE e # d
      BY <1>2, <2>7, <3>1, <3>2
    <3>3. CASE e = d
      BY <1>1, <1>6, <2>7, <3>1, <3>3, RestartsAssumption DEF D!DiskStep, D!CheckDir, D!StatDir,
         D!MakeDir, D!MakeDirFails, D!WriteFile, D!Stop, D!ReadDir, D!Remove, D!Descend
    <3>. QED  BY <3>2, <3>3
  <2>8. Loading => pc' = "wait" /\ ready' = Cardinality(Now("ready")')
    BY <1>4, <2>3
  <2>9. Loading' <=> Loading
    BY <1>4
  <2>10. Starting'
    BY <1>4, <2>4, <2>5, <2>6, <2>7, <2>8, <2>9
  <2>. QED  BY <1>5, <2>10
<1>7. CASE D!Report(d)
  <2>. USE DEF D!Report
  <2>1. CASE d \in failed
    <3>1. Now("ready")' = Now("ready")
      BY <1>7, <2>1 DEF Now
    <3>2. pc # "run"
      BY <1>7, <2>1
    <3>. QED  BY <1>5, <1>7, <2>1, <3>1, <3>2
  <2>2. CASE d \notin failed
    <3>1. Now("ready")' = Now("ready") \cup {d} /\ d \notin Now("ready")
      BY <1>7, <2>2 DEF Now
    <3>2. Cardinality(Now("ready")') = Cardinality(Now("ready")) + 1
      BY <3>1, NowTypes, FS_AddElement
    <3>3. pc # "run"
      BY <3>1
    <3>. QED  BY <1>5, <1>7, <2>2, <3>2, <3>3
  <2>. QED  BY <2>1, <2>2
<1>. QED  BY <1>5, <1>6, <1>7

LEMMA LoadsStep == Loads /\ [Next]_vars => Loads'
<1>. SUFFICES ASSUME Loads, [Next]_vars PROVE Loads'
  OBVIOUS
<1>1. Watched' /\ Kept'
  BY WatchedStep, KeptStep DEF Loads
<1>2. CASE MainStep \/ \E d \in Disks : DiskStep(d)
  BY <1>1, <1>2, MainStepLoads, DiskStepLoads DEF Loads
<1>. USE DEF Loads, Places, Starting, Loading
<1>3. CASE Return \/ Die
  <2>1. D!End
    BY <1>3 DEF Return, Die
  <2>. QED  BY <1>1, <2>1, RestartsAssumption DEF D!End, D!Fresh
<1>4. CASE Start
  <2>1. \A p \in Processes : ~L!Runs(p)
    BY <1>4, RestartsAssumption
    DEF Start, L!ForkChild, L!ForkFails, Watched, LauncherTypes, OnlyChild, L!Runs, Processes
  <2>2. \E p \in Processes : L!Runs(p)'
    BY <1>4, RestartsAssumption
    DEF Start, L!ForkChild, L!ForkFails, Watched, LauncherTypes, L!Runs, Processes
  <2>. QED  BY <1>1, <1>4, <2>1, <2>2 DEF Start, D!Begin, D!service
<1>5. CASE Tell
  BY <1>1, <1>5 DEF Tell, L!TellProgram, L!Runs, D!Told, D!main, D!service, Now
<1>6. CASE Watch \/ Disturb \/ JobControl
  <2>1. \A p \in Processes : L!Runs(p)' = L!Runs(p)
    BY <1>6, RestartsAssumption
    DEF Watch, Disturb, JobControl, L!ReapCrashed, L!ReapEnded, L!WakeUp, L!TellMonitor,
        L!MonitorDies, L!ProgramStops, L!ProgramContinues, L!Runs, L!Watching, L!Dead,
        Watched, LauncherTypes, Processes
  <2>. QED  BY <1>1, <1>6, <2>1 DEF Watch, Disturb, JobControl, program, Now
<1>7. CASE Over \/ UNCHANGED vars
  BY <1>1, <1>7 DEF Over, vars, program, launching, L!Runs, Now
<1>. QED  BY <1>2, <1>3, <1>4, <1>5, <1>6, <1>7 DEF Next

(* The main loop runs only when every disk has its directory and its file, *)
(* whatever other services failed to make and deleted while it loaded      *)
(* (workload_config.c 712-720).                                            *)
THEOREM LoadedOnDirs == Spec => []RunsOnDirs
<1>1. Loads => RunsOnDirs
  BY DEF Loads, Starting, Loading, Now, RunsOnDirs, D!RunsOnDirs
<1>. QED  BY <1>1, LoadsInit, LoadsStep, PTL DEF Spec

-----------------------------------------------------------------------------
(* Trees of directories.                                                   *)

(* Where there is a directory there are its parents.                       *)
ClosedUpward(T) == \A p \in T, m \in Seq(Names) : Below(m, p) => m \in T

LEMMA BelowItself == ASSUME NEW p \in Seq(Names) PROVE Below(p, p)
BY WholePrefix DEF Below

LEMMA BelowBelow ==
  ASSUME NEW m \in Seq(Names), NEW p \in Seq(Names), NEW q \in Seq(Names),
         Below(m, p), Below(p, q)
  PROVE  Below(m, q)
<1>1. Len(p) \in 0 .. Len(q) /\ Len(m) \in 0 .. Len(p) /\ SubSeq(q, 1, Len(p)) = p
  BY DEF Below
<1>2. SubSeq(SubSeq(q, 1, Len(p)), 1, Len(m)) = SubSeq(q, 1, Len(m))
  BY <1>1, PrefixOfPrefix
<1>. QED  BY <1>1, <1>2 DEF Below

(* On the way from m down to p there is a child of m.                      *)
LEMMA ChildOnTheWay ==
  ASSUME NEW m \in Seq(Names), NEW p \in Seq(Names), Below(m, p), p # m
  PROVE  \E c \in Seq(Names) : Below(c, p) /\ Below(m, c) /\ Len(c) = Len(m) + 1 /\ D!Parent(c) = m
<1>. DEFINE c == SubSeq(p, 1, Len(m) + 1)
<1>1. Len(m) < Len(p)
  BY WholePrefix DEF Below
<1>2. Len(m) + 1 \in 0 .. Len(p) /\ Len(m) \in 0 .. Len(m) + 1
  BY <1>1
<1>3. c \in Seq(Names) /\ Len(c) = Len(m) + 1
  BY <1>2, Prefix
<1>4. SubSeq(c, 1, Len(m)) = m
  BY <1>2, PrefixOfPrefix DEF Below
<1>5. Below(c, p)
  BY <1>2, <1>3 DEF Below
<1>6. Below(m, c) /\ D!Parent(c) = m
  BY <1>3, <1>4 DEF Below, D!Parent
<1>. QED  BY <1>3, <1>5, <1>6

LEMMA NoChildren ==
  ASSUME NEW T \in SUBSET Seq(Names), ClosedUpward(T), NEW m \in Seq(Names), NEW p \in T,
         Below(m, p), p # m
  PROVE  \E c \in T : Len(c) = Len(m) + 1 /\ D!Parent(c) = m
BY ChildOnTheWay DEF ClosedUpward

(* A directory made in one that is there, and one deleted that is empty,   *)
(* leave the tree closed.                                                  *)
LEMMA AddedToParent ==
  ASSUME NEW T \in SUBSET Seq(Names), ClosedUpward(T), NEW p \in Seq(Names), D!Parent(p) \in T
  PROVE  ClosedUpward(T \cup {p})
BY ParentBelow DEF ClosedUpward

LEMMA RemovedEmpty ==
  ASSUME NEW T \in SUBSET Seq(Names), ClosedUpward(T), NEW p \in Seq(Names),
         {c \in T : Len(c) = Len(p) + 1 /\ D!Parent(c) = p} = {}
  PROVE  ClosedUpward(T \ {p})
BY NoChildren DEF ClosedUpward

LEMMA DirsAre ==
  ASSUME NEW p
  PROVE  p \in D!Dirs <=> \/ \E O \in Origins : p \in O
                          \/ \E d \in Disks : p \in D!Prefixes(Dir[d])
BY DEF D!Dirs

LEMMA PrefixesAre ==
  ASSUME NEW s, NEW p
  PROVE  p \in D!Prefixes(s) <=> \E n \in 0 .. Len(s) : p = SubSeq(s, 1, n)
BY DEF D!Prefixes

LEMMA DirsClosed == D!Dirs \subseteq Seq(Names) /\ ClosedUpward(D!Dirs)
<1>1. ASSUME NEW O \in Origins, NEW p \in O, NEW m \in Seq(Names), Below(m, p)
      PROVE  m \in D!Dirs
  <2>1. p \in Seq(Names) /\ D!Prefixes(p) \subseteq O
    BY RestartsAssumption
  <2>2. Len(m) \in 0 .. Len(p) /\ m = SubSeq(p, 1, Len(m))
    BY <1>1, <2>1 DEF Below
  <2>3. m \in O
    BY <2>1, <2>2, PrefixesAre
  <2>. QED  BY <2>3, DirsAre
<1>2. ASSUME NEW d \in Disks, NEW p \in D!Prefixes(Dir[d]), NEW m \in Seq(Names), Below(m, p)
      PROVE  m \in D!Dirs
  <2>1. PICK n \in 0 .. Len(Dir[d]) : p = SubSeq(Dir[d], 1, n)
    BY PrefixesAre
  <2>2. Dir[d] \in Seq(Names)
    BY RestartsAssumption
  <2>3. Len(p) = n
    BY <2>1, <2>2, Prefix
  <2>4. Len(m) \in 0 .. n
    BY <1>2, <2>3 DEF Below
  <2>5. m = SubSeq(Dir[d], 1, Len(m)) /\ Len(m) \in 0 .. Len(Dir[d])
    BY <1>2, <2>1, <2>2, <2>4, PrefixOfPrefix DEF Below
  <2>6. m \in D!Prefixes(Dir[d])
    BY <2>5, PrefixesAre
  <2>. QED  BY <2>6, DirsAre
<1>3. ASSUME NEW d \in Disks, NEW p \in D!Prefixes(Dir[d])
      PROVE  p \in Seq(Names)
  <2>1. Dir[d] \in Seq(Names)
    BY RestartsAssumption
  <2>. QED  BY <2>1, PrefixesAre, Prefix
<1>4. \A O \in Origins : O \subseteq Seq(Names)
  BY RestartsAssumption
<1>5. D!Dirs \subseteq Seq(Names)
  BY <1>3, <1>4, DirsAre
<1>6. ClosedUpward(D!Dirs)
  BY <1>1, <1>2, DirsAre DEF ClosedUpward
<1>. QED  BY <1>5, <1>6

LEMMA FoundClosed ==
  ASSUME NEW T \in SUBSET Seq(Names), ClosedUpward(T)
  PROVE  ClosedUpward(T \cap D!Dirs)
BY DirsClosed DEF ClosedUpward

-----------------------------------------------------------------------------
(* A calm turn.                                                            *)

TurnTypes ==
  /\ pc \in {"none", "load", "wait", "run", "close", "exit"}
  /\ calm \in BOOLEAN
  /\ tried \in [Disks -> SUBSET Seq(Names)]
  /\ found \subseteq D!Dirs

(* On its way down a service is below the first directory it made.         *)
MadeOnTheWay ==
  \A d \in Disks :
    /\ at[d] \in {"check", "stat"} => made[d] = None
    /\ at[d] = "mkdir" /\ made[d] # None => Below(made[d], path[d])

(* In a calm turn no service fails, the services are closed only when all  *)
(* of them have been ready, and only the one that is told deletes.         *)
CalmClose ==
  /\ failed = {}
  /\ pc = "wait" => ~break /\ errors = 0
  /\ pc = "close" =>
       \A d \in Disks : /\ at[d] \in {"ready", "list", "remove", "returned", "none"}
                        /\ at[d] \in {"list", "remove"} => told = d

(* What is deleted is deleted for good, from the bottom.                   *)
DepthFirst ==
  \A d \in Disks : /\ Loading => tried[d] = {}
                   /\ tried[d] \cap tree = {}
                   /\ at[d] = "remove" => D!Children(path[d]) = {}

(* What the turn found is there; what else is there is below a directory   *)
(* that an open service made and will delete.                              *)
WillDelete(d, p) == at[d] \notin {"none", "returned"} /\ made[d] # None /\ Below(made[d], p)

Accounted ==
  /\ found \subseteq tree
  /\ \A d \in Disks : made[d] # None => made[d] \notin found
  /\ \A p \in (tree \cap D!Dirs) \ found : \E d \in Disks : WillDelete(d, p)

CalmTurn == CalmClose /\ DepthFirst /\ Accounted

Grown == TurnTypes /\ MadeOnTheWay /\ ClosedUpward(tree) /\ ClosedUpward(found)

Turns == Loads /\ Grown /\ (calm => CalmTurn)

LEMMA TurnsInit == Init => Turns
<1>. SUFFICES ASSUME Init PROVE Turns
  OBVIOUS
<1>1. Loads
  BY LoadsInit
<1>2. origin \subseteq Seq(Names) /\ ClosedUpward(origin)
  <2>1. origin \in Origins
    BY DEF Init, D!Init
  <2>2. ASSUME NEW p \in origin, NEW m \in Seq(Names), p \in Seq(Names), Below(m, p)
        PROVE  m \in origin
    BY <2>1, <2>2, NewBelowNew
  <2>. QED  BY <2>1, <2>2, RestartsAssumption DEF ClosedUpward
<1>3. origin \subseteq D!Dirs
  BY DirsAre DEF Init, D!Init
<1>. QED
  BY <1>1, <1>2, <1>3
  DEF Init, D!Init, Turns, Grown, TurnTypes, MadeOnTheWay, CalmTurn, CalmClose, DepthFirst,
      Accounted, Loading

(* The main thread deletes nothing.                                        *)
LEMMA MainStepTurns == Turns /\ MainStep => Grown' /\ (calm' => CalmTurn')
<1>. SUFFICES ASSUME Turns, MainStep PROVE Grown' /\ (calm' => CalmTurn')
  OBVIOUS
<1>. USE RestartsAssumption
     DEF Turns, Loads, Kept, PathTypes, Places, Starting, Loading, Now, MainStep, launching,
         Grown, TurnTypes, MadeOnTheWay, CalmTurn, CalmClose, DepthFirst, Accounted, WillDelete,
         D!Children
<1>1. CASE D!GiveUp
  BY <1>1 DEF D!GiveUp, D!service
<1>2. CASE D!StartDisks
  BY <1>2, FoundClosed DEF D!StartDisks, D!Fresh
<1>3. CASE D!LoadFails
  <2>1. calm' = calm /\ (break \/ errors # 0) /\ pc = "wait"
    BY <1>3 DEF D!LoadFails
  <2>2. Grown'
    BY <1>3 DEF D!LoadFails, D!service
  <2>. QED  BY <2>1, <2>2
<1>4. CASE D!Loaded
  BY <1>4 DEF D!Loaded, D!service
<1>5. CASE D!LeaveRun
  BY <1>5 DEF D!LeaveRun, D!service
<1>6. ASSUME NEW d \in Disks, D!CloseDisk(d) PROVE Grown' /\ (calm' => CalmTurn')
  BY <1>6 DEF D!CloseDisk, D!service
<1>7. ASSUME NEW d \in Disks, D!DiskClosed(d) PROVE Grown' /\ (calm' => CalmTurn')
  BY <1>7 DEF D!DiskClosed
<1>8. CASE D!TurnEnds
  BY <1>8 DEF D!TurnEnds, D!service
<1>. QED  BY <1>1, <1>2, <1>3, <1>4, <1>5, <1>6, <1>7, <1>8 DEF D!MainStep

LEMMA NextBelow ==
  ASSUME NEW d \in Disks, NEW p \in Seq(Names), Below(p, Dir[d]), p # Dir[d]
  PROVE  D!Toward(d, p) \in Seq(Names) /\ Below(p, D!Toward(d, p))
<1>1. Dir[d] \in Seq(Names)
  BY RestartsAssumption
<1>2. Len(p) < Len(Dir[d]) /\ SubSeq(Dir[d], 1, Len(p)) = p
  BY <1>1, WholePrefix DEF Below
<1>3. Len(p) + 1 \in 0 .. Len(Dir[d]) /\ Len(p) \in 0 .. Len(p) + 1
  BY <1>1, <1>2
<1>4. D!Toward(d, p) \in Seq(Names) /\ Len(D!Toward(d, p)) = Len(p) + 1
  BY <1>1, <1>3, Prefix DEF D!Toward
<1>5. SubSeq(D!Toward(d, p), 1, Len(p)) = p
  BY <1>1, <1>2, <1>3, PrefixOfPrefix DEF D!Toward
<1>. QED  BY <1>4, <1>5 DEF Below

LEMMA IsAPath ==
  ASSUME NEW d \in Disks, NEW p \in Seq(Names), Below(p, Dir[d])
  PROVE  p # None
<1>1. Len(p) \in 0 .. Len(Dir[d]) /\ p = SubSeq(Dir[d], 1, Len(p))
  BY RestartsAssumption DEF Below
<1>2. p \in D!Prefixes(Dir[d])
  BY <1>1, PrefixesAre
<1>3. p \in D!Nodes
  BY <1>2, DirsAre DEF D!Nodes
<1>. QED  BY <1>3, RestartsAssumption

LEMMA MakeDirTurns ==
  ASSUME Turns, NEW d \in Disks, D!MakeDir(d)
  PROVE  Grown' /\ (calm' => CalmTurn')
<1>. USE DEF Turns, Loads, Kept, PathTypes, Grown, TurnTypes, D!MakeDir, D!main
<1>1. path[d] \in Seq(Names) /\ Below(path[d], path[d]) /\ Below(path[d], Dir[d])
  BY BelowItself DEF OnTheWay
<1>2. ClosedUpward(tree')
  <2>1. CASE path[d] \in tree
    <3>1. tree' = tree
      BY <2>1
    <3>. QED  BY <3>1
  <2>2. CASE path[d] \notin tree
    BY <1>1, <2>2, AddedToParent
  <2>. QED  BY <2>1, <2>2
<1>3. /\ made' \in [Disks -> Seq(Names) \cup {None}]
      /\ \A e \in Disks : e # d => made'[e] = made[e] /\ at'[e] = at[e] /\ path'[e] = path[e]
      /\ at'[d] \in {"mkdir", "file"}
  BY DEF D!Descend, D!Goto
<1>4. made'[d] # None => Below(made'[d], path[d])
  BY <1>1 DEF MadeOnTheWay
<1>5. MadeOnTheWay'
  <2>1. ASSUME at'[d] = "mkdir", made'[d] # None PROVE Below(made'[d], path'[d])
    <3>1. path[d] # Dir[d] /\ path'[d] = D!Toward(d, path[d])
      BY <2>1 DEF D!Descend, D!Goto
    <3>2. path'[d] \in Seq(Names) /\ Below(path[d], path'[d])
      BY <1>1, <3>1, NextBelow
    <3>. QED  BY <1>1, <1>3, <1>4, <2>1, <3>2, BelowBelow
  <2>. QED  BY <1>3, <2>1 DEF MadeOnTheWay
<1>6. ASSUME calm PROVE CalmTurn'
  <2>. USE <1>6 DEF CalmTurn
  <2>1. CalmClose'
    BY <1>3 DEF CalmClose
  <2>2. Loading
    BY DEF CalmClose, Places, Loading
  <2>3. DepthFirst'
    <3>1. \A e \in Disks : at'[e] # "remove" /\ tried'[e] = {}
      BY <1>3, <2>2 DEF CalmClose, Starting, DepthFirst
    <3>. QED  BY <3>1 DEF DepthFirst
  <2>4. \A e \in Disks, p \in Seq(Names) : WillDelete(e, p) => WillDelete(e, p)'
    BY <1>3 DEF WillDelete
  <2>5. \A p : p = path[d] /\ p \notin tree => WillDelete(d, p)'
    <3>1. path[d] # None
      BY <1>1, IsAPath
    <3>. QED  BY <1>3, <1>4, <3>1 DEF WillDelete
  <2>6. found \subseteq tree' /\ \A e \in Disks : made'[e] # None => made'[e] \notin found
    BY <1>3 DEF Accounted
  <2>7. \A p \in (tree' \cap D!Dirs) \ found : \E e \in Disks : WillDelete(e, p)'
    <3>. SUFFICES ASSUME NEW p \in (tree' \cap D!Dirs) \ found
                  PROVE  \E e \in Disks : WillDelete(e, p)'
      OBVIOUS
    <3>1. CASE p \in tree
      <4>1. p \in Seq(Names) /\ \E e \in Disks : WillDelete(e, p)
        BY <3>1 DEF Accounted
      <4>. QED  BY <4>1, <2>4
    <3>2. CASE p \notin tree
      <4>1. p = path[d]
        BY <3>2
      <4>. QED  BY <3>2, <4>1, <2>5
    <3>. QED  BY <3>1, <3>2
  <2>8. Accounted'
    BY <2>6, <2>7 DEF Accounted
  <2>. QED  BY <2>1, <2>3, <2>8
<1>. QED  BY <1>2, <1>5, <1>6

LEMMA RemoveTurns ==
  ASSUME Turns, NEW d \in Disks, D!Remove(d)
  PROVE  Grown' /\ (calm' => CalmTurn')
<1>. USE DEF Turns, Loads, Kept, PathTypes, Grown, TurnTypes, D!Remove, D!main
<1>1. /\ path[d] \in Seq(Names)
      /\ made[d] # None /\ made[d] \in Seq(Names) /\ Below(made[d], path[d])
  BY DEF DeletesOwn
<1>2. ClosedUpward(tree') /\ tree' \subseteq tree
  BY <1>1, RemovedEmpty DEF D!Children
<1>3. /\ \A e \in Disks : e # d => at'[e] = at[e] /\ path'[e] = path[e]
      /\ at'[d] \in {"report", "returned", "list"}
  BY DEF D!Goto
<1>4. MadeOnTheWay'
  BY <1>3 DEF MadeOnTheWay
<1>5. tried' \in [Disks -> SUBSET Seq(Names)]
  BY <1>1
<1>6. ASSUME calm PROVE CalmTurn'
  <2>. USE <1>6 DEF CalmTurn
  <2>1. D!Children(path[d]) = {} /\ failed = {}
    BY DEF DepthFirst, CalmClose
  <2>2. tree' = tree \ {path[d]}
    BY <2>1
  <2>3. pc = "close"
    BY <2>1 DEF Places, Starting, Loading
  <2>4. \A e \in Disks : e # d => at[e] \notin {"list", "remove"}
    BY <2>3 DEF CalmClose
  <2>5. CalmClose'
    <3>1. at'[d] \in {"returned", "list"} /\ told = d
      BY <2>1, <2>3 DEF CalmClose, D!Goto
    <3>. QED  BY <1>3, <2>1, <2>3, <3>1 DEF CalmClose
  <2>6. DepthFirst'
    <3>1. \A e \in Disks : at'[e] # "remove"
      BY <1>3, <2>4
    <3>2. tried'[d] \cap tree' = {} /\ \A e \in Disks : e # d => tried'[e] \cap tree' = {}
      BY <2>2 DEF DepthFirst
    <3>. QED  BY <2>3, <3>1, <3>2 DEF DepthFirst, Loading
  <2>7. path[d] \notin found
    BY <1>1 DEF Accounted, ClosedUpward
  <2>8. ASSUME NEW p \in (tree' \cap D!Dirs) \ found PROVE \E e \in Disks : WillDelete(e, p)'
    <3>1. PICK e \in Disks : WillDelete(e, p)
      BY <1>2 DEF Accounted
    <3>2. CASE e # d \/ path[d] # made[d]
      BY <1>3, <3>1, <3>2 DEF WillDelete, D!Goto
    <3>3. CASE e = d /\ path[d] = made[d]
      <4>1. p \in tree /\ p # path[d] /\ Below(path[d], p)
        BY <2>2, <3>1, <3>3 DEF WillDelete
      <4>2. \E c \in tree : Len(c) = Len(path[d]) + 1 /\ D!Parent(c) = path[d]
        BY <1>1, <4>1, NoChildren
      <4>. QED  BY <2>1, <4>2 DEF D!Children
    <3>. QED  BY <3>2, <3>3
  <2>9. Accounted'
    BY <2>2, <2>7, <2>8 DEF Accounted
  <2>. QED  BY <2>5, <2>6, <2>9
<1>. QED  BY <1>2, <1>4, <1>5, <1>6

LEMMA DiskStepTurns ==
  ASSUME Turns, NEW d \in Disks, DiskStep(d)
  PROVE  Grown' /\ (calm' => CalmTurn')
<1>1. CASE D!MakeDir(d)
  BY <1>1, MakeDirTurns
<1>2. CASE D!Remove(d)
  BY <1>2, RemoveTurns
<1>. USE DEF Turns, Loads, Kept, PathTypes, Places, Starting, Loading, Grown, TurnTypes,
         MadeOnTheWay, CalmTurn, CalmClose, DepthFirst, Accounted, WillDelete, D!Goto, D!main,
         D!Children
<1>3. CASE D!CheckDir(d)
  <2>1. Grown'
    BY <1>3 DEF D!CheckDir
  <2>2. calm' => CalmClose'
    BY <1>3 DEF D!CheckDir
  <2>3. calm' => DepthFirst'
    BY <1>3 DEF D!CheckDir
  <2>4. calm' => Accounted'
    BY <1>3 DEF D!CheckDir
  <2>. QED  BY <2>1, <2>2, <2>3, <2>4
<1>4. CASE D!StatDir(d)
  <2>1. Grown'
    BY <1>4 DEF D!StatDir
  <2>2. calm' => CalmClose'
    BY <1>4 DEF D!StatDir
  <2>3. calm' => DepthFirst'
    BY <1>4 DEF D!StatDir
  <2>4. calm' => Accounted'
    <3>1. \A e \in Disks : \A p : WillDelete(e, p) => WillDelete(e, p)'
      BY <1>4 DEF D!StatDir
    <3>2. UNCHANGED <<tree, found, made>> /\ (calm' => calm)
      BY <1>4 DEF D!StatDir
    <3>. QED  BY <3>1, <3>2
  <2>. QED  BY <2>1, <2>2, <2>3, <2>4
<1>5. CASE D!MakeDirFails(d)
  BY <1>5 DEF D!MakeDirFails
<1>6. CASE D!WriteFile(d)
  <2>1. D!FileOf(d) \in Seq(Names) /\ D!Parent(D!FileOf(d)) = Dir[d] /\ D!FileOf(d) \notin D!Dirs
    BY RestartsAssumption DEF D!FileOf, D!Parent
  <2>2. \/ tree' = tree
        \/ tree' = tree \cup {D!FileOf(d)} /\ Dir[d] \in tree
    BY <1>6 DEF D!WriteFile
  <2>3. ClosedUpward(tree')
    <3>1. CASE tree' = tree
      BY <3>1
    <3>2. CASE tree' = tree \cup {D!FileOf(d)} /\ Dir[d] \in tree
      <4>1. tree \in SUBSET Seq(Names) /\ ClosedUpward(tree) /\ D!Parent(D!FileOf(d)) \in tree
        BY <2>1, <3>2
      <4>2. ClosedUpward(tree \cup {D!FileOf(d)})
        BY <2>1, <4>1, AddedToParent
      <4>. QED  BY <3>2, <4>2
    <3>. QED  BY <2>2, <3>1, <3>2
  <2>4. /\ at[d] = "file" /\ at' = [at EXCEPT ![d] = "report"]
        /\ UNCHANGED <<pc, told, found, path, made, tried, failed, break>>
        /\ (calm' = calm /\ errors' = errors) \/ calm' = FALSE
    BY <1>6 DEF D!WriteFile
  <2>5. Grown'
    BY <2>3, <2>4
  <2>6. ASSUME calm, calm' PROVE CalmTurn'
    <3>1. Loading /\ errors' = errors /\ tree \subseteq tree'
      BY <2>2, <2>4, <2>6
    <3>2. tree' \cap D!Dirs = tree \cap D!Dirs
      BY <2>1, <2>2
    <3>3. CalmClose'
      BY <2>4, <2>6, <3>1
    <3>4. DepthFirst'
      BY <2>4, <2>6, <3>1
    <3>5. Accounted'
      BY <2>4, <2>6, <3>1, <3>2
    <3>. QED  BY <3>3, <3>4, <3>5
  <2>7. calm' => calm
    BY <1>6 DEF D!WriteFile
  <2>. QED  BY <2>5, <2>6, <2>7
<1>7. CASE D!Report(d)
  <2>1. Grown'
    BY <1>7 DEF D!Report
  <2>2. calm' => CalmClose'
    BY <1>7 DEF D!Report
  <2>3. calm' => DepthFirst'
    BY <1>7 DEF D!Report
  <2>4. calm' => Accounted'
    <3>1. at[d] = "report" /\ \A e \in Disks : e # d => at'[e] = at[e]
      BY <1>7 DEF D!Report
    <3>2. d \notin failed => at'[d] = "ready"
      BY <1>7 DEF D!Report
    <3>3. \A e \in Disks : \/ at'[e] = at[e]
                           \/ at[e] = "report" /\ (calm => at'[e] = "ready")
      BY <3>1, <3>2
    <3>4. UNCHANGED <<tree, found, made, calm>>
      BY <1>7 DEF D!Report
    <3>5. calm => \A e \in Disks : \A p : WillDelete(e, p) => WillDelete(e, p)'
      BY <3>3, <3>4
    <3>6. calm => Accounted
      OBVIOUS
    <3>. HIDE DEF WillDelete, CalmTurn
    <3>. QED  BY <3>4, <3>5, <3>6
  <2>. QED  BY <2>1, <2>2, <2>3, <2>4
<1>8. CASE D!Stop(d)
  <2>1. pc = "close" /\ told = d
    BY <1>8, RestartsAssumption DEF D!Stop
  <2>2. Grown'
    BY <1>8 DEF D!Stop
  <2>3. ASSUME calm PROVE CalmTurn'
    <3>1. CalmClose'
      BY <1>8, <2>1, <2>3 DEF D!Stop
    <3>2. DepthFirst'
      <4>1. at'[d] # "remove" /\ \A e \in Disks : e # d => at'[e] = at[e]
        BY <1>8 DEF D!Stop
      <4>2. UNCHANGED <<pc, tried, tree>> /\ \A e \in Disks : e # d => path'[e] = path[e]
        BY <1>8 DEF D!Stop
      <4>3. \A e \in Disks : tried'[e] \cap tree' = {}
        BY <2>3, <4>2
      <4>4. \A e \in Disks : at'[e] = "remove" => D!Children(path[e])' = {}
        BY <2>3, <4>1, <4>2
      <4>. QED  BY <2>1, <4>2, <4>3, <4>4
    <3>3. \A e \in Disks : \A p : WillDelete(e, p) => WillDelete(e, p)'
      BY <1>8 DEF D!Stop
    <3>4. UNCHANGED <<tree, found, made>>
      BY <1>8 DEF D!Stop
    <3>5. Accounted'
      BY <2>3, <3>3, <3>4
    <3>. QED  BY <3>1, <3>2, <3>5
  <2>4. calm' = calm
    BY <1>8 DEF D!Stop
  <2>. QED  BY <2>2, <2>3, <2>4
<1>9. CASE D!ReadDir(d)
  <2>1. Grown'
    BY <1>9 DEF D!ReadDir
  <2>2. calm' => CalmClose'
    BY <1>9 DEF D!ReadDir
  <2>3. calm' => DepthFirst'
    BY <1>9 DEF D!ReadDir
  <2>4. calm' => Accounted'
    BY <1>9 DEF D!ReadDir
  <2>. QED  BY <2>1, <2>2, <2>3, <2>4
<1>. QED
  BY <1>1, <1>2, <1>3, <1>4, <1>5, <1>6, <1>7, <1>8, <1>9 DEF DiskStep, D!DiskStep

LEMMA TurnsStep == Turns /\ [Next]_vars => Turns'
<1>. SUFFICES ASSUME Turns, [Next]_vars PROVE Turns'
  OBVIOUS
<1>1. Loads'
  BY LoadsStep DEF Turns
<1>2. CASE MainStep \/ \E d \in Disks : DiskStep(d)
  BY <1>1, <1>2, MainStepTurns, DiskStepTurns DEF Turns
<1>. USE DEF Turns, Loads, Kept, PathTypes, Places, Starting, Loading, Grown, TurnTypes,
         MadeOnTheWay, CalmTurn, CalmClose, DepthFirst, Accounted, WillDelete, D!Children
<1>3. CASE Return \/ Die
  <2>1. D!End
    BY <1>3 DEF Return, Die
  <2>2. tree' = tree /\ found' = tree \cap D!Dirs
    BY <2>1 DEF D!End
  <2>3. Grown'
    <3>1. ClosedUpward(found')
      BY <2>2, FoundClosed
    <3>2. TurnTypes' /\ MadeOnTheWay'
      BY <2>1, <2>2 DEF D!End, D!Fresh
    <3>. QED  BY <2>2, <3>1, <3>2
  <2>4. CalmTurn'
    BY <1>1, <2>1, <2>2, RestartsAssumption DEF D!End, D!Fresh
  <2>. QED  BY <1>1, <2>3, <2>4
<1>4. CASE Start
  <2>1. D!Begin
    BY <1>4 DEF Start
  <2>2. pc = "none"
    BY <1>4, RestartsAssumption
    DEF Start, L!ForkChild, L!ForkFails, Watched, LauncherTypes, OnlyChild, L!Runs, Processes
  <2>. QED  BY <1>1, <2>1, <2>2, FoundClosed DEF D!Begin, D!service
<1>5. CASE Tell
  <2>1. D!Told
    BY <1>5 DEF Tell
  <2>2. Grown'
    BY <1>1, <2>1 DEF D!Told, D!main, D!service
  <2>3. calm' => calm /\ pc # "wait"
    BY <2>1 DEF D!Told
  <2>4. calm' => CalmTurn'
    BY <1>1, <2>1, <2>3 DEF D!Told, D!main, D!service
  <2>. QED  BY <1>1, <2>2, <2>4
<1>6. CASE Watch \/ Disturb \/ JobControl
  <2>1. UNCHANGED <<program, break>>
    BY <1>6
    DEF Watch, Disturb, JobControl, L!ReapCrashed, L!ReapEnded, L!WakeUp, L!TellMonitor,
        L!MonitorDies, L!ProgramStops, L!ProgramContinues
  <2>. QED  BY <1>1, <2>1 DEF program
<1>7. CASE Over \/ UNCHANGED vars
  BY <1>1, <1>7 DEF Over, vars, program
<1>. QED  BY <1>2, <1>3, <1>4, <1>5, <1>6, <1>7 DEF Next

(* A turn in which nothing fails and no load is broken off leaves the      *)
(* directories it found, however the services make and delete them side by *)
(* side, and whatever an earlier program has left (workload_storage.c      *)
(* 142-145): the next turn, or the end of the program, begins with them.   *)
THEOREM TurnLeavesTree == Spec => []LeavesTree
<1>1. Turns => LeavesTree
  BY DEF Turns, Loads, Places, Grown, TurnTypes, CalmTurn, Accounted, WillDelete, LeavesTree,
         D!LeavesTree
<1>. QED  BY <1>1, TurnsInit, TurnsStep, PTL DEF Spec

-----------------------------------------------------------------------------
(* Types.  The counters need how many services can still be counted:       *)
(* those that have yet to report, and those of them that may still have an *)
(* error.                                                                  *)

Unreported == {d \in Disks : \/ at[d] \in {"check", "stat", "mkdir", "file", "report"}
                             \/ at[d] \in {"list", "remove"} /\ d \in failed}

Unfailed == {d \in Disks : \/ at[d] \in {"check", "stat", "mkdir", "file"}
                           \/ at[d] \in {"report", "list", "remove"} /\ d \in failed}

Counted ==
  /\ ready \in Nat /\ ready + Cardinality(Unreported) <= Cardinality(Disks)
  /\ errors \in Nat /\ errors + Cardinality(Unfailed) <= Cardinality(Disks)

OnNodes ==
  /\ tree \subseteq D!Nodes
  /\ path \in [Disks -> D!Nodes]
  /\ made \in [Disks -> D!Dirs \cup {None}]
  /\ tried \in [Disks -> SUBSET D!Nodes]

Flags ==
  /\ {again, stop, break} \subseteq BOOLEAN
  /\ creating \subseteq Disks
  /\ crashes \in 0 .. MaxCrashes

Typed == Turns /\ Counted /\ OnNodes /\ Flags

LEMMA CountTypes ==
  /\ IsFiniteSet(Unreported) /\ Cardinality(Unreported) \in Nat
  /\ IsFiniteSet(Unfailed) /\ Cardinality(Unfailed) \in Nat
  /\ Cardinality(Disks) \in Nat
<1>1. Unreported \subseteq Disks /\ Unfailed \subseteq Disks
  BY DEF Unreported, Unfailed
<1>. QED  BY <1>1, FS_Subset, FS_CardinalityType, RestartsAssumption

(* Before the services are started none is open, so that none is counted.  *)
LEMMA NoneCounted ==
  ASSUME \A d \in Disks : at[d] = "none", ready = 0, errors = 0
  PROVE  Counted
<1>1. Unreported = {} /\ Unfailed = {}
  BY DEF Unreported, Unfailed
<1>. QED  BY <1>1, FS_EmptySet, CountTypes DEF Counted

(* Counting one takes it from those that can still be counted.             *)
LEMMA CountsOne ==
  ASSUME NEW S, IsFiniteSet(S), NEW T, T \subseteq S,
         NEW m \in Nat, NEW n \in Nat, n + Cardinality(S) <= m,
         NEW k, k = n \/ (k = n + 1 /\ \E d \in S : d \notin T)
  PROVE  k \in Nat /\ k + Cardinality(T) <= m
<1>1. IsFiniteSet(T) /\ Cardinality(T) \in Nat /\ Cardinality(S) \in Nat
      /\ Cardinality(T) <= Cardinality(S)
  BY FS_Subset, FS_CardinalityType
<1>2. CASE k = n
  BY <1>1, <1>2
<1>3. CASE k = n + 1 /\ \E d \in S : d \notin T
  <2>1. PICK d \in S : d \notin T
    BY <1>3
  <2>2. IsFiniteSet(S \ {d}) /\ Cardinality(S \ {d}) = Cardinality(S) - 1
    BY <2>1, FS_RemoveElement
  <2>3. T \subseteq S \ {d}
    BY <2>1
  <2>4. Cardinality(T) <= Cardinality(S \ {d})
    BY <2>2, <2>3, FS_Subset
  <2>. QED  BY <1>1, <1>3, <2>2, <2>4
<1>. QED  BY <1>2, <1>3

LEMMA OwnDir == \A d \in Disks : Dir[d] \in Seq(Names) /\ Dir[d] \in D!Dirs
<1>. SUFFICES ASSUME NEW d \in Disks PROVE Dir[d] \in Seq(Names) /\ Dir[d] \in D!Dirs
  OBVIOUS
<1>1. Dir[d] \in Seq(Names)
  BY RestartsAssumption
<1>2. Dir[d] = SubSeq(Dir[d], 1, Len(Dir[d])) /\ Len(Dir[d]) \in 0 .. Len(Dir[d])
  BY <1>1, WholePrefix
<1>3. Dir[d] \in D!Prefixes(Dir[d])
  BY <1>2, PrefixesAre
<1>. QED  BY <1>1, <1>3, DirsAre

(* Whatever is on the way to a disk's directory is a directory.            *)
LEMMA OnTheWayIsDir ==
  ASSUME NEW d \in Disks, NEW p \in Seq(Names), Below(p, Dir[d])
  PROVE  p \in D!Dirs
BY OwnDir, DirsClosed DEF ClosedUpward

LEMMA ParentOfNode ==
  ASSUME NEW m \in Seq(Names), NEW p \in D!Nodes, p \in Seq(Names), Below(m, p), p # m
  PROVE  D!Parent(p) \in D!Nodes
<1>1. D!Parent(p) \in Seq(Names) /\ Below(m, D!Parent(p))
  BY ParentBelow
<1>2. CASE p \in D!Dirs
  <2>1. Len(m) < Len(p)
    BY WholePrefix DEF Below
  <2>2. Len(p) - 1 \in 0 .. Len(p)
    BY <2>1
  <2>3. Below(D!Parent(p), p)
    BY <2>2, Prefix DEF Below, D!Parent
  <2>. QED  BY <1>1, <1>2, <2>3, DirsClosed DEF ClosedUpward, D!Nodes
<1>3. CASE \E d \in Disks : p = D!FileOf(d)
  <2>1. PICK d \in Disks : p = D!FileOf(d)
    BY <1>3
  <2>2. D!Parent(p) = Dir[d]
    BY <2>1, RestartsAssumption DEF D!FileOf, D!Parent
  <2>. QED  BY <2>2, OwnDir DEF D!Nodes
<1>. QED  BY <1>2, <1>3 DEF D!Nodes

LEMMA TypedInit == Init => Typed
<1>. SUFFICES ASSUME Init PROVE Typed
  OBVIOUS
<1>1. Turns
  BY TurnsInit
<1>2. Counted
  BY NoneCounted DEF Init, D!Init
<1>3. OnNodes
  <2>1. origin \subseteq D!Dirs /\ path = Dir /\ tree = origin
    BY DirsAre DEF Init, D!Init
  <2>2. path \in [Disks -> D!Nodes]
    BY <2>1, OwnDir, RestartsAssumption DEF D!Nodes
  <2>. QED  BY <2>1, <2>2 DEF Init, D!Init, OnNodes, D!Nodes
<1>4. Flags
  <2>1. 0 \in 0 .. MaxCrashes
    BY RestartsAssumption
  <2>. QED  BY <2>1 DEF Init, L!Init, D!Init, Flags
<1>. QED  BY <1>1, <1>2, <1>3, <1>4 DEF Typed

LEMMA MainStepTyped ==
  ASSUME Typed, MainStep
  PROVE  Counted' /\ OnNodes' /\ Flags'
<1>. USE DEF Typed, OnNodes, Flags, MainStep, launching
<1>1. CASE D!StartDisks
  <2>1. ready' = 0 /\ errors' = 0
    BY <1>1 DEF D!StartDisks, D!Fresh
  <2>2. Unreported' \subseteq Disks /\ Unfailed' \subseteq Disks
    BY DEF Unreported, Unfailed
  <2>3. Cardinality(Unreported') \in 0 .. Cardinality(Disks)
        /\ Cardinality(Unfailed') \in 0 .. Cardinality(Disks)
    BY <2>2, FS_Subset, FS_CardinalityType, RestartsAssumption
  <2>4. Counted'
    BY <2>1, <2>3 DEF Counted
  <2>5. path' \in [Disks -> D!Nodes]
    BY <1>1, OwnDir, RestartsAssumption DEF D!StartDisks, D!Fresh, D!Nodes
  <2>6. OnNodes' /\ Flags'
    BY <1>1, <2>5, RestartsAssumption DEF D!StartDisks, D!Fresh
  <2>. QED  BY <2>4, <2>6
<1>2. ASSUME NEW d \in Disks, D!DiskClosed(d) PROVE Counted' /\ OnNodes' /\ Flags'
  <2>1. at[d] = "returned" /\ at' = [at EXCEPT ![d] = "none"]
    BY <1>2 DEF D!DiskClosed
  <2>2. UNCHANGED <<tree, again, creating, path, made, tried, failed, ready, errors, break>>
    BY <1>2 DEF D!DiskClosed
  <2>3. \A e \in Disks : at'[e] = at[e] \/ (at[e] = "returned" /\ at'[e] = "none")
    BY <2>1 DEF Turns, Loads, Kept, PathTypes
  <2>4. Unreported' = Unreported /\ Unfailed' = Unfailed
    BY <2>2, <2>3 DEF Unreported, Unfailed
  <2>5. Counted'
    BY <2>2, <2>4 DEF Counted
  <2>. QED  BY <2>2, <2>5
<1>3. CASE \/ D!GiveUp \/ D!LoadFails \/ D!Loaded \/ D!LeaveRun \/ D!TurnEnds
           \/ \E d \in Disks : D!CloseDisk(d)
  <2>1. UNCHANGED <<tree, creating, D!service>> /\ again' \in BOOLEAN /\ break' \in BOOLEAN
    BY <1>3 DEF D!GiveUp, D!LoadFails, D!Loaded, D!LeaveRun, D!TurnEnds, D!CloseDisk
  <2>2. Counted'
    BY <2>1 DEF Counted, Unreported, Unfailed, D!service
  <2>. QED  BY <2>1, <2>2 DEF D!service
<1>. QED  BY <1>1, <1>2, <1>3 DEF D!MainStep

LEMMA DiskStepTyped ==
  ASSUME Typed, NEW d \in Disks, DiskStep(d)
  PROVE  Counted' /\ OnNodes' /\ Flags'
<1>. USE DEF Typed, Turns, Loads, Kept, PathTypes, DiskStep, D!Goto, D!main
<1>1. D!DiskStep(d) /\ UNCHANGED launching
  OBVIOUS
<1>2. Flags'
  BY <1>1 DEF Flags, launching, D!DiskStep, D!CheckDir, D!StatDir, D!MakeDir, D!MakeDirFails,
     D!WriteFile, D!Report, D!Stop, D!ReadDir, D!Remove
<1>3. /\ \A e \in Disks : e # d => at'[e] = at[e] /\ (e \in failed' <=> e \in failed)
      /\ d \in failed => d \in failed'
  BY <1>1 DEF D!DiskStep, D!CheckDir, D!StatDir, D!MakeDir, D!MakeDirFails, D!WriteFile, D!Report,
     D!Stop, D!ReadDir, D!Remove, D!Descend
<1>4. /\ d \in Unreported' => d \in Unreported
      /\ d \in Unfailed' => d \in Unfailed
  BY <1>1 DEF D!DiskStep, D!CheckDir, D!StatDir, D!MakeDir, D!MakeDirFails, D!WriteFile, D!Report,
     D!Stop, D!ReadDir, D!Remove, D!Descend, Unreported, Unfailed, Starting
<1>5. Unreported' \subseteq Unreported /\ Unfailed' \subseteq Unfailed
  BY <1>3, <1>4 DEF Unreported, Unfailed
<1>6. ready' = ready \/ (ready' = ready + 1 /\ d \in Unreported /\ d \notin Unreported')
  <2>1. CASE D!Report(d)
    <3>1. CASE d \in failed
      BY <2>1, <3>1 DEF D!Report
    <3>2. CASE d \notin failed
      BY <2>1, <3>2 DEF D!Report, Unreported
    <3>. QED  BY <3>1, <3>2
  <2>2. CASE ~D!Report(d)
    BY <1>1, <2>2 DEF D!DiskStep, D!CheckDir, D!StatDir, D!MakeDir, D!MakeDirFails, D!WriteFile,
       D!Stop, D!ReadDir, D!Remove
  <2>. QED  BY <2>1, <2>2
<1>7. errors' = errors \/ (errors' = errors + 1 /\ d \in Unfailed /\ d \notin Unfailed')
  <2>1. CASE D!Report(d)
    <3>1. CASE d \in failed
      BY <2>1, <3>1 DEF D!Report, Unfailed
    <3>2. CASE d \notin failed
      BY <2>1, <3>2 DEF D!Report
    <3>. QED  BY <3>1, <3>2
  <2>2. CASE D!WriteFile(d)
    <3>1. at[d] = "file" /\ at'[d] = "report" /\ d \notin failed /\ failed' = failed
      BY <2>2 DEF D!WriteFile, Starting
    <3>. QED  BY <2>2, <3>1 DEF D!WriteFile, Unfailed
  <2>3. CASE ~D!Report(d) /\ ~D!WriteFile(d)
    BY <1>1, <2>3 DEF D!DiskStep, D!CheckDir, D!StatDir, D!MakeDir, D!MakeDirFails, D!Stop,
       D!ReadDir, D!Remove
  <2>. QED  BY <2>1, <2>2, <2>3
<1>8. ready' \in Nat /\ ready' + Cardinality(Unreported') <= Cardinality(Disks)
  BY <1>5, <1>6, CountTypes, CountsOne DEF Counted
<1>9. errors' \in Nat /\ errors' + Cardinality(Unfailed') <= Cardinality(Disks)
  BY <1>5, <1>7, CountTypes, CountsOne DEF Counted
<1>10. path[d] \in D!Nodes /\ path[d] \in Seq(Names)
  BY DEF OnNodes
<1>11. at[d] \in {"stat", "mkdir"} => path[d] \in D!Dirs /\ Below(path[d], Dir[d])
  BY OnTheWayIsDir DEF OnTheWay
<1>12. OnNodes'
  <2>. USE DEF OnNodes
  <2>1. CASE D!CheckDir(d) \/ D!Report(d)
    BY <2>1 DEF D!CheckDir, D!Report
  <2>2. CASE D!StatDir(d)
    <3>1. path[d] \notin tree => D!Parent(path[d]) \in D!Dirs
      <4>1. <<>> \in tree
        BY RestartsAssumption DEF KeepsExisting, D!KeepsExisting
      <4>2. path[d] # <<>> => D!Parent(path[d]) \in Seq(Names) /\ Below(D!Parent(path[d]), Dir[d])
        BY <1>10, <1>11, <2>2, OwnDir, ParentOnTheWay DEF D!StatDir
      <4>. QED  BY <4>1, <4>2, OnTheWayIsDir
    <3>2. path[d] # Dir[d] => D!Toward(d, path[d]) \in D!Dirs
      BY <1>10, <1>11, <2>2, TowardBelow, OnTheWayIsDir DEF D!StatDir
    <3>. QED  BY <2>2, <3>1, <3>2 DEF D!StatDir, D!Nodes
  <2>3. CASE D!MakeDir(d)
    <3>1. path[d] # Dir[d] => D!Toward(d, path[d]) \in D!Dirs
      BY <1>10, <1>11, <2>3, TowardBelow, OnTheWayIsDir DEF D!MakeDir
    <3>2. path' \in [Disks -> D!Nodes]
      BY <2>3, <3>1 DEF D!MakeDir, D!Descend, D!Nodes
    <3>. QED  BY <1>10, <1>11, <2>3, <3>2 DEF D!MakeDir
  <2>4. CASE D!MakeDirFails(d) \/ D!Stop(d)
    BY <2>4 DEF D!MakeDirFails, D!Stop, D!Nodes
  <2>5. CASE D!WriteFile(d)
    BY <2>5 DEF D!WriteFile, D!Nodes
  <2>6. CASE D!ReadDir(d)
    BY <2>6 DEF D!ReadDir, D!Children
  <2>7. CASE D!Remove(d)
    <3>1. path[d] # made[d] => D!Parent(path[d]) \in D!Nodes
      BY <1>10, <2>7, ParentOfNode DEF DeletesOwn, D!Remove
    <3>. QED  BY <1>10, <2>7, <3>1 DEF D!Remove
  <2>. QED  BY <1>1, <2>1, <2>2, <2>3, <2>4, <2>5, <2>6, <2>7 DEF D!DiskStep
<1>. QED  BY <1>2, <1>8, <1>9, <1>12 DEF Counted

LEMMA TypedStep == Typed /\ [Next]_vars => Typed'
<1>. SUFFICES ASSUME Typed, [Next]_vars PROVE Typed'
  OBVIOUS
<1>1. Turns'
  BY TurnsStep DEF Typed
<1>2. CASE MainStep \/ \E d \in Disks : DiskStep(d)
  BY <1>1, <1>2, MainStepTyped, DiskStepTyped DEF Typed
<1>. USE DEF Typed, OnNodes, Flags
<1>3. CASE Return \/ Die
  <2>1. D!End
    BY <1>3 DEF Return, Die
  <2>2. /\ stop' = stop /\ break' = break
        /\ crashes' = crashes \/ (crashes < MaxCrashes /\ crashes' = crashes + 1)
    <3>1. \E p \in Processes : L!ProgramCrashes(p) \/ L!ProgramKilled(p) \/ L!ProgramExits(p)
      BY <1>3 DEF Return, Die
    <3>. QED  BY <3>1 DEF L!ProgramExits, L!ProgramCrashes, L!ProgramKilled
  <2>3. Counted'
    <3>1. (\A d \in Disks : at[d] = "none")' /\ ready' = 0 /\ errors' = 0
      BY <2>1 DEF D!End, D!Fresh
    <3>2. Unreported' = {} /\ Unfailed' = {}
      BY <3>1 DEF Unreported, Unfailed
    <3>. QED  BY <3>1, <3>2, FS_EmptySet, CountTypes DEF Counted
  <2>4. OnNodes'
    <3>1. path' \in [Disks -> D!Nodes]
      BY <2>1, OwnDir, RestartsAssumption DEF D!End, D!Fresh, D!Nodes
    <3>. QED  BY <2>1, <3>1 DEF D!End, D!Fresh
  <2>5. Flags'
    <3>1. crashes' \in 0 .. MaxCrashes
      BY <2>2, RestartsAssumption
    <3>. QED  BY <2>1, <2>2, <3>1 DEF D!End
  <2>. QED  BY <1>1, <2>3, <2>4, <2>5
<1>4. CASE Start
  <2>1. UNCHANGED <<tree, again, creating, path, made, tried, at, failed, ready, errors>>
    BY <1>4 DEF Start, D!Begin, D!service
  <2>2. UNCHANGED <<stop, crashes>> /\ break' = stop
    BY <1>4 DEF Start, L!ForkChild, L!ForkFails
  <2>. QED  BY <1>1, <2>1, <2>2 DEF Counted, Unreported, Unfailed
<1>5. CASE Tell
  <2>1. UNCHANGED <<tree, again, creating, path, made, tried, at, failed, ready, errors>>
    BY <1>5 DEF Tell, D!Told, D!main, D!service
  <2>2. UNCHANGED <<stop, crashes>> /\ break' = TRUE
    BY <1>5 DEF Tell, L!TellProgram
  <2>. QED  BY <1>1, <2>1, <2>2 DEF Counted, Unreported, Unfailed
<1>6. CASE Watch \/ Disturb \/ JobControl
  <2>1. UNCHANGED <<program, break, crashes>> /\ stop' \in BOOLEAN
    BY <1>6
    DEF Watch, Disturb, JobControl, L!ReapCrashed, L!ReapEnded, L!WakeUp, L!TellMonitor,
        L!MonitorDies, L!ProgramStops, L!ProgramContinues
  <2>. QED  BY <1>1, <2>1 DEF program, Counted, Unreported, Unfailed
<1>7. CASE Over \/ UNCHANGED vars
  BY <1>1, <1>7 DEF Over, vars, program, launching, Counted, Unreported, Unfailed
<1>. QED  BY <1>2, <1>3, <1>4, <1>5, <1>6, <1>7 DEF Next

(* Every variable keeps its type: the services stay on the directories and *)
(* files of the disks, and no more are counted as ready or failed than     *)
(* there are (workload_config.c 712-720), however often the program dies.  *)
THEOREM TypeCorrect == Spec => []TypeOK
<1>1. Typed => L!TypeOK
  BY DEF Typed, Turns, Loads, Watched, LauncherTypes, Processes, Flags, L!TypeOK
<1>2. Typed => D!TypeOK
  <2>1. D!Cardinality(Disks) = Cardinality(Disks)
    BY DEF D!Cardinality, Cardinality
  <2>2. Typed => ready \in 0 .. Cardinality(Disks) /\ errors \in 0 .. Cardinality(Disks)
    BY CountTypes DEF Typed, Counted
  <2>. QED
    BY <2>1, <2>2 DEF Typed, Turns, Loads, Kept, PathTypes, Places, Starting, Grown, TurnTypes,
       OnNodes, Flags, D!TypeOK
<1>. QED  BY <1>1, <1>2, TypedInit, TypedStep, PTL DEF Spec, TypeOK
=============================================================================
