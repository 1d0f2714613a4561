------------------------------ MODULE FileLists ------------------------------
(***************************************************************************)
(* The temporary files on their disks: how many there are and which disk   *)
(* each is assigned to when a configuration is loaded (workload_config.c), *)
(* and the list of its files every disk keeps, re-linked by each move      *)
(* (workload_file.c) while the screen walks it (workload_view.c).          *)
(*                                                                         *)
(* A move holds the moved file's m_access_lock, which protects no list;    *)
(* the screen holds m_reassign_lock, which a move takes only after it has  *)
(* linked the file.  So both run between any two of the stores below.      *)
(*                                                                         *)
(* Left out: when and where files are moved, and moves that fail before    *)
(* they touch a list (Relocation); failing allocations; a break during the *)
(* load (Lifecycle).  A configuration without a disk divides by zero.      *)
(* A count changes in one step: that one of two changes made at once can   *)
(* be lost matters with two movers only, whose lists are wrong anyway.     *)
(***************************************************************************)
EXTENDS Integers, Sequences, FiniteSets

CONSTANTS
  MaxFiles,      \* def_workload_config_max_files
  DefaultFiles,  \* def_workload_config_default_files
  MaxDisks,      \* no configuration has more disks
  Configs,       \* configurations: see LoadedConfig
  NoPath,        \* a disk without a path
  Movers         \* threads that relocate files at the same time

Files == 1 .. MaxFiles
Disks == 1 .. MaxDisks
Null  == 0

(* What the options and the configuration file say: m_opt.m_filecount and  *)
(* <files>, read by atoi (0 if not given), the assign method and the paths *)
(* of the disks.                                                           *)
LoadedConfig(c) ==
  /\ c.option \in Int /\ c.files \in Int
  /\ c.method \in {"ordered", "even", "random"}
  /\ Cardinality({c.paths[i] : i \in DOMAIN c.paths} \ {NoPath}) \in Disks

ASSUME FileListsAssumption ==
  /\ MaxFiles \in Nat /\ DefaultFiles \in 1 .. MaxFiles
  /\ MaxDisks \in Nat \ {0}
  /\ \A c \in Configs : LoadedConfig(c)

VARIABLES
  phase,         \* where the loader is: load, assign, index, run
  fileCount,     \* m_file_count
  diskCount,     \* m_disk_count
  method,        \* m_files_assign_method
  id,            \* s_id: the next assignment
  even,          \* m_file_even
  nextFileIndex, \* m_next_file_index
  head, files,   \* m_assign_file and m_assign_file_count of each disk
  next, prev,    \* m_assign_next, m_assign_prev of each file
  diskOf,        \* m_assign_disk of each file
  pc,            \* where each mover is
  file, to,      \* what it moves, and where
  lock,          \* m_reassign_lock: held by the screen?
  row, at        \* the disk being drawn, and the file the walk has come to

links   == <<head, next, prev>>
loading == <<phase, fileCount, diskCount, method, id, even, nextFileIndex>>
moving  == <<pc, file, to>>
drawing == <<lock, row, at>>
vars == <<phase, fileCount, diskCount, method, id, even, nextFileIndex, head, files, next, prev,
          diskOf, pc, file, to, lock, row, at>>

Init ==
  /\ phase = "load"
  /\ fileCount = 0 /\ diskCount = 0 /\ method = "random"
  /\ id = 1
  /\ even = [i \in Files |-> i]
  /\ nextFileIndex = [d \in Disks |-> 0]
  /\ head = [d \in Disks |-> Null] /\ files = [d \in Disks |-> 0]
  /\ next = [f \in Files |-> Null] /\ prev = [f \in Files |-> Null]
  /\ diskOf = [f \in Files |-> Null]
  /\ pc = [t \in Movers |-> "idle"]
  /\ file = [t \in Movers |-> Null] /\ to = [t \in Movers |-> Null]
  /\ lock = FALSE /\ row = 1 /\ at = Null

-----------------------------------------------------------------------------
(* Loading.  The main thread is alone.                                     *)

(* Mutant: a negative number is not taken for a large one.                 *)
FileCount_Signed(c) ==
  LET n == IF c.option # 0 THEN c.option ELSE c.files
  IN  IF n > MaxFiles THEN MaxFiles ELSE IF n = 0 THEN DefaultFiles ELSE n

(* The option comes before the file; a negative number, cast to size_t, is *)
(* too large; none means the default.                                      *)
FileCount(c) ==
  LET n == IF c.option # 0 THEN c.option ELSE c.files
  IN  IF n < 0 \/ n > MaxFiles THEN MaxFiles ELSE IF n = 0 THEN DefaultFiles ELSE n

(* Disks without a path and those named before are skipped.                *)
DiskCount(c) == Cardinality({c.paths[i] : i \in DOMAIN c.paths} \ {NoPath})

LoadConfig ==
  /\ phase = "load"
  /\ \E c \in Configs :
       /\ diskCount' = DiskCount(c)
       /\ fileCount' = FileCount(c)
       /\ method' = c.method
  /\ phase' = "assign"
  /\ UNCHANGED <<id, even, nextFileIndex, links, files, diskOf, moving, drawing>>

(* The file becomes the first of the disk's list.                          *)
AssignTo(f, d) ==
  /\ prev' = [g \in Files |-> IF g = f THEN Null ELSE IF g = head[d] THEN f ELSE prev[g]]
  /\ next' = [next EXCEPT ![f] = head[d]]
  /\ head' = [head EXCEPT ![d] = f]
  /\ diskOf' = [diskOf EXCEPT ![f] = d]
  /\ files' = [files EXCEPT ![d] = @ + 1]

(* The disk of the i-th assignment: equal shares.                          *)
Share(i) == ((i - 1) * diskCount) \div fileCount + 1

AssignOrdered ==
  /\ method = "ordered"
  /\ AssignTo(id, Share(id))
  /\ UNCHANGED even

(* Mutant: a file that was drawn may be drawn again.                       *)
AssignEven_Puts ==
  /\ method = "even"
  /\ \E r \in 1 .. fileCount - id + 1 : AssignTo(even[r], Share(id))
  /\ UNCHANGED even

(* A random one of those left, which changes places with the last of them. *)
AssignEven ==
  /\ method = "even"
  /\ LET last == fileCount - id + 1 IN
     \E r \in 1 .. last :
       /\ AssignTo(even[r], Share(id))
       /\ even' = [even EXCEPT ![r] = even[last], ![last] = even[r]]

AssignRandom ==
  /\ method = "random"
  /\ \E d \in 1 .. diskCount : AssignTo(id, d)
  /\ UNCHANGED even

AssignFile ==
  /\ phase = "assign"
  /\ id <= fileCount
  /\ AssignOrdered \/ AssignEven \/ AssignRandom
  /\ id' = id + 1
  /\ phase' = IF id = fileCount THEN "index" ELSE "assign"
  /\ UNCHANGED <<fileCount, diskCount, method, nextFileIndex, moving, drawing>>

(* How many files were assigned to each disk and those before it.          *)
SumFiles[d \in 0 .. MaxDisks] == IF d = 0 THEN 0 ELSE SumFiles[d - 1] + files[d]

SetNextFileIndex ==
  /\ phase = "index"
  /\ nextFileIndex' = [d \in Disks |-> IF d <= diskCount THEN SumFiles[d] ELSE 0]
  /\ phase' = "run"
  /\ UNCHANGED <<fileCount, diskCount, method, id, even, links, files, diskOf, moving, drawing>>

-----------------------------------------------------------------------------
(* A move, from where it takes the file off its disk's list.               *)

Step(t, a, b) == pc[t] = a /\ pc' = [pc EXCEPT ![t] = b]

(* A pass holds the lock of the file it moves: nobody else moves it.       *)
BeginMove(t) ==
  /\ phase = "run"
  /\ Step(t, "idle", "off_next")
  /\ \E f \in 1 .. fileCount, d \in 1 .. diskCount :
       /\ \A u \in Movers : file[u] # f
       /\ d # diskOf[f]
       /\ file' = [file EXCEPT ![t] = f] /\ to' = [to EXCEPT ![t] = d]
  /\ UNCHANGED <<loading, links, files, diskOf, drawing>>

(* workload_deassign_file: the neighbours first, ...                       *)
UnlinkFromNext(t) ==
  LET f == file[t] IN
  /\ Step(t, "off_next", "off_prev")
  /\ prev' = [g \in Files |-> IF g = next[f] THEN prev[f] ELSE prev[g]]
  /\ UNCHANGED <<loading, head, next, files, diskOf, file, to, drawing>>

UnlinkFromPrev(t) ==
  LET f == file[t] IN
  /\ Step(t, "off_prev", "off_count")
  /\ IF prev[f] = Null
     THEN head' = [head EXCEPT ![diskOf[f]] = next[f]] /\ UNCHANGED next
     ELSE next' = [next EXCEPT ![prev[f]] = next[f]] /\ UNCHANGED head
  /\ UNCHANGED <<loading, prev, files, diskOf, file, to, drawing>>

(* ... then the count and the file itself.                                 *)
CountOut(t) ==
  /\ Step(t, "off_count", "off")
  /\ files' = [files EXCEPT ![diskOf[file[t]]] = @ - 1]
  /\ UNCHANGED <<loading, links, diskOf, file, to, drawing>>

Unassign(t) ==
  LET f == file[t] IN
  /\ Step(t, "off", "on_next")
  /\ diskOf' = [diskOf EXCEPT ![f] = Null]
  /\ next' = [next EXCEPT ![f] = Null] /\ prev' = [prev EXCEPT ![f] = Null]
  /\ UNCHANGED <<loading, head, files, file, to, drawing>>

(* workload_assign_file_to_disk: the file first, ...                       *)
LinkToNext(t) ==
  LET f == file[t] IN
  /\ Step(t, "on_next", "on_prev")
  /\ prev' = [prev EXCEPT ![f] = Null]
  /\ next' = [next EXCEPT ![f] = head[to[t]]]
  /\ UNCHANGED <<loading, head, files, diskOf, file, to, drawing>>

(* Mutant: the former first file keeps no way back.                        *)
LinkFromNext_Forgets(t) ==
  /\ Step(t, "on_prev", "on_head")
  /\ UNCHANGED <<loading, links, files, diskOf, file, to, drawing>>

LinkFromNext(t) ==
  /\ Step(t, "on_prev", "on_head")
  /\ prev' = [g \in Files |-> IF g = head[to[t]] THEN file[t] ELSE prev[g]]
  /\ UNCHANGED <<loading, head, next, files, diskOf, file, to, drawing>>

(* ... then the disk, the file's m_assign_disk and the count.              *)
LinkHead(t) ==
  /\ Step(t, "on_head", "on_count")
  /\ head' = [head EXCEPT ![to[t]] = file[t]]
  /\ diskOf' = [diskOf EXCEPT ![file[t]] = to[t]]
  /\ UNCHANGED <<loading, next, prev, files, file, to, drawing>>

CountIn(t) ==
  /\ Step(t, "on_count", "stamp")
  /\ files' = [files EXCEPT ![to[t]] = @ + 1]
  /\ UNCHANGED <<loading, links, diskOf, file, to, drawing>>

(* Mutant: the time stamps are set without the lock.                       *)
EndMove_NoLock(t) ==
  /\ Step(t, "stamp", "idle")
  /\ file' = [file EXCEPT ![t] = Null] /\ to' = [to EXCEPT ![t] = Null]
  /\ UNCHANGED <<loading, links, files, diskOf, drawing>>

(* Time stamps and database, under m_reassign_lock.                        *)
EndMove(t) ==
  /\ ~lock
  /\ Step(t, "stamp", "idle")
  /\ file' = [file EXCEPT ![t] = Null] /\ to' = [to EXCEPT ![t] = Null]
  /\ UNCHANGED <<loading, links, files, diskOf, drawing>>

MoveStep(t) ==
  \/ BeginMove(t) \/ UnlinkFromNext(t) \/ UnlinkFromPrev(t) \/ CountOut(t) \/ Unassign(t)
  \/ LinkToNext(t) \/ LinkFromNext(t) \/ LinkHead(t) \/ CountIn(t) \/ EndMove(t)

-----------------------------------------------------------------------------
(* The screen: disk by disk it adds up the counts of the disk's files,     *)
(* m_reassign_lock held from the first to the last.                        *)

BeginDraw ==
  /\ phase = "run" /\ ~lock
  /\ lock' = TRUE
  /\ row' = 1 /\ at' = head[1]
  /\ UNCHANGED <<loading, links, files, diskOf, moving>>

WalkFile ==
  /\ lock /\ at # Null
  /\ at' = next[at]
  /\ UNCHANGED <<loading, links, files, diskOf, moving, lock, row>>

DrawnDisk ==
  /\ lock /\ at = Null
  /\ IF row < diskCount
     THEN row' = row + 1 /\ at' = head[row + 1] /\ UNCHANGED lock
     ELSE lock' = FALSE /\ row' = 1 /\ UNCHANGED at
  /\ UNCHANGED <<loading, links, files, diskOf, moving>>

-----------------------------------------------------------------------------
Next ==
  \/ LoadConfig \/ AssignFile \/ SetNextFileIndex
  \/ \E t \in Movers : MoveStep(t)
  \/ BeginDraw \/ WalkFile \/ DrawnDisk

Spec == Init /\ [][Next]_vars

(* The main thread keeps being scheduled.                                  *)
FairSpec == Spec /\ WF_vars(WalkFile) /\ WF_vars(DrawnDisk)

-----------------------------------------------------------------------------
(* Every variable keeps its type.                                          *)
TypeOK ==
  /\ phase \in {"load", "assign", "index", "run"}
  /\ fileCount \in 0 .. MaxFiles /\ diskCount \in 0 .. MaxDisks
  /\ method \in {"ordered", "even", "random"}
  /\ id \in 1 .. fileCount + 1
  /\ even \in [Files -> Files]
  /\ nextFileIndex \in [Disks -> 0 .. MaxFiles]
  /\ head \in [Disks -> 0 .. MaxFiles] /\ files \in [Disks -> Int]
  /\ next \in [Files -> 0 .. MaxFiles] /\ prev \in [Files -> 0 .. MaxFiles]
  /\ diskOf \in [Files -> 0 .. MaxDisks]
  /\ pc \in [Movers -> {"idle", "off_next", "off_prev", "off_count", "off", "on_next",
                        "on_prev", "on_head", "on_count", "stamp"}]
  /\ file \in [Movers -> 0 .. MaxFiles] /\ to \in [Movers -> 0 .. MaxDisks]
  /\ lock \in BOOLEAN /\ row \in Disks /\ at \in 0 .. MaxFiles

(* The walk from a disk's first file, by m_assign_next, n files far.       *)
Walked(d) ==
  LET step[n \in 0 .. MaxFiles] ==
        IF n = 0 THEN head[d] ELSE IF step[n - 1] = Null THEN Null ELSE next[step[n - 1]]
  IN  step

(* The screen's FILES and USAGE are about the disk's files (workload_view.c *)
(* 79-80, 252-309): while no move is under way, m_assign_file_count is the *)
(* number of files assigned to the disk, its list holds them and no others *)
(* and ends, and leads back as well.                                       *)
ListsMatch ==
  phase = "run" /\ (\A t \in Movers : pc[t] = "idle") =>
    \A d \in 1 .. diskCount :
      LET own == {f \in Files : diskOf[f] = d} IN
      /\ files[d] = Cardinality(own)
      /\ Walked(d)[fileCount] = Null
      /\ {Walked(d)[n] : n \in 0 .. fileCount} \ {Null} = own
      /\ \A f \in own : IF prev[f] = Null THEN head[d] = f ELSE next[prev[f]] = f

(* Once loaded, each file is on one disk; the ordered and the even method  *)
(* (README.md 202) give each disk the same number of files, but for one;   *)
(* and there is a disk for every rank (workload_config.c 603-668).         *)
SpreadOverDisks ==
  phase = "index" =>
    /\ {f \in Files : diskOf[f] \in 1 .. diskCount} = 1 .. fileCount
    /\ SumFiles[diskCount] = fileCount
    /\ method # "random" => \A d, e \in 1 .. diskCount : files[d] - files[e] <= 1

(* While at most one service moves files, the screen is drawn and          *)
(* m_reassign_lock released, which every service waits for                 *)
(* (workload_view.c 40, 304-309, 442): wherever the move leads the walk    *)
(* along the lists, it ends.  It need not with two services, whose moves   *)
(* may lose a link (ListsMatch): a later move then closes a list to a      *)
(* circle, along which the screen walks for ever, the lock held.           *)
DrawingEnds == lock ~> ~lock
=============================================================================
