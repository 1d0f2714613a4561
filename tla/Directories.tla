----------------------------- MODULE Directories -----------------------------
(***************************************************************************)
(* The directories of the disks: checked or made when a disk service       *)
(* starts, with the parents that are missing, and deleted with all that is *)
(* in them when it ends (workload_mkdir_ex and workload_delete of io.c, as *)
(* workload_storage.c calls them).  All disk services do so at once, their *)
(* directories may have parents in common, and each remembers only the     *)
(* first one it made itself.                                               *)
(*                                                                         *)
(* Of the main thread there is what starts, stops and waits for the disk   *)
(* services; Lifecycle has the rest.  The file system outlives the         *)
(* program, which may die at any step.  Each disk has one file.            *)
(* Restarts composes these actions with the launcher's.                    *)
(***************************************************************************)
EXTENDS Naturals, Sequences, FiniteSets

CONSTANTS
  Disks,     \* disk services
  Names,     \* names of directories and files; a path is a sequence of them
  Dir,       \* the path of each disk
  File,      \* the name of a temporary file
  Origins,   \* what directories may be there before the program first runs
  Creates,   \* which disks may be configured with create="yes": sets of disks
  Failures,  \* what may fail: mkdir, file
  None       \* no path, no disk

Prefixes(p) == {SubSeq(p, 1, n) : n \in 0 .. Len(p)}
FileOf(d) == Append(Dir[d], File)
Dirs  == UNION (Origins \cup {Prefixes(Dir[d]) : d \in Disks})
Nodes == Dirs \cup {FileOf(d) : d \in Disks}

Parent(p) == SubSeq(p, 1, Len(p) - 1)

(* On the way to d's directory, the directory below p.                     *)
Toward(d, p) == SubSeq(Dir[d], 1, Len(p) + 1)

VARIABLES
  tree,      \* file system: directories and files
  pc,        \* where the main thread is; none when no program runs
  again,     \* does another turn follow this one?
  told,      \* the disk whose service is being closed
  creating,  \* disks with create="yes"
  at,        \* where each disk service is
  path,      \* the directory it is about to look at, make or delete
  made,      \* s_created_path, s_first_entry: the first it made
  tried,     \* what its workload_delete has returned from
  failed,    \* disk services without a directory
  ready,     \* m_disk_ready_count
  errors,    \* m_disk_error_count
  break,     \* g_workload_break
  origin,    \* history: the directories there were before the program first ran
  found,     \* history: those there were when this turn began
  calm       \* history: in this turn nothing failed and no load was broken off

main    == <<pc, again, told, creating, origin, found>>
service == <<at, path, made, tried, failed, ready, errors>>
vars == <<tree, pc, again, told, creating, at, path, made, tried, failed, ready, errors, break,
          origin, found, calm>>

Init ==
  /\ origin \in Origins
  /\ tree = origin
  /\ pc = "none" /\ again = FALSE /\ told = None
  /\ creating = {}
  /\ at = [d \in Disks |-> "none"]
  /\ path = Dir
  /\ made = [d \in Disks |-> None] /\ tried = [d \in Disks |-> {}]
  /\ failed = {} /\ ready = 0 /\ errors = 0
  /\ break = FALSE
  /\ found = origin /\ calm = TRUE

(* What a disk service starts with.                                        *)
Fresh ==
  /\ path' = Dir
  /\ made' = [d \in Disks |-> None] /\ tried' = [d \in Disks |-> {}]
  /\ failed' = {} /\ ready' = 0 /\ errors' = 0

(* A program starts, on the file system as the one before has left it.     *)
Begin ==
  /\ pc' = "load"
  /\ found' = tree \cap Dirs /\ calm' = TRUE
  /\ UNCHANGED <<tree, again, told, creating, origin, service>>

(* It ends, or dies wherever it is: only the file system is left.          *)
End ==
  /\ pc' = "none"
  /\ again' = FALSE /\ told' = None /\ creating' = {}
  /\ Fresh /\ at' = [d \in Disks |-> "none"]
  /\ found' = tree \cap Dirs /\ calm' = TRUE
  /\ UNCHANGED <<tree, origin>>

(* It is told to break: a load is broken off.                              *)
Told ==
  /\ calm' = (calm /\ pc # "wait")
  /\ UNCHANGED <<tree, main, service>>

-----------------------------------------------------------------------------
(* The main thread.                                                        *)

(* The load gives up before it opens a disk service, ...                   *)
GiveUp ==
  /\ pc = "load" /\ break
  /\ pc' = "exit"
  /\ UNCHANGED <<tree, again, told, creating, origin, found, service, break, calm>>

StartDisks ==
  /\ pc = "load" /\ ~break
  /\ \E C \in Creates :
       /\ creating' = C
       /\ at' = [d \in Disks |-> IF d \in C THEN "stat" ELSE "check"]
  /\ Fresh
  /\ found' = tree \cap Dirs /\ calm' = TRUE
  /\ pc' = "wait"
  /\ UNCHANGED <<tree, again, told, origin, break>>

(* ... or while it waits for them, or because of an error.                 *)
LoadFails ==
  /\ pc = "wait"
  /\ break \/ errors > 0
  /\ pc' = "close" /\ again' = FALSE
  /\ UNCHANGED <<tree, told, creating, origin, found, service, break, calm>>

(* Mutant: the loader looks at the number of ready services only.          *)
Loaded_AnyErrors ==
  /\ pc = "wait"
  /\ ~break /\ ready + errors >= Cardinality(Disks)
  /\ pc' = "run"
  /\ UNCHANGED <<tree, again, told, creating, origin, found, service, break, calm>>

Loaded ==
  /\ pc = "wait"
  /\ ~break /\ errors = 0 /\ ready = Cardinality(Disks)
  /\ pc' = "run"
  /\ UNCHANGED <<tree, again, told, creating, origin, found, service, break, calm>>

(* Told to break in the main loop, perhaps to reload.                      *)
LeaveRun ==
  /\ pc = "run" /\ break
  /\ pc' = "close" /\ again' \in BOOLEAN
  /\ UNCHANGED <<tree, told, creating, origin, found, service, break, calm>>

(* The disk services are closed one by one.                                *)
CloseDisk(d) ==
  /\ pc = "close" /\ told = None
  /\ at[d] # "none"
  /\ told' = d
  /\ UNCHANGED <<tree, pc, again, creating, origin, found, service, break, calm>>

DiskClosed(d) ==
  /\ told = d /\ at[d] = "returned"
  /\ told' = None
  /\ at' = [at EXCEPT ![d] = "none"]
  /\ UNCHANGED <<tree, pc, again, creating, origin, found, path, made, tried, failed, ready, errors,
                 break, calm>>

TurnEnds ==
  /\ pc = "close" /\ \A d \in Disks : at[d] = "none"
  /\ IF again
     THEN pc' = "load" /\ break' = FALSE
     ELSE pc' = "exit" /\ UNCHANGED break
  /\ UNCHANGED <<tree, again, told, creating, origin, found, service, calm>>

MainStep ==
  \/ GiveUp \/ StartDisks \/ LoadFails \/ Loaded \/ LeaveRun
  \/ \E d \in Disks : CloseDisk(d) \/ DiskClosed(d)
  \/ TurnEnds

-----------------------------------------------------------------------------
(* A disk service.                                                         *)

Goto(d, l) == at' = [at EXCEPT ![d] = l]

(* create="no": the directory must be there.                               *)
CheckDir(d) ==
  /\ at[d] = "check"
  /\ IF Dir[d] \in tree
     THEN Goto(d, "file") /\ UNCHANGED <<failed, calm>>
     ELSE Goto(d, "report") /\ failed' = failed \cup {d} /\ calm' = FALSE
  /\ UNCHANGED <<tree, main, path, made, tried, ready, errors, break>>

(* Mutant: the first directory that is there is remembered as made.        *)
StatDir_Remembers(d) ==
  /\ at[d] = "stat"
  /\ IF path[d] \in tree
     THEN IF path[d] = Dir[d]
          THEN Goto(d, "file") /\ made' = [made EXCEPT ![d] = path[d]] /\ UNCHANGED path
          ELSE Goto(d, "mkdir") /\ path' = [path EXCEPT ![d] = Toward(d, @)] /\ UNCHANGED made
     ELSE path' = [path EXCEPT ![d] = Parent(@)] /\ UNCHANGED <<at, made>>
  /\ UNCHANGED <<tree, main, tried, failed, ready, errors, break, calm>>

(* create="yes": up to the first directory that is there.                  *)
StatDir(d) ==
  /\ at[d] = "stat"
  /\ IF path[d] \in tree
     THEN IF path[d] = Dir[d]
          THEN Goto(d, "file") /\ UNCHANGED path
          ELSE Goto(d, "mkdir") /\ path' = [path EXCEPT ![d] = Toward(d, @)]
     ELSE path' = [path EXCEPT ![d] = Parent(@)] /\ UNCHANGED at
  /\ UNCHANGED <<tree, main, made, tried, failed, ready, errors, break, calm>>

(* Then down again.                                                        *)
Descend(d) ==
  IF path[d] = Dir[d] THEN Goto(d, "file") /\ UNCHANGED path
  ELSE path' = [path EXCEPT ![d] = Toward(d, @)] /\ UNCHANGED at

(* A directory that is there by now is not remembered.                     *)
MakeDir(d) ==
  /\ at[d] = "mkdir"
  /\ path[d] \in tree \/ Parent(path[d]) \in tree
  /\ tree' = tree \cup {path[d]}
  /\ made' = [made EXCEPT ![d] = IF @ = None /\ path[d] \notin tree THEN path[d] ELSE @]
  /\ Descend(d)
  /\ UNCHANGED <<main, tried, failed, ready, errors, break, calm>>

(* Its parent has gone, or there is another error: what was made is        *)
(* deleted.                                                                *)
MakeDirFails(d) ==
  /\ at[d] = "mkdir" /\ path[d] \notin tree
  /\ Parent(path[d]) \notin tree \/ "mkdir" \in Failures
  /\ failed' = failed \cup {d} /\ calm' = FALSE
  /\ IF made[d] = None
     THEN Goto(d, "report") /\ UNCHANGED path
     ELSE Goto(d, "list") /\ path' = [path EXCEPT ![d] = made[d]]
  /\ UNCHANGED <<tree, main, made, tried, ready, errors, break>>

(* Mutant: a file that cannot be created is tried again.                   *)
WriteFile_Again(d) ==
  /\ at[d] = "file"
  /\ \/ /\ told = d \/ Dir[d] \in tree
        /\ tree' = IF told = d THEN tree ELSE tree \cup {FileOf(d)}
        /\ Goto(d, "report")
        /\ UNCHANGED <<errors, calm>>
     \/ told # d /\ Dir[d] \notin tree
        /\ errors' = errors + 1 /\ calm' = FALSE
        /\ UNCHANGED <<tree, at>>
  /\ UNCHANGED <<main, path, made, tried, failed, ready, break>>

(* The file is created, unless the service has been told to stop.          *)
WriteFile(d) ==
  /\ at[d] = "file"
  /\ \/ told = d /\ UNCHANGED <<tree, errors, calm>>
     \/ told # d /\ Dir[d] \in tree
        /\ tree' = tree \cup {FileOf(d)}
        /\ UNCHANGED <<errors, calm>>
     \/ told # d /\ (Dir[d] \notin tree \/ "file" \in Failures)
        /\ errors' = errors + 1 /\ calm' = FALSE
        /\ UNCHANGED tree
  /\ Goto(d, "report")
  /\ UNCHANGED <<main, path, made, tried, failed, ready, break>>

(* A service without a directory is an error and returns; any other one is *)
(* ready, also after an error, ...                                         *)
Report(d) ==
  /\ at[d] = "report"
  /\ IF d \in failed
     THEN errors' = errors + 1 /\ Goto(d, "returned") /\ UNCHANGED ready
     ELSE ready' = ready + 1 /\ Goto(d, "ready") /\ UNCHANGED errors
  /\ UNCHANGED <<tree, main, path, made, tried, failed, break, calm>>

(* Mutant: the directory itself is deleted, not the first one made.        *)
Stop_OwnOnly(d) ==
  /\ at[d] = "ready" /\ told = d
  /\ IF made[d] = None THEN Goto(d, "returned") /\ UNCHANGED path
     ELSE Goto(d, "list") /\ path' = [path EXCEPT ![d] = Dir[d]]
  /\ made' = [made EXCEPT ![d] = IF @ = None THEN @ ELSE Dir[d]]
  /\ UNCHANGED <<tree, main, tried, failed, ready, errors, break, calm>>

(* ... and when told to stop deletes the first directory it made.          *)
Stop(d) ==
  /\ at[d] = "ready" /\ told = d
  /\ IF made[d] = None THEN Goto(d, "returned") /\ UNCHANGED path
     ELSE Goto(d, "list") /\ path' = [path EXCEPT ![d] = made[d]]
  /\ UNCHANGED <<tree, main, made, tried, failed, ready, errors, break, calm>>

(* workload_delete, depth first: whatever is in the directory, ...         *)
Children(p) == {c \in tree : Len(c) = Len(p) + 1 /\ Parent(c) = p}

ReadDir(d) ==
  /\ at[d] = "list"
  /\ \/ /\ \E c \in Children(path[d]) \ tried[d] : path' = [path EXCEPT ![d] = c]
        /\ UNCHANGED at
     \/ /\ Children(path[d]) \subseteq tried[d]
        /\ Goto(d, "remove")
        /\ UNCHANGED path
  /\ UNCHANGED <<tree, main, made, tried, failed, ready, errors, break, calm>>

(* ... then the directory, if nothing has come into it meanwhile.          *)
Remove(d) ==
  /\ at[d] = "remove"
  /\ tree' = IF Children(path[d]) = {} THEN tree \ {path[d]} ELSE tree
  /\ tried' = [tried EXCEPT ![d] = @ \cup {path[d]}]
  /\ IF path[d] = made[d]
     THEN Goto(d, IF d \in failed THEN "report" ELSE "returned") /\ UNCHANGED path
     ELSE Goto(d, "list") /\ path' = [path EXCEPT ![d] = Parent(@)]
  /\ UNCHANGED <<main, made, failed, ready, errors, break, calm>>

DiskStep(d) ==
  \/ CheckDir(d) \/ StatDir(d) \/ MakeDir(d) \/ MakeDirFails(d) \/ WriteFile(d)
  \/ Report(d) \/ Stop(d) \/ ReadDir(d) \/ Remove(d)

-----------------------------------------------------------------------------
(* Every variable keeps its type.                                          *)
TypeOK ==
  /\ tree \subseteq Nodes
  /\ pc \in {"none", "load", "wait", "run", "close", "exit"}
  /\ {again, break, calm} \subseteq BOOLEAN
  /\ told \in Disks \cup {None}
  /\ creating \subseteq Disks /\ failed \subseteq Disks
  /\ at \in [Disks -> {"none", "check", "stat", "mkdir", "file", "report", "ready", "list",
                       "remove", "returned"}]
  /\ path \in [Disks -> Nodes]
  /\ made \in [Disks -> Dirs \cup {None}]
  /\ tried \in [Disks -> SUBSET Nodes]
  /\ ready \in 0 .. Cardinality(Disks) /\ errors \in 0 .. Cardinality(Disks)
  /\ origin \in Origins
  /\ found \subseteq Dirs

(* The program deletes no directory that was there before it, whatever     *)
(* other services make and delete meanwhile, over crashes and restarts     *)
(* (io.c 202-226, workload_storage.c 142-145).                             *)
KeepsExisting == origin \subseteq tree

(* The main loop runs on directories and files that are there, though some *)
(* were made by services that delete them when they fail (workload_config.c *)
(* 712-720).                                                               *)
RunsOnDirs == pc = "run" => \A d \in Disks : {Dir[d], FileOf(d)} \subseteq tree

(* After a turn without failures, in which no load was broken off, the     *)
(* directories are those there were before it: all that were made for it   *)
(* are deleted, and no others (workload_storage.c 142-145).                *)
LeavesTree == pc \in {"load", "exit"} /\ calm => tree \cap Dirs = found
=============================================================================
