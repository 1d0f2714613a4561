----------------------------- MODULE Relocation -----------------------------
(***************************************************************************)
(* Access and relocation of the temporary files: the access services of    *)
(* source/workload.c, workload_file_access (workload_access.c), the pass   *)
(* workload_file_relocate (workload_relocate.c), the move of a file from   *)
(* disk to disk (workload_file.c) and the main thread's relocation         *)
(* commands, running against each other.                                   *)
(*                                                                         *)
(* Every counted access re-sorts the files by access count and computes,   *)
(* from each file's rank, the disk it should be on; passes then move the   *)
(* files there.  m_access_lock of a file covers its move and its access;   *)
(* m_reassign_lock covers counts and ranking; but m_assign_disk is read by *)
(* the ranking, and m_reassign_disk written by the pass, with only one of  *)
(* the two locks held.  The steps here are as fine as those races need.    *)
(*                                                                         *)
(* Left out: read and write counts are one count; pause, access interval   *)
(* and time stamps only delay a worker (it may always be idle); the lists  *)
(* of a disk's files, its counters and the database are other components.  *)
(***************************************************************************)
EXTENDS Naturals, FiniteSets

CONSTANTS
  NFiles,      \* m_file_count: files are numbered in list order
  NDisks,      \* m_disk_count
  Workers,     \* access services
  Main,        \* the main thread
  Commands,    \* which of the keys o, r, S, K, ! the main thread may be sent
  MovesFail,   \* may opening a file for a move fail?
  Leftovers,   \* files of earlier runs that may still lie on further disks
  MaxCount     \* bound: no file is counted more often than this

Files == 1 .. NFiles
Disks == 1 .. NDisks
Threads == Workers \cup {Main}
NoDisk == 0                 \* a NULL m_assign_disk or m_reassign_disk
Free   == "free"            \* an unlocked mutex

ASSUME RelocationAssumption ==
  /\ NFiles \in Nat \ {0}
  /\ NDisks \in Nat \ {0}
  /\ Main \notin Workers
  /\ Free \notin Threads
  /\ Commands \subseteq {"o", "r", "S", "K", "!"}
  /\ MovesFail \in BOOLEAN
  /\ Leftovers \subseteq Files
  /\ MaxCount \in Nat

VARIABLES
  nextFileIndex, \* m_next_file_index: files assigned at load to the disks so far
  diskOf,        \* m_assign_disk of each file
  targetOf,      \* m_reassign_disk of each file
  created,       \* files with def_workload_file_flag_created
  copies,        \* the file system: files with a path on each disk
  made,          \* history: the paths <<disk, file>> that moves have made
  count,         \* m_read_count + m_write_count of each file
  sorted,        \* m_file_sorted, ranks from 1
  index,         \* m_index of each file
  relocate,      \* m_relocate
  break,         \* *m_break_ptr
  accessLock,    \* holder of m_access_lock of each file
  reassignLock,  \* holder of m_reassign_lock
  pc,            \* where each thread is
  at,            \* the file each thread accesses or moves
  dest,          \* the disk each moving thread moves its file to
  rank, seen     \* the ranking loop of the reassignLock holder: rank, disk read

ranking == <<count, sorted, index>>
scan    == <<rank, seen>>
locals  == <<at, dest>>
storage == <<diskOf, created, copies, made>>
vars == <<nextFileIndex, diskOf, targetOf, created, copies, made, count, sorted, index, relocate,
          break, accessLock, reassignLock, pc, at, dest, rank, seen>>

Goto(t, l) == pc' = [pc EXCEPT ![t] = l]

(* The disk meant for the file with rank r: the loops of lines 131-138     *)
(* give each disk as many of the most used files as it was assigned.       *)
DiskOfRank(r) ==
  CHOOSE d \in Disks : /\ r <= nextFileIndex[d]
                       /\ \A e \in 1 .. d - 1 : r > nextFileIndex[e]

(* The loaded program: every file assigned to some disk and written there  *)
(* once; files of earlier runs may still lie on other disks.  The flag     *)
(* created is clear, also for files the disk services just made.           *)
Init ==
  /\ diskOf \in [Files -> Disks]
  /\ nextFileIndex = [d \in Disks |-> Cardinality({f \in Files : diskOf[f] <= d})]
  /\ targetOf = [f \in Files |-> NoDisk]
  /\ created = {}
  /\ made = {}
  /\ copies \in [Disks -> SUBSET Files]
  /\ \A f \in Files : f \in copies[diskOf[f]]
  /\ \A f \in Files \ Leftovers, d \in Disks : f \in copies[d] => d = diskOf[f]
  /\ count = [f \in Files |-> 1]
  /\ sorted = [r \in Files |-> r]
  /\ index = [f \in Files |-> f]
  /\ relocate \in BOOLEAN
  /\ break = FALSE
  /\ accessLock = [f \in Files |-> Free]
  /\ reassignLock = Free
  /\ pc = [t \in Threads |-> "idle"]
  /\ at = [t \in Threads |-> 1]
  /\ dest = [t \in Threads |-> NoDisk]
  /\ rank = 1
  /\ seen = NoDisk

-----------------------------------------------------------------------------
(* An access service: one turn of its loop.                                *)

(* Pick a random file, under m_reassign_lock.                              *)
PickFile(t) ==
  /\ pc[t] = "idle" /\ t \in Workers
  /\ ~break
  /\ reassignLock = Free
  /\ \E f \in Files : at' = [at EXCEPT ![t] = f]
  /\ Goto(t, "lock")
  /\ UNCHANGED <<nextFileIndex, storage, targetOf, ranking, relocate, break, accessLock,
                 reassignLock, dest, scan>>

(* Mutant: the service looks at the break flag only while relocation is on.*)
StopService_Forgets(t) ==
  /\ pc[t] = "idle" /\ t \in Workers
  /\ break /\ relocate
  /\ Goto(t, "done")
  /\ UNCHANGED <<nextFileIndex, storage, targetOf, ranking, relocate, break, accessLock,
                 reassignLock, locals, scan>>

(* The service returns at the top of its loop when the program breaks.     *)
StopService(t) ==
  /\ pc[t] = "idle" /\ t \in Workers
  /\ break
  /\ Goto(t, "done")
  /\ UNCHANGED <<nextFileIndex, storage, targetOf, ranking, relocate, break, accessLock,
                 reassignLock, locals, scan>>

LockFile(t) ==
  /\ pc[t] = "lock"
  /\ accessLock[at[t]] = Free
  /\ accessLock' = [accessLock EXCEPT ![at[t]] = t]
  /\ Goto(t, "access")
  /\ UNCHANGED <<nextFileIndex, storage, targetOf, ranking, relocate, break, reassignLock,
                 locals, scan>>

(* Read or write the file at its path on its disk.  Only a path that is    *)
(* there can be counted; the access counts nothing when it is faked for an *)
(* idle disk, when I/O fails or the program breaks.                        *)
AccessFile(t) ==
  /\ pc[t] = "access"
  /\ \/ /\ diskOf[at[t]] # NoDisk
        /\ at[t] \in copies[diskOf[at[t]]]
        /\ count[at[t]] < MaxCount
        /\ Goto(t, "count")
     \/ Goto(t, "unlock")
  /\ UNCHANGED <<nextFileIndex, storage, targetOf, ranking, relocate, break, accessLock,
                 reassignLock, locals, scan>>

(* Mutant: the file only changes places with the one right above it.       *)
ClimbsTo_OneRank(f, n) ==
  IF index[f] > 1 /\ count[sorted[index[f] - 1]] < n THEN index[f] - 1 ELSE index[f]

(* The new rank of file f once its count is n: it climbs over every file   *)
(* with a smaller count right above it (lines 118-128).                    *)
ClimbsTo(f, n) ==
  CHOOSE r \in 1 .. index[f] :
    /\ \A q \in r .. index[f] - 1 : count[sorted[q]] < n
    /\ r > 1 => count[sorted[r - 1]] >= n

(* Take m_reassign_lock, count the access and move the file up the order.  *)
CountAccess(t) ==
  LET f == at[t]
      n == count[f] + 1
      r == ClimbsTo(f, n)
  IN
  /\ pc[t] = "count"
  /\ reassignLock = Free
  /\ reassignLock' = t
  /\ count' = [count EXCEPT ![f] = n]
  /\ sorted' = [q \in Files |-> IF q = r THEN f
                                ELSE IF q \in r + 1 .. index[f] THEN sorted[q - 1]
                                ELSE sorted[q]]
  /\ index' = [g \in Files |-> IF g = f THEN r
                               ELSE IF index[g] \in r .. index[f] - 1 THEN index[g] + 1
                               ELSE index[g]]
  /\ rank' = 1
  /\ Goto(t, "read")
  /\ UNCHANGED <<nextFileIndex, storage, targetOf, relocate, break, accessLock, locals, seen>>

(* The ranking loop: for each rank, read where the file is ...             *)
ReadDisk(t) ==
  /\ pc[t] = "read"
  /\ seen' = diskOf[sorted[rank]]
  /\ Goto(t, "write")
  /\ UNCHANGED <<nextFileIndex, storage, targetOf, ranking, relocate, break, accessLock,
                 reassignLock, locals, rank>>

(* Mutant: the loop ends before the last rank.                             *)
WriteTarget_SkipsLast(t) ==
  /\ pc[t] = "write"
  /\ targetOf' = [targetOf EXCEPT ![sorted[rank]] =
                    IF seen = DiskOfRank(rank) THEN NoDisk ELSE DiskOfRank(rank)]
  /\ seen' = NoDisk
  /\ IF rank < NFiles - 1
     THEN /\ rank' = rank + 1
          /\ Goto(t, "read")
          /\ UNCHANGED reassignLock
     ELSE /\ rank' = 1
          /\ reassignLock' = Free
          /\ Goto(t, "unlock")
  /\ UNCHANGED <<nextFileIndex, storage, ranking, relocate, break, accessLock, locals>>

(* ... and write where it should go: nowhere when it is there already.     *)
(* After the last rank m_reassign_lock is released.                        *)
WriteTarget(t) ==
  /\ pc[t] = "write"
  /\ targetOf' = [targetOf EXCEPT ![sorted[rank]] =
                    IF seen = DiskOfRank(rank) THEN NoDisk ELSE DiskOfRank(rank)]
  /\ seen' = NoDisk
  /\ IF rank < NFiles
     THEN /\ rank' = rank + 1
          /\ Goto(t, "read")
          /\ UNCHANGED reassignLock
     ELSE /\ rank' = 1
          /\ reassignLock' = Free
          /\ Goto(t, "unlock")
  /\ UNCHANGED <<nextFileIndex, storage, ranking, relocate, break, accessLock, locals>>

UnlockFile(t) ==
  /\ pc[t] = "unlock"
  /\ accessLock' = [accessLock EXCEPT ![at[t]] = Free]
  /\ at' = [at EXCEPT ![t] = 1]
  /\ Goto(t, "check")
  /\ UNCHANGED <<nextFileIndex, storage, targetOf, ranking, relocate, break, reassignLock,
                 dest, scan>>

(* After each access, a pass when relocation is on.                        *)
CheckRelocate(t) ==
  /\ pc[t] = "check"
  /\ Goto(t, IF relocate THEN "p_lock" ELSE "idle")
  /\ UNCHANGED <<nextFileIndex, storage, targetOf, ranking, relocate, break, accessLock,
                 reassignLock, locals, scan>>

-----------------------------------------------------------------------------
(* A pass over all files, by an access service or by the main thread.      *)

(* Mutant: a pass does not take the lock of the file it moves.             *)
PassLock_NoLock(t) ==
  /\ pc[t] = "p_lock"
  /\ Goto(t, "p_check")
  /\ UNCHANGED <<nextFileIndex, storage, targetOf, ranking, relocate, break,
                 accessLock, reassignLock, locals, scan>>

PassLock(t) ==
  /\ pc[t] = "p_lock"
  /\ accessLock[at[t]] = Free
  /\ accessLock' = [accessLock EXCEPT ![at[t]] = t]
  /\ Goto(t, "p_check")
  /\ UNCHANGED <<nextFileIndex, storage, targetOf, ranking, relocate, break,
                 reassignLock, locals, scan>>

(* First read of m_reassign_disk.                                          *)
PassCheck(t) ==
  /\ pc[t] = "p_check"
  /\ Goto(t, IF targetOf[at[t]] = NoDisk THEN "p_next" ELSE "p_move")
  /\ UNCHANGED <<nextFileIndex, storage, targetOf, ranking, relocate, break,
                 accessLock, reassignLock, locals, scan>>

(* Mutant: a path found on the destination is marked created as well.      *)
MoveFile_AlwaysCreated(t) ==
  LET f == at[t]
      from == diskOf[f]
      to == targetOf[f]
      copied == [copies EXCEPT ![to] = @ \cup {f}]
  IN
  /\ pc[t] = "p_move"
  /\ \/ /\ to \in {NoDisk, from} \/ MovesFail \/ f \notin copies[from]
        /\ Goto(t, "p_clear")
        /\ UNCHANGED <<storage, dest>>
     \/ /\ to \notin {NoDisk, from}
        /\ f \in copies[from]
        /\ copies' = IF f \in created
                     THEN [copied EXCEPT ![from] = @ \ {f}] ELSE copied
        /\ created' = created \cup {f}
        /\ made' = (made \ {<<from, f>>}) \cup ({to} \X ({f} \ copies[to]))
        /\ diskOf' = [diskOf EXCEPT ![f] = NoDisk]
        /\ dest' = [dest EXCEPT ![t] = to]
        /\ Goto(t, "p_link")
  /\ UNCHANGED <<nextFileIndex, targetOf, ranking, relocate, break, accessLock,
                 reassignLock, at, scan>>

(* Mutant: the old path is deleted after the new disk has been assigned,   *)
(* so that the path deleted is the one just written.                       *)
MoveFile_DeletesNew(t) ==
  LET f == at[t]
      from == diskOf[f]
      to == targetOf[f]
  IN
  /\ pc[t] = "p_move"
  /\ \/ /\ to \in {NoDisk, from} \/ MovesFail \/ f \notin copies[from]
        /\ Goto(t, "p_clear")
        /\ UNCHANGED <<storage, dest>>
     \/ /\ to \notin {NoDisk, from}
        /\ f \in copies[from]
        /\ copies' = [copies EXCEPT ![to] = IF f \in created THEN @ \ {f} ELSE @ \cup {f}]
        /\ created' = IF f \in copies[to] THEN created \ {f} ELSE created \cup {f}
        /\ made' = (made \ {<<from, f>>}) \cup ({to} \X ({f} \ copies[to]))
        /\ diskOf' = [diskOf EXCEPT ![f] = NoDisk]
        /\ dest' = [dest EXCEPT ![t] = to]
        /\ Goto(t, "p_link")
  /\ UNCHANGED <<nextFileIndex, targetOf, ranking, relocate, break, accessLock,
                 reassignLock, at, scan>>

(* Second read, as the argument of workload_assign_file_to_disk: it may be *)
(* NULL by now, or the disk where the file is; both do nothing.  Else the  *)
(* file is copied: source opened, destination made or truncated; if either *)
(* cannot be opened the move is given up.  Then workload_deassign_file     *)
(* deletes the old path, only if a move had created it.                    *)
MoveFile(t) ==
  LET f == at[t]
      from == diskOf[f]
      to == targetOf[f]
      copied == [copies EXCEPT ![to] = @ \cup {f}]
  IN
  /\ pc[t] = "p_move"
  /\ \/ /\ to \in {NoDisk, from} \/ MovesFail \/ f \notin copies[from]
        /\ Goto(t, "p_clear")
        /\ UNCHANGED <<storage, dest>>
     \/ /\ to \notin {NoDisk, from}
        /\ f \in copies[from]
        /\ copies' = IF f \in created
                     THEN [copied EXCEPT ![from] = @ \ {f}] ELSE copied
        /\ created' = IF f \in copies[to] THEN created \ {f} ELSE created \cup {f}
        /\ made' = (made \ {<<from, f>>}) \cup ({to} \X ({f} \ copies[to]))
        /\ diskOf' = [diskOf EXCEPT ![f] = NoDisk]
        /\ dest' = [dest EXCEPT ![t] = to]
        /\ Goto(t, "p_link")
  /\ UNCHANGED <<nextFileIndex, targetOf, ranking, relocate, break, accessLock,
                 reassignLock, at, scan>>

(* The moved file is assigned to its new disk.                             *)
LinkFile(t) ==
  /\ pc[t] = "p_link"
  /\ diskOf' = [diskOf EXCEPT ![at[t]] = dest[t]]
  /\ dest' = [dest EXCEPT ![t] = NoDisk]
  /\ Goto(t, "p_stamp")
  /\ UNCHANGED <<nextFileIndex, created, copies, made, targetOf, ranking, relocate, break,
                 accessLock, reassignLock, at, scan>>

(* Time stamps and database, under m_reassign_lock.                        *)
StampFile(t) ==
  /\ pc[t] = "p_stamp"
  /\ reassignLock = Free
  /\ Goto(t, "p_clear")
  /\ UNCHANGED <<nextFileIndex, storage, targetOf, ranking, relocate, break,
                 accessLock, reassignLock, locals, scan>>

(* Whatever came of it, the target is forgotten.                           *)
ClearTarget(t) ==
  /\ pc[t] = "p_clear"
  /\ targetOf' = [targetOf EXCEPT ![at[t]] = NoDisk]
  /\ Goto(t, "p_next")
  /\ UNCHANGED <<nextFileIndex, storage, ranking, relocate, break, accessLock,
                 reassignLock, locals, scan>>

(* Mutant: the list of files is walked one step too far.                   *)
PassNext_OffByOne(t) ==
  /\ pc[t] = "p_next"
  /\ accessLock' = [accessLock EXCEPT ![at[t]] = Free]
  /\ IF at[t] <= NFiles
     THEN /\ at' = [at EXCEPT ![t] = @ + 1]
          /\ Goto(t, "p_lock")
     ELSE /\ at' = [at EXCEPT ![t] = 1]
          /\ Goto(t, "idle")
  /\ UNCHANGED <<nextFileIndex, storage, targetOf, ranking, relocate, break,
                 reassignLock, dest, scan>>

PassNext(t) ==
  /\ pc[t] = "p_next"
  /\ accessLock' = [accessLock EXCEPT ![at[t]] = Free]
  /\ IF at[t] < NFiles
     THEN /\ at' = [at EXCEPT ![t] = @ + 1]
          /\ Goto(t, "p_lock")
     ELSE /\ at' = [at EXCEPT ![t] = 1]
          /\ Goto(t, "idle")
  /\ UNCHANGED <<nextFileIndex, storage, targetOf, ranking, relocate, break,
                 reassignLock, dest, scan>>

-----------------------------------------------------------------------------
(* The main thread: commands from the keyboard or the control socket.      *)

(* Commands are taken until the socket and the keyboard are silent, also   *)
(* when the program has been told to break meanwhile.                      *)
MainIdle == pc[Main] = "idle"

(* o: one pass now.                                                        *)
OneshotRelocate ==
  /\ "o" \in Commands /\ MainIdle
  /\ Goto(Main, "p_lock")
  /\ UNCHANGED <<nextFileIndex, storage, targetOf, ranking, relocate, break,
                 accessLock, reassignLock, locals, scan>>

(* r, S, K: set m_relocate under m_control_lock, ...                       *)
SetRelocate(on) ==
  /\ MainIdle
  /\ \/ "r" \in Commands /\ on = ~relocate
     \/ "S" \in Commands /\ on
     \/ "K" \in Commands /\ ~on
  /\ relocate' = on
  /\ Goto(Main, "m_zero")
  /\ UNCHANGED <<nextFileIndex, storage, targetOf, ranking, break, accessLock,
                 reassignLock, locals, scan>>

(* ... then zero the disks' counters under m_reassign_lock, and run a pass *)
(* when relocation was switched on.  Only the main thread changes relocate.*)
ZeroDisks ==
  /\ pc[Main] = "m_zero"
  /\ reassignLock = Free
  /\ Goto(Main, IF relocate THEN "p_lock" ELSE "idle")
  /\ UNCHANGED <<nextFileIndex, storage, targetOf, ranking, relocate, break,
                 accessLock, reassignLock, locals, scan>>

(* !: all counts go to zero; the order of the files stays.                 *)
ResetCounts ==
  /\ "!" \in Commands /\ MainIdle
  /\ reassignLock = Free
  /\ count' = [f \in Files |-> 0]
  /\ UNCHANGED <<nextFileIndex, storage, targetOf, sorted, index, relocate, break,
                 accessLock, reassignLock, pc, locals, scan>>

(* A signal, the q key or the end of the duration.                         *)
Break ==
  /\ ~break
  /\ break' = TRUE
  /\ UNCHANGED <<nextFileIndex, storage, targetOf, ranking, relocate, accessLock,
                 reassignLock, pc, locals, scan>>

(* The main loop is left; the program goes on to close its services.       *)
StopMain ==
  /\ pc[Main] = "idle"
  /\ break
  /\ Goto(Main, "done")
  /\ UNCHANGED <<nextFileIndex, storage, targetOf, ranking, relocate, break,
                 accessLock, reassignLock, locals, scan>>

-----------------------------------------------------------------------------
AccessStep(t) ==
  \/ PickFile(t) \/ StopService(t)
  \/ LockFile(t) \/ AccessFile(t) \/ CountAccess(t)
  \/ ReadDisk(t) \/ WriteTarget(t)
  \/ UnlockFile(t) \/ CheckRelocate(t)

PassStep(t) ==
  \/ PassLock(t) \/ PassCheck(t) \/ MoveFile(t) \/ LinkFile(t)
  \/ StampFile(t) \/ ClearTarget(t) \/ PassNext(t)

Command ==
  \/ OneshotRelocate
  \/ \E on \in BOOLEAN : SetRelocate(on)
  \/ ResetCounts

Done == (\A t \in Threads : pc[t] = "done") /\ UNCHANGED vars

Next ==
  \/ \E t \in Workers : AccessStep(t)
  \/ \E t \in Threads : PassStep(t)
  \/ Command \/ ZeroDisks \/ Break \/ StopMain
  \/ Done

Spec == Init /\ [][Next]_vars

(* Every thread keeps being scheduled, and whoever sends commands pauses   *)
(* long enough for the main loop to look at the break flag.                *)
Fairness ==
  /\ \A t \in Workers : WF_vars(AccessStep(t))
  /\ \A t \in Threads : WF_vars(PassStep(t))
  /\ WF_vars(ZeroDisks)
  /\ SF_vars(StopMain)

FairSpec == Spec /\ Fairness

-----------------------------------------------------------------------------
(* Every variable keeps its type.                                          *)
PCs == {"idle", "done", "lock", "access", "count", "read", "write", "unlock", "check",
        "p_lock", "p_check", "p_move", "p_link", "p_stamp", "p_clear", "p_next", "m_zero"}

TypeOK ==
  /\ nextFileIndex \in [Disks -> 0 .. NFiles]
  /\ diskOf \in [Files -> Disks \cup {NoDisk}]
  /\ targetOf \in [Files -> Disks \cup {NoDisk}]
  /\ created \in SUBSET Files
  /\ copies \in [Disks -> SUBSET Files]
  /\ made \in SUBSET (Disks \X Files)
  /\ count \in [Files -> Nat]
  /\ sorted \in [Files -> Files]
  /\ index \in [Files -> Files]
  /\ relocate \in BOOLEAN /\ break \in BOOLEAN
  /\ accessLock \in [Files -> Threads \cup {Free}]
  /\ reassignLock \in Threads \cup {Free}
  /\ pc \in [Threads -> PCs]
  /\ at \in [Threads -> Files]
  /\ dest \in [Threads -> Disks \cup {NoDisk}]
  /\ rank \in Files
  /\ seen \in Disks \cup {NoDisk}

(* The order of files by use (workload.h 50, 239): m_index is the place of *)
(* a file in m_file_sorted, and no file stands above a more used one,      *)
(* though each access only lets one file climb and a reset keeps the order.*)
RankedByUse ==
  /\ \A f \in Files : sorted[index[f]] = f
  /\ \A r \in Files : index[sorted[r]] = r
  /\ \A r \in Files \ {NFiles} : count[sorted[r]] >= count[sorted[r + 1]]

(* A file's data is never lost by moving it back and forth between disks   *)
(* that may hold older copies: an assigned file is at its path, a file on  *)
(* its way is at its destination (workload_file.c 218-277).                *)
NeverLost ==
  /\ \A f \in Files : diskOf[f] # NoDisk => f \in copies[diskOf[f]]
  /\ \A t \in Threads : pc[t] = "p_link" => at[t] \in copies[dest[t]]

(* While a thread accesses and counts a file, the disk pointer it checked  *)
(* first stays non-NULL (workload_access.c 43, 58-60, 111-113) and no pass *)
(* is moving the file.                                                     *)
AccessedFileStays ==
  \A t \in Threads : pc[t] \in {"count", "read", "write"} => diskOf[at[t]] # NoDisk

(* A path is deleted only if a move of this run made it (O_EXCL, line 218): *)
(* files that were on a disk before, whoever put them there, are left.     *)
DeletesOnlyMoved ==
  [][\A d \in Disks : \A f \in copies[d] \ copies'[d] : <<d, f>> \in made]_vars

(* What the README calls a file move (README.md 203): the file leaves the  *)
(* disk it comes from.                                                     *)
MoveLeavesNoCopy ==
  [][\A f \in Files : diskOf[f] # NoDisk /\ diskOf'[f] = NoDisk
                         => f \notin copies'[diskOf[f]]]_vars

(* Locks are taken in the order m_access_lock, m_reassign_lock: a thread   *)
(* that waits for a file's lock holds no lock at all, and the holder of    *)
(* m_reassign_lock waits for nothing.                                      *)
LockOrder ==
  \A t \in Threads :
    pc[t] \in {"lock", "p_lock", "idle", "m_zero", "done"} =>
      /\ reassignLock # t
      /\ \A f \in Files : accessLock[f] # t

(* Between two turns of the access services, once an access was counted:   *)
(* with relocation on every file lies on the disk its use entitles it to,  *)
(* with relocation off it lies there or has that disk as its target, so a  *)
(* later pass will bring it there.                                         *)
Settled ==
  (\A t \in Threads : pc[t] = "idle") /\ (\E f \in Files : count[f] > 1) =>
    \A f \in Files : LET d == DiskOfRank(index[f]) IN
      diskOf[f] = d \/ (~relocate /\ targetOf[f] = d)

(* Once the program breaks every access service returns: close_service,    *)
(* which waits for ever, is sure to end.                                   *)
ServicesStop == break ~> \A t \in Workers : pc[t] = "done"
=============================================================================
