------------------------------ MODULE Database ------------------------------
(***************************************************************************)
(* The database that mirrors the files and disks: workload_db.c, db.c, and *)
(* the places that call workload_update_db.  A file has a row with its     *)
(* disk and count, a disk one with its count; a row is inserted when it is *)
(* first written and updated as a whole from then on.                      *)
(*                                                                         *)
(* workload_update_db is called under m_reassign_lock, but the disk of a   *)
(* file changes under the file's own lock, so what a statement says may be *)
(* old when it is executed.  SQLite is shared with processes that dump the *)
(* tables: while one reads, statements find it busy and are retried.       *)
(*                                                                         *)
(* Left out: names and paths in the rows, and the number of files of a     *)
(* disk.  A statement is formatted from one look at the file's disk, as    *)
(* in a build that reads m_assign_disk once for the test and its use.      *)
(***************************************************************************)
EXTENDS Naturals, Sequences

CONSTANTS
  FileCount, DiskCount,
  Services,    \* access services
  Main,        \* the main thread
  Backends,    \* types of <meta> in the configurations, None: no database
  Failing,     \* may a statement fail?
  MaxCount,    \* bound on the accesses counted per file
  None

Threads == Services \cup {Main}
Files   == {"file"} \X (1..FileCount)
Disks   == {"disk"} \X (1..DiskCount)
Rows    == Files \cup Disks

ASSUME DatabaseAssumption ==
  /\ FileCount \in Nat \ {0} /\ DiskCount \in Nat \ {0} /\ MaxCount \in Nat \ {0}
  /\ Main \notin Services
  /\ Backends \subseteq {"sqlite3", "mysql", None}
  /\ Failing \in BOOLEAN
  /\ None \notin Rows \cup Threads \cup {"sqlite3", "mysql"}

VARIABLES
  db,         \* None or the type of the open database
  row,        \* its rows
  inserted,   \* files and disks with the inserted flag
  reading,    \* is another process dumping the tables?
  diskOf, count, total,   \* m_assign_disk, counts of a file and of a disk
  pc, file,   \* where each thread is and the file it has locked
  target,     \* the disk a service moves its file to
  lock,       \* holder of m_reassign_lock
  calls,      \* what the holder has yet to write
  stmt,       \* the statement it executes
  spoiled     \* history: rows whose last statement failed or was skipped

tables == <<db, row, inserted, spoiled>>
data   == <<diskOf, count, total>>
writer == <<lock, calls, stmt>>
vars   == <<tables, reading, data, pc, file, target, writer>>

Empty == [disk |-> None, count |-> 0]

Init ==
  /\ db = None
  /\ row = [x \in Rows |-> None]
  /\ inserted = {} /\ spoiled = {}
  /\ reading = FALSE
  /\ diskOf = [f \in Files |-> None]
  /\ count = [f \in Files |-> 0] /\ total = [d \in Disks |-> 0]
  /\ pc = [t \in Threads |-> IF t = Main THEN "open" ELSE "idle"]
  /\ file = [t \in Threads |-> None] /\ target = [s \in Services |-> None]
  /\ lock = None /\ calls = <<>> /\ stmt = None

-----------------------------------------------------------------------------
(* A call of workload_update_db: the row of the file, then that of the     *)
(* disk that the file has by then, or of the disk that is given, which is  *)
(* the file's own as its lock is held.                                     *)

FileRow(f) == [kind |-> "row", of |-> f]
DiskRow(d) == [kind |-> "row", of |-> d]
ItsDisk(f) == [kind |-> "its_disk", of |-> f]

UpdateFile(f)    == [rows |-> <<FileRow(f), ItsDisk(f)>>, zero |-> FALSE]
UpdateBoth(f, d) == [rows |-> <<FileRow(f), DiskRow(d)>>, zero |-> FALSE]

ResetFile(f) == [UpdateFile(f) EXCEPT !.zero = TRUE]
ResetDisk(d) == [rows |-> <<DiskRow(d)>>, zero |-> TRUE]

(* Mutant: m_reassign_lock is not waited for.                              *)
LockAndWrite_NoWait(t, c) ==
  /\ lock' = t /\ calls' = c
  /\ pc' = [pc EXCEPT ![t] = "writing"]
  /\ UNCHANGED stmt

LockAndWrite(t, c) ==
  /\ lock = None
  /\ lock' = t /\ calls' = c
  /\ pc' = [pc EXCEPT ![t] = "writing"]
  /\ UNCHANGED stmt

-----------------------------------------------------------------------------
(* Loading: the database is opened and its tables made anew.               *)

OpenDb ==
  /\ pc[Main] = "open"
  /\ \E b \in Backends :
       \/ /\ db' = b
          /\ pc' = [pc EXCEPT ![Main] = IF b = None THEN "assign" ELSE "reset"]
       \/ b # None /\ pc' = [pc EXCEPT ![Main] = "exit"] /\ UNCHANGED db
  /\ UNCHANGED <<row, inserted, spoiled, reading, data, file, target, writer>>

(* A statement that fails in SQLite returns a positive code, which is      *)
(* taken for success; with MySQL the load gives up if it is verbose, and   *)
(* goes on without a database if it is not.                                *)
ResetDb ==
  /\ pc[Main] = "reset"
  /\ db = "sqlite3" => ~reading
  /\ \E dropped \in SUBSET {Files, Disks} :
       /\ row' = [x \in Rows |-> IF \E T \in dropped : x \in T THEN None ELSE row[x]]
       /\ \/ /\ dropped = {Files, Disks} \/ (Failing /\ db = "sqlite3")
             /\ pc' = [pc EXCEPT ![Main] = "assign"]
             /\ UNCHANGED db
          \/ /\ Failing /\ db = "mysql"
             /\ \/ pc' = [pc EXCEPT ![Main] = "exit"] /\ UNCHANGED db
                \/ pc' = [pc EXCEPT ![Main] = "assign"] /\ db' = None
  /\ UNCHANGED <<inserted, spoiled, reading, data, file, target, writer>>

(* Each file is assigned to a disk, which writes its row.                  *)
Assign ==
  /\ pc[Main] = "assign"
  /\ IF \A f \in Files : diskOf[f] # None
     THEN pc' = [pc EXCEPT ![Main] = "serve"] /\ UNCHANGED <<diskOf, file>>
     ELSE \E f \in Files, d \in Disks :
            /\ diskOf[f] = None
            /\ diskOf' = [diskOf EXCEPT ![f] = d]
            /\ file' = [file EXCEPT ![Main] = f]
            /\ pc' = [pc EXCEPT ![Main] = "linked"]
  /\ UNCHANGED <<tables, reading, count, total, target, writer>>

(* A restart: the services are closed, files and disks freed.              *)
Reload ==
  /\ pc[Main] = "serve"
  /\ \A s \in Services : pc[s] = "idle"
  /\ db' = None /\ inserted' = {} /\ spoiled' = {}
  /\ diskOf' = [f \in Files |-> None]
  /\ count' = [f \in Files |-> 0] /\ total' = [d \in Disks |-> 0]
  /\ pc' = [pc EXCEPT ![Main] = "open"]
  /\ UNCHANGED <<row, reading, file, target, writer>>

Exited == pc[Main] = "exit" /\ UNCHANGED vars

-----------------------------------------------------------------------------
(* The main thread resets the counts, of all files and disks or, when the  *)
(* relocation mode changes, of the disks; it locks no file.                *)

ResetDisks == [i \in 1..DiskCount |-> ResetDisk(<<"disk", i>>)]
ResetFiles == [i \in 1..FileCount |-> ResetFile(<<"file", i>>)]

ResetCounts ==
  /\ pc[Main] = "serve"
  /\ LockAndWrite(Main, ResetFiles \o ResetDisks) \/ LockAndWrite(Main, ResetDisks)
  /\ UNCHANGED <<tables, reading, data, file, target>>

-----------------------------------------------------------------------------
(* A service works on a file it has locked.                                *)

Serving == pc[Main] = "serve" \/ (pc[Main] = "writing" /\ file[Main] = None)

LockFile(s) ==
  /\ pc[s] = "idle" /\ Serving
  /\ \E f \in Files :
       /\ \A t \in Services : file[t] # f
       /\ file' = [file EXCEPT ![s] = f]
  /\ pc' = [pc EXCEPT ![s] = "locked"]
  /\ UNCHANGED <<tables, reading, data, target, writer>>

(* Mutant: only the file's row is written.                                 *)
CountAccess_FileOnly(s) ==
  LET f == file[s] d == diskOf[file[s]] IN
  /\ pc[s] = "locked" /\ count[f] < MaxCount /\ total[d] < FileCount * MaxCount
  /\ count' = [count EXCEPT ![f] = @ + 1]
  /\ total' = [total EXCEPT ![d] = @ + 1]
  /\ LockAndWrite(s, <<[UpdateBoth(f, d) EXCEPT !.rows = <<FileRow(f)>>]>>)
  /\ UNCHANGED <<tables, reading, diskOf, file, target>>

(* An access, or the first write of a disk service, is counted.            *)
CountAccess(s) ==
  LET f == file[s] d == diskOf[file[s]] IN
  /\ pc[s] = "locked" /\ count[f] < MaxCount /\ total[d] < FileCount * MaxCount
  /\ count' = [count EXCEPT ![f] = @ + 1]
  /\ total' = [total EXCEPT ![d] = @ + 1]
  /\ LockAndWrite(s, <<UpdateBoth(f, d)>>)
  /\ UNCHANGED <<tables, reading, diskOf, file, target>>

(* A move takes the file off its disk, puts it on another one and then     *)
(* writes the rows of the file and of the new disk.                        *)
Unlink(s) ==
  /\ pc[s] = "locked"
  /\ \E d \in Disks \ {diskOf[file[s]]} : target' = [target EXCEPT ![s] = d]
  /\ diskOf' = [diskOf EXCEPT ![file[s]] = None]
  /\ pc' = [pc EXCEPT ![s] = "unlinked"]
  /\ UNCHANGED <<tables, reading, count, total, file, writer>>

Link(s) ==
  /\ pc[s] = "unlinked"
  /\ diskOf' = [diskOf EXCEPT ![file[s]] = target[s]]
  /\ target' = [target EXCEPT ![s] = None]
  /\ pc' = [pc EXCEPT ![s] = "linked"]
  /\ UNCHANGED <<tables, reading, count, total, file, writer>>

(* Mutant: the row of the new disk alone is written.                       *)
WriteLinked_DiskOnly(t) ==
  /\ pc[t] = "linked"
  /\ LockAndWrite(t, <<[UpdateFile(file[t]) EXCEPT !.rows = <<ItsDisk(file[t])>>]>>)
  /\ UNCHANGED <<tables, reading, data, file, target>>

WriteLinked(t) ==
  /\ pc[t] = "linked"
  /\ LockAndWrite(t, <<UpdateFile(file[t])>>)
  /\ UNCHANGED <<tables, reading, data, file, target>>

(* Nothing was read or written, or there is nothing to move.               *)
LeaveFile(s) ==
  /\ pc[s] = "locked"
  /\ pc' = [pc EXCEPT ![s] = "idle"]
  /\ file' = [file EXCEPT ![s] = None]
  /\ UNCHANGED <<tables, reading, data, target, writer>>

-----------------------------------------------------------------------------
(* Writing, under m_reassign_lock.                                         *)

SkipRow ==
  calls' = IF Len(calls[1].rows) = 1 THEN Tail(calls)
           ELSE [calls EXCEPT ![1].rows = Tail(@)]

Resolve(r) == IF r.kind = "row" THEN r.of ELSE diskOf[r.of]

(* What a row should say of its file or disk.                              *)
Current(x) == IF x \in Files THEN [disk |-> diskOf[x], count |-> count[x]]
              ELSE [disk |-> None, count |-> total[x]]

(* The count of the next file or disk to be written is cleared first.      *)
ClearCount ==
  /\ calls # <<>> /\ calls[1].zero
  /\ LET x == calls[1].rows[1].of
     IN IF x \in Files THEN count' = [count EXCEPT ![x] = 0] /\ UNCHANGED total
        ELSE total' = [total EXCEPT ![x] = 0] /\ UNCHANGED count
  /\ calls' = [calls EXCEPT ![1].zero = FALSE]
  /\ UNCHANGED <<tables, reading, diskOf, pc, file, target, lock, stmt>>

(* The next statement is formatted; without a database there is none, and  *)
(* none for the disk of a file that is on no disk at the moment.           *)
Format ==
  /\ calls # <<>> /\ ~calls[1].zero /\ stmt = None
  /\ LET x == Resolve(calls[1].rows[1])
     IN IF db = None THEN calls' = Tail(calls) /\ UNCHANGED stmt
        ELSE IF x = None THEN SkipRow /\ UNCHANGED stmt
        ELSE /\ stmt' = [op |-> IF x \in inserted THEN "update" ELSE "insert", on |-> x,
                         value |-> IF x \in inserted THEN Current(x) ELSE Empty]
             /\ UNCHANGED calls
  /\ UNCHANGED <<tables, reading, data, pc, file, target, lock>>

(* A reader makes SQLite busy; the statement is tried again and again.     *)
Ready == stmt # None /\ (db = "sqlite3" => ~reading)

Taken == stmt.op = "insert" /\ row[stmt.on] # None

Written == IF stmt.op = "insert" \/ row[stmt.on] # None
           THEN [row EXCEPT ![stmt.on] = stmt.value] ELSE row

Succeed ==
  /\ Ready /\ ~Taken
  /\ row' = Written
  /\ IF stmt.op = "insert"
     THEN inserted' = inserted \cup {stmt.on} /\ UNCHANGED <<calls, spoiled>>
     ELSE /\ SkipRow
          /\ spoiled' = IF row[stmt.on] = None THEN spoiled \cup {stmt.on}
                        ELSE spoiled \ {stmt.on}
          /\ UNCHANGED inserted
  /\ stmt' = None
  /\ UNCHANGED <<db, reading, data, pc, file, target, lock>>

(* Mutant: whatever the error, the statement is tried again.               *)
Fail_TriesAgain == Ready /\ (Taken \/ Failing) /\ UNCHANGED vars

(* Callers look for -1.  SQLite's errors are other numbers, so that the    *)
(* code goes on as if the row were there; a MySQL error ends the call, and *)
(* it may be that only the answer got lost.                                *)
Fail ==
  /\ Ready /\ (Taken \/ Failing)
  /\ IF db = "sqlite3"
     THEN /\ IF stmt.op = "insert"
             THEN inserted' = inserted \cup {stmt.on} /\ UNCHANGED calls
             ELSE SkipRow /\ UNCHANGED inserted
          /\ spoiled' = spoiled \cup {stmt.on}
          /\ UNCHANGED row
     ELSE /\ row' \in {row} \cup (IF Taken THEN {} ELSE {Written})
          /\ calls' = Tail(calls)
          /\ spoiled' = (spoiled \cup {stmt.on} \cup
                         {Resolve(calls[1].rows[i]) : i \in DOMAIN calls[1].rows}) \ {None}
          /\ UNCHANGED inserted
  /\ stmt' = None
  /\ UNCHANGED <<db, reading, data, pc, file, target, lock>>

(* All is written: the lock is given back, then the file's.                *)
Unlock ==
  /\ lock # None /\ calls = <<>>
  /\ lock' = None
  /\ pc' = [pc EXCEPT ![lock] = IF lock # Main THEN "idle"
                                ELSE IF file[Main] = None THEN "serve" ELSE "assign"]
  /\ file' = [file EXCEPT ![lock] = None]
  /\ UNCHANGED <<tables, reading, data, target, calls, stmt>>

-----------------------------------------------------------------------------
(* Another process, started with --dump-disk or --dump-file, reads; a      *)
(* MySQL server answers both.                                              *)
DumpStarts ==
  /\ db = "sqlite3" /\ ~reading
  /\ reading' = TRUE
  /\ UNCHANGED <<tables, data, pc, file, target, writer>>

DumpEnds ==
  /\ reading
  /\ reading' = FALSE
  /\ UNCHANGED <<tables, data, pc, file, target, writer>>

Write == ClearCount \/ Format \/ Succeed \/ Fail \/ Unlock

MainThread == OpenDb \/ ResetDb \/ Assign \/ Reload \/ ResetCounts \/ Exited

Service(s) == LockFile(s) \/ CountAccess(s) \/ Unlink(s) \/ Link(s) \/ LeaveFile(s)

Next ==
  \/ MainThread \/ Write \/ DumpStarts \/ DumpEnds
  \/ \E s \in Services : Service(s)
  \/ \E t \in Threads : WriteLinked(t)

Spec == Init /\ [][Next]_vars

(* Dumps end, and a statement that is tried again and again finds the      *)
(* tables free some time; the thread that writes is scheduled.             *)
FairSpec == Spec /\ WF_vars(DumpEnds) /\ SF_vars(Write)

-----------------------------------------------------------------------------
(* What is to be written is known to the holder of the lock alone.         *)
TypeOK ==
  /\ db \in {"sqlite3", "mysql", None}
  /\ row \in [Rows -> [disk : Disks \cup {None}, count : 0..FileCount * MaxCount] \cup {None}]
  /\ inserted \subseteq Rows /\ spoiled \subseteq Rows
  /\ reading \in BOOLEAN
  /\ diskOf \in [Files -> Disks \cup {None}]
  /\ count \in [Files -> 0..MaxCount] /\ total \in [Disks -> 0..FileCount * MaxCount]
  /\ pc \in [Threads -> {"open", "reset", "assign", "serve", "exit",
                         "idle", "locked", "unlinked", "linked", "writing"}]
  /\ file \in [Threads -> Files \cup {None}]
  /\ target \in [Services -> Disks \cup {None}]
  /\ lock \in Threads \cup {None}
  /\ \A t \in Threads : pc[t] = "writing" <=> lock = t
  /\ lock = None => calls = <<>>
  /\ stmt # None => calls # <<>>

Moving(f) == \E t \in Threads : file[t] = f /\ pc[t] \in {"unlinked", "linked"}

(* Between two writers, the row of a file says where the file is and how   *)
(* often it was accessed, unless its last statement failed: a reset that   *)
(* writes what it saw in the middle of a move is always overwritten by the *)
(* move, whatever rows an earlier turn has left.                           *)
RowsFollow ==
  lock = None /\ db # None =>
    \A f \in Files \ spoiled : diskOf[f] # None /\ ~Moving(f) => row[f] = Current(f)

(* Likewise the row of a disk that has one says how often its files were   *)
(* accessed, and a disk without a row was not used.                        *)
DiskRowsFollow ==
  lock = None /\ db # None =>
    \A d \in Disks \ spoiled : IF d \in inserted THEN row[d] = Current(d) ELSE total[d] = 0

(* Whoever takes m_reassign_lock to write gives it back, although dumps    *)
(* make the database busy and statements fail.                             *)
WritesEnd == lock # None ~> lock = None
=============================================================================
