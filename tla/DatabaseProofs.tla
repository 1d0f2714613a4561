---------------------------- MODULE DatabaseProofs ----------------------------
(***************************************************************************)
(* Proofs about Database for any numbers of files, disks and services:     *)
(* whatever moves, accesses, resets and failing statements come between    *)
(* looking at a file and writing its row, the tables follow.               *)
(***************************************************************************)
EXTENDS Database, TLAPS

-----------------------------------------------------------------------------
(* What waits to be written.                                               *)

RowRefs == [kind : {"row"}, of : Rows] \cup [kind : {"its_disk"}, of : Files]

(* A count that is to be cleared is that of the call's first row.          *)
Calls ==
  {c \in [rows : Seq(RowRefs) \ {<<>>}, zero : BOOLEAN] : c.zero => c.rows[1].kind = "row"}

Pending(r) == \E i \in DOMAIN calls : \E j \in DOMAIN calls[i].rows : calls[i].rows[j] = r

Values == [disk : Disks \cup {None}, count : 0..FileCount * MaxCount]

(* A statement carries out the first row of the first call.                *)
Queued ==
  /\ calls \in Seq(Calls)
  /\ lock = None => calls = <<>>
  /\ stmt # None =>
       /\ calls # <<>> /\ ~calls[1].zero
       /\ stmt.on \in Rows /\ stmt.op \in {"insert", "update"}
       /\ IF calls[1].rows[1].kind = "row" THEN stmt.on = calls[1].rows[1].of
          ELSE stmt.on \in Disks
       /\ stmt.op = "insert" <=> stmt.on \notin inserted
       /\ stmt.op = "insert" => stmt.value = Empty
       /\ stmt.value \in Values

(* Where the threads are; a service has the file it locked for itself, and *)
(* none has one before all are assigned.                                   *)
Positions ==
  /\ pc[Main] \in {"open", "reset", "assign", "linked", "writing", "serve", "exit"}
  /\ \A s \in Services : /\ pc[s] \in {"idle", "locked", "unlinked", "linked", "writing"}
                         /\ pc[s] = "idle" <=> file[s] = None
                         /\ pc[s] = "locked" => diskOf[file[s]] # None
                         /\ pc[s] = "unlinked" => target[s] \in Disks
  /\ pc[Main] = "linked" => file[Main] # None
  /\ pc[Main] \in {"open", "reset", "assign", "serve", "exit"} => file[Main] = None
  /\ \A s, u \in Services : file[s] = file[u] /\ file[s] # None => s = u
  /\ IF Serving
     THEN \A f \in Files : diskOf[f] = None =>
            \E s \in Services : file[s] = f /\ pc[s] = "unlinked"
     ELSE \A s \in Services : pc[s] = "idle"

(* A load begins with nothing written, counted or assigned.                *)
Fresh ==
  pc[Main] \in {"open", "reset"} =>
    /\ inserted = {} /\ spoiled = {}
    /\ \A f \in Files : diskOf[f] = None
    /\ \A d \in Disks : total[d] = 0

(* An update brings the row up to date, unless its file is being moved:    *)
(* then the move has yet to write it.                                      *)
StmtCurrent ==
  stmt # None /\ stmt.op = "update" =>
    \/ stmt.value = Current(stmt.on)
    \/ stmt.on \in Files /\ (diskOf[stmt.on] = None \/ Moving(stmt.on))

(* A row that is out of date is waiting to be written.                     *)
FilesFollow ==
  db # None =>
    \A f \in Files \ spoiled :
      diskOf[f] # None /\ ~Moving(f) => row[f] = Current(f) \/ Pending(FileRow(f))

DisksFollow ==
  db # None =>
    \A d \in Disks \ spoiled :
      \/ Pending(DiskRow(d))
      \/ IF d \in inserted THEN row[d] = Current(d) ELSE total[d] = 0

IInv == TypeOK /\ Queued /\ Positions /\ Fresh /\ StmtCurrent /\ FilesFollow /\ DisksFollow

-----------------------------------------------------------------------------
(* Files, disks and threads are told apart from each other and from None.  *)
LEMMA Apart ==
  /\ \A f \in Files : f \notin Disks /\ f # None
  /\ \A d \in Disks : d # None
  /\ \A t \in Threads : t # None
  /\ None \notin {"sqlite3", "mysql"}
  /\ Main \notin Services /\ Main \in Threads
<1>1. \A f \in Files, d \in Disks : f[1] = "file" /\ d[1] = "disk"
  BY DEF Files, Disks
<1>2. \A f \in Files : f \notin Disks
  BY <1>1
<1>3. None \notin Files \cup Disks \cup Threads \cup {"sqlite3", "mysql"}
  BY DatabaseAssumption DEF Rows
<1>. QED  BY <1>2, <1>3, DatabaseAssumption DEF Threads

LEMMA Bounds ==
  /\ FileCount * MaxCount \in Nat /\ MaxCount \in Nat
  /\ \A n \in 0..MaxCount : n \in 0..FileCount * MaxCount
<1>1. FileCount \in Nat /\ FileCount >= 1 /\ MaxCount \in Nat
  BY DatabaseAssumption
<1>2. MaxCount <= FileCount * MaxCount /\ FileCount * MaxCount \in Nat
  BY <1>1
<1>. QED  BY <1>1, <1>2

(* The first row of the first call.                                        *)
LEMMA FirstRow ==
  ASSUME calls \in Seq(Calls), calls # <<>>
  PROVE  /\ 1 \in DOMAIN calls
         /\ calls[1] \in Calls
         /\ calls[1].rows \in Seq(RowRefs) /\ 1 \in DOMAIN calls[1].rows
         /\ calls[1].rows[1] \in RowRefs
<1>1. 1 \in DOMAIN calls /\ calls[1] \in Calls
  OBVIOUS
<1>2. calls[1].rows \in Seq(RowRefs) /\ calls[1].rows # <<>>
  BY <1>1 DEF Calls
<1>. QED  BY <1>1, <1>2

(* When a call is done with, only its rows no longer wait.                 *)
LEMMA CallDone ==
  ASSUME calls \in Seq(Calls), calls # <<>>, calls' = Tail(calls)
  PROVE  /\ calls' \in Seq(Calls)
         /\ \A r : Pending(r) =>
              Pending(r)' \/ \E j \in DOMAIN calls[1].rows : calls[1].rows[j] = r
<1>1. calls' \in Seq(Calls) /\ \A i \in DOMAIN calls : i # 1 => /\ i - 1 \in DOMAIN calls'
                                                              /\ calls'[i - 1] = calls[i]
  OBVIOUS
<1>2. ASSUME NEW r, Pending(r)
      PROVE  Pending(r)' \/ \E j \in DOMAIN calls[1].rows : calls[1].rows[j] = r
  <2>1. PICK i \in DOMAIN calls : \E j \in DOMAIN calls[i].rows : calls[i].rows[j] = r
    BY <1>2 DEF Pending
  <2>2. i # 1 => Pending(r)'
    BY <1>1, <2>1 DEF Pending
  <2>. QED  BY <2>1, <2>2
<1>. QED  BY <1>1, <1>2

LEMMA TailOfMore ==
  ASSUME NEW S, NEW s \in Seq(S), s # <<>>, Len(s) # 1
  PROVE  /\ Tail(s) \in Seq(S) /\ Tail(s) # <<>>
         /\ \A j \in DOMAIN s : j # 1 => j - 1 \in DOMAIN Tail(s) /\ Tail(s)[j - 1] = s[j]
<1>1. Len(s) \in Nat /\ Len(s) > 0
  OBVIOUS
<1>2. Len(s) > 1
  BY <1>1
<1>3. Tail(s) \in Seq(S) /\ Len(Tail(s)) = Len(s) - 1
  OBVIOUS
<1>. QED  BY <1>2, <1>3

LEMMA LessRows ==
  ASSUME NEW c, NEW rows, NEW zero, c = [rows |-> rows, zero |-> zero]
  PROVE  [c EXCEPT !.rows = Tail(@)] = [rows |-> Tail(rows), zero |-> zero]
<1>1. PICK rest : rest = Tail(rows)
  OBVIOUS
<1>2. rest = Tail(c.rows)
  <2>1. c.rows = rows
    OBVIOUS
  <2>. QED  BY <1>1, <2>1
<1>3. [c EXCEPT !.rows = rest] = [rows |-> rest, zero |-> zero]
  OBVIOUS
<1>4. [c EXCEPT !.rows = Tail(@)] = [c EXCEPT !.rows = rest]
  BY <1>2
<1>. QED  BY <1>1, <1>3, <1>4

(* When a row is done with, no other row is.                               *)
LEMMA RowDone ==
  ASSUME calls \in Seq(Calls), calls # <<>>, ~calls[1].zero, SkipRow
  PROVE  /\ calls' \in Seq(Calls)
         /\ \A r : Pending(r) => Pending(r)' \/ r = calls[1].rows[1]
<1>. DEFINE rows == calls[1].rows
            less == [rows |-> Tail(rows), zero |-> calls[1].zero]
<1>1. /\ 1 \in DOMAIN calls /\ rows \in Seq(RowRefs) /\ 1 \in DOMAIN rows /\ calls[1] \in Calls
  BY FirstRow
<1>2. CASE Len(rows) = 1
  <2>1. calls' = Tail(calls)
    BY <1>2 DEF SkipRow
  <2>2. \A j \in DOMAIN rows : j = 1
    BY <1>1, <1>2
  <2>. QED  BY <2>1, <2>2, CallDone
<1>3. CASE Len(rows) # 1
  <2>1. calls' = [calls EXCEPT ![1].rows = Tail(@)]
    BY <1>3 DEF SkipRow
  <2>2. /\ Tail(rows) \in Seq(RowRefs) /\ Tail(rows) # <<>>
        /\ \A j \in DOMAIN rows : j # 1 => /\ j - 1 \in DOMAIN Tail(rows)
                                           /\ Tail(rows)[j - 1] = rows[j]
    BY <1>1, <1>3, TailOfMore
  <2>3. [calls[1] EXCEPT !.rows = Tail(@)] = less
    <3>1. calls[1] \in [rows : Seq(RowRefs) \ {<<>>}, zero : BOOLEAN]
      BY <1>1 DEF Calls
    <3>2. calls[1] = [rows |-> rows, zero |-> calls[1].zero]
      BY <3>1
    <3>. QED  BY <3>2, LessRows
  <2>4. less \in Calls
    BY <1>1, <2>2 DEF Calls
  <2>5. calls' = [calls EXCEPT ![1] = less]
    BY <2>1, <2>3
  <2>6. calls' \in Seq(Calls)
    BY <2>4, <2>5
  <2>7. /\ DOMAIN calls' = DOMAIN calls /\ calls'[1].rows = Tail(rows)
        /\ \A i \in DOMAIN calls : i # 1 => calls'[i] = calls[i]
    BY <1>1, <2>5
  <2>8. ASSUME NEW r, Pending(r), r # rows[1] PROVE Pending(r)'
    <3>1. PICK i \in DOMAIN calls : \E j \in DOMAIN calls[i].rows : calls[i].rows[j] = r
      BY <2>8 DEF Pending
    <3>2. PICK j \in DOMAIN calls[i].rows : calls[i].rows[j] = r
      BY <3>1
    <3>3. CASE i = 1
      <4>1. j - 1 \in DOMAIN calls'[1].rows /\ calls'[1].rows[j - 1] = r
        BY <2>2, <2>7, <2>8, <3>2, <3>3
      <4>. QED  BY <1>1, <2>7, <4>1 DEF Pending
    <3>4. CASE i # 1
      BY <2>7, <3>1, <3>4 DEF Pending
    <3>. QED  BY <3>3, <3>4
  <2>. QED  BY <2>6, <2>8
<1>. QED  BY <1>2, <1>3

-----------------------------------------------------------------------------
(* Types.                                                                  *)

LEMMA LockTaken ==
  ASSUME TypeOK, NEW t \in Threads, NEW c, LockAndWrite(t, c)
  PROVE  /\ lock = None /\ lock' = t /\ calls' = c /\ calls = <<>> /\ stmt = None /\ stmt' = None
         /\ pc' = [pc EXCEPT ![t] = "writing"] /\ pc' \in [Threads -> {"open", "reset", "assign",
              "serve", "exit", "idle", "locked", "unlinked", "linked", "writing"}]
         /\ \A u \in Threads : pc'[u] = "writing" <=> lock' = u
BY Apart DEF TypeOK, LockAndWrite

LEMMA CurrentTypes == ASSUME TypeOK, NEW x \in Rows PROVE Current(x) \in Values
<1>1. CASE x \in Files
  BY <1>1, Bounds DEF TypeOK, Current, Values
<1>2. CASE x \in Disks /\ x \notin Files
  BY <1>2 DEF TypeOK, Current, Values
<1>. QED  BY <1>1, <1>2 DEF Rows

LEMMA EmptyValue == Empty \in Values
BY Bounds DEF Empty, Values

LEMMA TypesInit == Init => TypeOK
<1>. SUFFICES ASSUME Init PROVE TypeOK
  OBVIOUS
<1>1. 0 \in 0..MaxCount /\ 0 \in 0..FileCount * MaxCount
  BY Bounds
<1>2. /\ row \in [Rows -> [disk : Disks \cup {None}, count : 0..FileCount * MaxCount] \cup {None}]
      /\ diskOf \in [Files -> Disks \cup {None}]
      /\ count \in [Files -> 0..MaxCount] /\ total \in [Disks -> 0..FileCount * MaxCount]
      /\ file \in [Threads -> Files \cup {None}]
      /\ target \in [Services -> Disks \cup {None}]
  BY <1>1 DEF Init
<1>3. pc \in [Threads -> {"open", "idle"}] /\ \A t \in Threads : lock # t
  BY Apart DEF Init
<1>. QED  BY <1>2, <1>3 DEF Init, TypeOK

(* Reset, assign and reload: no thread writes.                             *)
LEMMA MainThreadTypes == TypeOK /\ Queued /\ MainThread => TypeOK'
<1>. SUFFICES ASSUME TypeOK, Queued, MainThread PROVE TypeOK'
  OBVIOUS
<1>. USE Apart
<1>1. CASE OpenDb
  <2>1. pc' \in [Threads -> {"open", "reset", "assign", "serve", "exit", "idle", "locked",
                             "unlinked", "linked", "writing"}]
        /\ db' \in {"sqlite3", "mysql", None}
    BY <1>1, DatabaseAssumption DEF OpenDb, TypeOK
  <2>2. \A t \in Threads : pc'[t] = "writing" <=> lock' = t
    BY <1>1 DEF OpenDb, TypeOK, writer
  <2>. QED  BY <1>1, <2>1, <2>2 DEF OpenDb, TypeOK, data, writer
<1>2. CASE ResetDb
  <2>1. PICK dropped \in SUBSET {Files, Disks} :
          row' = [x \in Rows |-> IF \E T \in dropped : x \in T THEN None ELSE row[x]]
    BY <1>2 DEF ResetDb
  <2>2. row' \in [Rows -> Values \cup {None}]
    BY <2>1 DEF TypeOK, Values
  <2>3. pc[Main] = "reset" /\ UNCHANGED <<inserted, spoiled, reading, data, file, target, writer>>
        /\ \E l \in {"assign", "exit"} : pc' = [pc EXCEPT ![Main] = l]
        /\ db' \in {db, None}
    BY <1>2 DEF ResetDb
  <2>4. \A t \in Threads : pc'[t] = "writing" <=> lock' = t
    BY <2>3 DEF TypeOK, writer
  <2>. QED  BY <2>2, <2>3, <2>4 DEF TypeOK, Values, data, writer
<1>3. CASE Assign
  <2>1. /\ pc' \in [Threads -> {"open", "reset", "assign", "serve", "exit", "idle", "locked",
                              "unlinked", "linked", "writing"}]
        /\ diskOf' \in [Files -> Disks \cup {None}] /\ file' \in [Threads -> Files \cup {None}]
    <3>1. CASE \A f \in Files : diskOf[f] # None
      BY <1>3, <3>1 DEF Assign, TypeOK
    <3>2. CASE ~ \A f \in Files : diskOf[f] # None
      <4>1. PICK f \in Files, d \in Disks :
              /\ diskOf' = [diskOf EXCEPT ![f] = d] /\ file' = [file EXCEPT ![Main] = f]
              /\ pc' = [pc EXCEPT ![Main] = "linked"]
        BY <1>3, <3>2 DEF Assign
      <4>. QED  BY <4>1 DEF TypeOK
    <3>. QED  BY <3>1, <3>2
  <2>2. \A t \in Threads : pc'[t] = "writing" <=> lock' = t
    BY <1>3 DEF Assign, TypeOK, writer
  <2>. QED  BY <1>3, <2>1, <2>2 DEF Assign, TypeOK, tables, writer
<1>4. CASE Reload
  BY <1>4, Bounds DEF Reload, TypeOK, writer
<1>5. CASE ResetCounts
  <2>1. PICK c : LockAndWrite(Main, c)
    BY <1>5 DEF ResetCounts
  <2>. QED  BY <1>5, <2>1, LockTaken DEF ResetCounts, TypeOK, tables, data
<1>6. CASE Exited
  BY <1>6 DEF Exited, vars, tables, data, writer, TypeOK
<1>. QED  BY <1>1, <1>2, <1>3, <1>4, <1>5, <1>6 DEF MainThread

LEMMA ServiceTypes ==
  ASSUME TypeOK, Queued, Positions, NEW s \in Services, Service(s)
  PROVE  TypeOK'
<1>. USE Apart DEF Threads
<1>1. CASE LockFile(s)
  BY <1>1 DEF LockFile, TypeOK, tables, data, writer
<1>2. CASE CountAccess(s)
  <2>1. PICK c : LockAndWrite(s, c)
    BY <1>2 DEF CountAccess
  <2>2. file[s] \in Files /\ diskOf[file[s]] \in Disks
    BY <1>2 DEF CountAccess, Positions, TypeOK
  <2>3. count' \in [Files -> 0..MaxCount] /\ total' \in [Disks -> 0..FileCount * MaxCount]
    <3>1. count[file[s]] + 1 \in 0..MaxCount
      BY <1>2, <2>2, Bounds DEF CountAccess, TypeOK
    <3>2. total[diskOf[file[s]]] + 1 \in 0..FileCount * MaxCount
      BY <1>2, <2>2, Bounds DEF CountAccess, TypeOK
    <3>. QED  BY <1>2, <2>2, <3>1, <3>2 DEF CountAccess, TypeOK
  <2>. QED  BY <1>2, <2>1, <2>3, LockTaken DEF CountAccess, TypeOK, tables
<1>3. CASE Unlink(s)
  <2>1. /\ target' \in [Services -> Disks \cup {None}] /\ diskOf' \in [Files -> Disks \cup {None}]
        /\ pc' \in [Threads -> {"open", "reset", "assign", "serve", "exit", "idle", "locked",
                               "unlinked", "linked", "writing"}]
    <3>1. PICK d \in Disks : target' = [target EXCEPT ![s] = d]
      BY <1>3 DEF Unlink
    <3>2. /\ diskOf' = [diskOf EXCEPT ![file[s]] = None]
          /\ pc' = [pc EXCEPT ![s] = "unlinked"]
      BY <1>3 DEF Unlink
    <3>. QED  BY <3>1, <3>2 DEF TypeOK
  <2>2. \A t \in Threads : pc'[t] = "writing" <=> lock' = t
    BY <1>3 DEF Unlink, TypeOK, writer
  <2>. QED  BY <1>3, <2>1, <2>2 DEF Unlink, TypeOK, tables, writer
<1>4. CASE Link(s)
  BY <1>4 DEF Link, TypeOK, tables, writer
<1>5. CASE LeaveFile(s)
  BY <1>5 DEF LeaveFile, TypeOK, tables, data, writer
<1>. QED  BY <1>1, <1>2, <1>3, <1>4, <1>5 DEF Service

LEMMA WrittenTypes ==
  ASSUME TypeOK, Queued, stmt # None
  PROVE  Written \in [Rows -> Values \cup {None}]
BY DEF TypeOK, Queued, Written, Values

LEMMA WriteTypes == TypeOK /\ Queued /\ Write => TypeOK'
<1>. SUFFICES ASSUME TypeOK, Queued, Write PROVE TypeOK'
  OBVIOUS
<1>. USE Apart
<1>1. CASE ClearCount
  <2>1. calls # <<>> /\ lock # None
    BY <1>1 DEF ClearCount, TypeOK
  <2>2. calls' # <<>>
    BY <1>1, FirstRow DEF ClearCount, Queued
  <2>3. count' \in [Files -> 0..MaxCount] /\ total' \in [Disks -> 0..FileCount * MaxCount]
    <3>1. 0 \in 0..MaxCount /\ 0 \in 0..FileCount * MaxCount
      BY Bounds
    <3>. DEFINE x == calls[1].rows[1].of
    <3>2. \/ count' = [count EXCEPT ![x] = 0] /\ total' = total
          \/ total' = [total EXCEPT ![x] = 0] /\ count' = count
      BY <1>1 DEF ClearCount
    <3>. HIDE DEF x
    <3>. QED  BY <3>1, <3>2 DEF TypeOK
  <2>. QED  BY <1>1, <2>1, <2>2, <2>3 DEF ClearCount, TypeOK, tables
<1>2. CASE Format
  <2>1. calls # <<>> /\ lock # None /\ stmt = None
    BY <1>2 DEF Format, TypeOK
  <2>2. stmt' # None => calls' # <<>>
    BY <1>2, <2>1 DEF Format
  <2>. QED  BY <1>2, <2>1, <2>2 DEF Format, TypeOK, tables, data
<1>3. CASE Succeed
  <2>1. stmt # None /\ lock # None
    BY <1>3 DEF Succeed, Ready, TypeOK
  <2>2. row' \in [Rows -> Values \cup {None}]
    BY <1>3, <2>1, WrittenTypes DEF Succeed
  <2>3. inserted' \subseteq Rows /\ spoiled' \subseteq Rows
    BY <1>3, <2>1 DEF Succeed, TypeOK, Queued
  <2>. QED  BY <1>3, <2>1, <2>2, <2>3 DEF Succeed, TypeOK, Values, data
<1>4. CASE Fail
  <2>1. stmt # None /\ lock # None /\ calls # <<>> /\ stmt.on \in Rows
    BY <1>4 DEF Fail, Ready, TypeOK, Queued
  <2>2. row' \in [Rows -> Values \cup {None}]
    BY <1>4, <2>1, WrittenTypes DEF Fail, TypeOK, Values
  <2>3. inserted' \subseteq Rows
    BY <1>4, <2>1 DEF Fail, TypeOK
  <2>4. \A i \in DOMAIN calls[1].rows : Resolve(calls[1].rows[i]) \in Rows \cup {None}
    <3>1. \A i \in DOMAIN calls[1].rows : calls[1].rows[i] \in RowRefs
      BY <2>1, FirstRow DEF Queued
    <3>. QED  BY <3>1 DEF RowRefs, Resolve, TypeOK, Rows
  <2>5. spoiled' \subseteq Rows
    <3>1. CASE db = "sqlite3"
      BY <1>4, <2>1, <3>1 DEF Fail, TypeOK
    <3>2. CASE db # "sqlite3"
      <4>. DEFINE rest == {Resolve(calls[1].rows[i]) : i \in DOMAIN calls[1].rows}
      <4>1. rest \subseteq Rows \cup {None}
        BY <2>4
      <4>2. spoiled' = (spoiled \cup {stmt.on} \cup rest) \ {None}
        BY <1>4, <3>2 DEF Fail
      <4>. HIDE DEF rest
      <4>. QED  BY <2>1, <4>1, <4>2 DEF TypeOK
    <3>. QED  BY <3>1, <3>2
  <2>. QED  BY <1>4, <2>1, <2>2, <2>3, <2>5 DEF Fail, TypeOK, Values, data
<1>5. CASE Unlock
  <2>1. stmt = None /\ lock \in Threads
    BY <1>5 DEF Unlock, Queued, TypeOK
  <2>2. pc' \in [Threads -> {"open", "reset", "assign", "serve", "exit", "idle", "locked",
                             "unlinked", "linked", "writing"}]
        /\ file' \in [Threads -> Files \cup {None}]
    BY <1>5, <2>1 DEF Unlock, TypeOK
  <2>3. \A t \in Threads : pc'[t] # "writing"
    BY <1>5, <2>1 DEF Unlock, TypeOK
  <2>. QED  BY <1>5, <2>1, <2>2, <2>3 DEF Unlock, TypeOK, tables, data
<1>. QED  BY <1>1, <1>2, <1>3, <1>4, <1>5 DEF Write

LEMMA TypesStep == TypeOK /\ Queued /\ Positions /\ [Next]_vars => TypeOK'
<1>. SUFFICES ASSUME TypeOK, Queued, Positions, [Next]_vars PROVE TypeOK'
  OBVIOUS
<1>1. ASSUME NEW t \in Threads, WriteLinked(t) PROVE TypeOK'
  <2>1. LockAndWrite(t, <<UpdateFile(file[t])>>)
    BY <1>1 DEF WriteLinked
  <2>. QED  BY <1>1, <2>1, Apart, LockTaken DEF WriteLinked, TypeOK, tables, data
<1>2. CASE DumpStarts \/ DumpEnds \/ UNCHANGED vars
  BY <1>2 DEF DumpStarts, DumpEnds, vars, tables, data, writer, TypeOK
<1>. QED  BY <1>1, <1>2, MainThreadTypes, ServiceTypes, WriteTypes DEF Next

-----------------------------------------------------------------------------
(* The queue.                                                              *)

LEMMA CallTypes ==
  ASSUME NEW f \in Files, NEW d \in Disks
  PROVE  /\ UpdateFile(f) \in Calls /\ UpdateBoth(f, d) \in Calls
         /\ ResetFile(f) \in Calls /\ ResetDisk(d) \in Calls
<1>1. FileRow(f) \in RowRefs /\ DiskRow(d) \in RowRefs /\ ItsDisk(f) \in RowRefs
  BY DEF FileRow, DiskRow, ItsDisk, RowRefs, Rows
<1>2. FileRow(f).kind = "row" /\ DiskRow(d).kind = "row"
  BY DEF FileRow, DiskRow
<1>3. \A r, q \in RowRefs : \A z \in BOOLEAN :
        r.kind = "row" => /\ [rows |-> <<r, q>>, zero |-> z] \in Calls
                          /\ [rows |-> <<r>>, zero |-> z] \in Calls
  BY DEF Calls
<1>4. UpdateFile(f) \in Calls /\ UpdateFile(f).rows[1].kind = "row"
  BY <1>1, <1>2, <1>3 DEF UpdateFile
<1>5. ASSUME NEW c \in Calls, c.rows[1].kind = "row" PROVE [c EXCEPT !.zero = TRUE] \in Calls
  BY <1>5 DEF Calls
<1>6. ResetFile(f) \in Calls
  BY <1>4, <1>5 DEF ResetFile
<1>. QED  BY <1>1, <1>2, <1>3, <1>6 DEF UpdateFile, UpdateBoth, ResetDisk

LEMMA ResetCalls == ResetFiles \o ResetDisks \in Seq(Calls) /\ ResetDisks \in Seq(Calls)
<1>1. \A i \in 1..FileCount : <<"file", i>> \in Files
  BY DEF Files
<1>2. \A i \in 1..DiskCount : <<"disk", i>> \in Disks
  BY DEF Disks
<1>3. FileCount \in Nat /\ DiskCount \in Nat /\ 1 \in 1..FileCount /\ 1 \in 1..DiskCount
  BY DatabaseAssumption
<1>4. ResetFiles \in Seq(Calls) /\ ResetDisks \in Seq(Calls)
  <2>1. \A i \in 1..FileCount : ResetFile(<<"file", i>>) \in Calls
    BY <1>1, <1>2, <1>3, CallTypes
  <2>2. \A i \in 1..DiskCount : ResetDisk(<<"disk", i>>) \in Calls
    BY <1>1, <1>2, <1>3, CallTypes
  <2>. QED  BY <1>3, <2>1, <2>2 DEF ResetFiles, ResetDisks
<1>. QED  BY <1>4

(* Whoever takes the lock brings well-formed calls.                        *)
LEMMA QueueTaken ==
  ASSUME TypeOK, NEW t \in Threads, NEW c \in Seq(Calls), LockAndWrite(t, c)
  PROVE  Queued'
BY LockTaken, Apart DEF Queued

LEMMA QueuedInit == Init => Queued
BY DEF Init, Queued

LEMMA WriteQueued == TypeOK /\ Queued /\ Write => Queued'
<1>. SUFFICES ASSUME TypeOK, Queued, Write PROVE Queued'
  OBVIOUS
<1>1. CASE ClearCount
  <2>. DEFINE c == calls[1]
  <2>1. /\ 1 \in DOMAIN calls /\ c \in Calls /\ calls # <<>> /\ calls[1].zero
        /\ calls' = [calls EXCEPT ![1].zero = FALSE]
    BY <1>1, FirstRow DEF ClearCount, Queued
  <2>2. [c EXCEPT !.zero = FALSE] \in Calls
    BY <2>1 DEF Calls
  <2>3. calls' = [calls EXCEPT ![1] = [c EXCEPT !.zero = FALSE]]
    BY <2>1
  <2>4. calls' \in Seq(Calls)
    BY <2>1, <2>2, <2>3 DEF Queued
  <2>5. stmt' = None /\ lock' # None
    BY <1>1, <2>1 DEF ClearCount, Queued
  <2>. QED  BY <2>4, <2>5 DEF Queued
<1>2. CASE Format
  <2>. DEFINE r == calls[1].rows[1]
  <2>1. calls # <<>> /\ ~calls[1].zero /\ stmt = None /\ lock' # None
    BY <1>2 DEF Format, Queued
  <2>2. r \in RowRefs /\ Resolve(r) \in Rows \cup {None}
    BY <2>1, FirstRow DEF Queued, RowRefs, Resolve, TypeOK, Rows
  <2>3. CASE stmt' = None
    <3>1. calls' \in Seq(Calls)
      <4>1. calls' = Tail(calls) \/ SkipRow \/ calls' = calls
        BY <1>2 DEF Format
      <4>. QED  BY <2>1, <4>1, CallDone, RowDone DEF Queued
    <3>. QED  BY <2>1, <2>3, <3>1 DEF Queued
  <2>4. CASE stmt' # None
    <3>. DEFINE x == Resolve(r)
    <3>1. /\ calls' = calls /\ inserted' = inserted /\ x # None
          /\ stmt' = [op |-> IF x \in inserted THEN "update" ELSE "insert", on |-> x,
                      value |-> IF x \in inserted THEN Current(x) ELSE Empty]
      BY <1>2, <2>1, <2>4 DEF Format, tables
    <3>2. x \in Rows
      BY <2>2, <3>1
    <3>3. IF r.kind = "row" THEN x = r.of ELSE x \in Disks
      BY <2>2, <3>1 DEF Resolve, RowRefs, TypeOK
    <3>4. stmt'.value \in Values
      BY <3>1, <3>2, CurrentTypes, EmptyValue
    <3>. HIDE DEF x, r
    <3>5. /\ stmt'.on = x /\ stmt'.op \in {"insert", "update"}
          /\ stmt'.op = "insert" <=> x \notin inserted
          /\ stmt'.op = "insert" => stmt'.value = Empty
      BY <3>1
    <3>. QED  BY <2>1, <3>1, <3>2, <3>3, <3>4, <3>5 DEF Queued, Values, r
  <2>. QED  BY <2>3, <2>4
<1>3. CASE Succeed \/ Fail
  <2>1. stmt # None /\ stmt' = None /\ calls # <<>> /\ ~calls[1].zero /\ lock' # None
    BY <1>3 DEF Succeed, Fail, Ready, Queued
  <2>2. calls' = Tail(calls) \/ SkipRow \/ calls' = calls
    BY <1>3 DEF Succeed, Fail
  <2>3. calls' \in Seq(Calls)
    BY <2>1, <2>2, CallDone, RowDone DEF Queued
  <2>. QED  BY <2>1, <2>3 DEF Queued
<1>4. CASE Unlock
  BY <1>4 DEF Unlock, Queued
<1>. QED  BY <1>1, <1>2, <1>3, <1>4 DEF Write

LEMMA QueuedStep == TypeOK /\ Queued /\ Positions /\ [Next]_vars => Queued'
<1>. SUFFICES ASSUME TypeOK, Queued, Positions, [Next]_vars PROVE Queued'
  OBVIOUS
<1>1. CASE ResetCounts
  BY <1>1, ResetCalls, QueueTaken, Apart DEF ResetCounts
<1>2. ASSUME NEW s \in Services, CountAccess(s) PROVE Queued'
  <2>1. file[s] \in Files /\ diskOf[file[s]] \in Disks
    BY <1>2, Apart DEF CountAccess, Positions, TypeOK, Threads
  <2>2. <<UpdateBoth(file[s], diskOf[file[s]])>> \in Seq(Calls)
    BY <2>1, CallTypes
  <2>. QED  BY <1>2, <2>2, QueueTaken DEF CountAccess, Threads
<1>3. ASSUME NEW t \in Threads, WriteLinked(t) PROVE Queued'
  <2>1. file[t] \in Files
    BY <1>3, Apart DEF WriteLinked, Positions, TypeOK, Threads
  <2>2. PICK d : d \in Disks
    <3>1. 1 \in 1..DiskCount
      BY DatabaseAssumption
    <3>2. <<"disk", 1>> \in Disks
      BY <3>1 DEF Disks
    <3>. QED  BY <3>2
  <2>3. <<UpdateFile(file[t])>> \in Seq(Calls)
    BY <2>1, <2>2, CallTypes
  <2>. QED  BY <1>3, <2>3, QueueTaken DEF WriteLinked
<1>4. CASE Write
  BY <1>4, WriteQueued
<1>5. CASE \/ OpenDb \/ ResetDb \/ Assign \/ DumpStarts \/ DumpEnds \/ Exited \/ UNCHANGED vars
           \/ \E s \in Services : LockFile(s) \/ Unlink(s) \/ Link(s) \/ LeaveFile(s)
  BY <1>5 DEF OpenDb, ResetDb, Assign, DumpStarts, DumpEnds, Exited, LockFile, Unlink, Link,
              LeaveFile, vars, tables, data, writer, Queued, Values
<1>6. CASE Reload
  <2>1. lock = None
    BY <1>6, Apart DEF Reload, TypeOK, Threads
  <2>. QED  BY <1>6, <2>1 DEF Reload, Queued, writer
<1>. QED  BY <1>1, <1>2, <1>3, <1>4, <1>5, <1>6 DEF Next, MainThread, Service

-----------------------------------------------------------------------------
(* Where the threads are.                                                  *)

LEMMA PositionsInit == Init => Positions
BY Apart DEF Init, Positions, Serving, Threads

LEMMA PositionsStep == TypeOK /\ Queued /\ Positions /\ [Next]_vars => Positions'
<1>. SUFFICES ASSUME TypeOK, Queued, Positions, [Next]_vars PROVE Positions'
  OBVIOUS
<1>. USE Apart DEF Threads
<1>1. CASE OpenDb \/ ResetDb
  <2>1. /\ pc[Main] \in {"open", "reset"}
        /\ \E l \in {"assign", "reset", "exit"} : pc' = [pc EXCEPT ![Main] = l]
        /\ UNCHANGED <<diskOf, file, target>>
    BY <1>1 DEF OpenDb, ResetDb, data
  <2>. QED  BY <2>1 DEF Positions, Serving, TypeOK
<1>2. CASE Assign
  <2>1. CASE \A f \in Files : diskOf[f] # None
    <3>1. /\ pc[Main] = "assign" /\ pc' = [pc EXCEPT ![Main] = "serve"]
          /\ UNCHANGED <<diskOf, file, target>>
      BY <1>2, <2>1 DEF Assign
    <3>. QED  BY <2>1, <3>1 DEF Positions, Serving, TypeOK
  <2>2. CASE ~ \A f \in Files : diskOf[f] # None
    <3>1. PICK f \in Files, d \in Disks :
            /\ diskOf' = [diskOf EXCEPT ![f] = d] /\ file' = [file EXCEPT ![Main] = f]
            /\ pc' = [pc EXCEPT ![Main] = "linked"] /\ pc[Main] = "assign"
            /\ target' = target
      BY <1>2, <2>2 DEF Assign
    <3>. QED  BY <3>1 DEF Positions, Serving, TypeOK
  <2>. QED  BY <2>1, <2>2
<1>3. CASE Reload
  BY <1>3 DEF Reload, Positions, Serving, TypeOK
<1>4. CASE ResetCounts
  <2>1. /\ pc[Main] = "serve" /\ pc' = [pc EXCEPT ![Main] = "writing"]
        /\ UNCHANGED <<diskOf, file, target>>
    BY <1>4, LockTaken DEF ResetCounts, data
  <2>. QED  BY <2>1 DEF Positions, Serving, TypeOK
<1>5. ASSUME NEW s \in Services, LockFile(s) PROVE Positions'
  <2>1. PICK f \in Files : /\ \A t \in Services : file[t] # f
                           /\ file' = [file EXCEPT ![s] = f]
    BY <1>5 DEF LockFile
  <2>2. /\ pc[s] = "idle" /\ Serving /\ pc' = [pc EXCEPT ![s] = "locked"]
        /\ UNCHANGED <<diskOf, target>>
    BY <1>5 DEF LockFile, data
  <2>3. diskOf[f] # None
    BY <2>1, <2>2 DEF Positions
  <2>4. Serving' /\ pc'[Main] = pc[Main] /\ file'[Main] = file[Main]
    BY <2>1, <2>2 DEF Serving, TypeOK
  <2>5. \A u \in Services : u # s => pc'[u] = pc[u] /\ file'[u] = file[u]
    BY <2>1, <2>2 DEF TypeOK
  <2>6. pc'[s] = "locked" /\ file'[s] = f
    BY <2>1, <2>2 DEF TypeOK
  <2>. QED  BY <2>1, <2>2, <2>3, <2>4, <2>5, <2>6 DEF Positions
<1>6. ASSUME NEW s \in Services, CountAccess(s) PROVE Positions'
  <2>1. pc[s] = "locked" /\ pc' = [pc EXCEPT ![s] = "writing"] /\ UNCHANGED <<diskOf, file, target>>
    BY <1>6, LockTaken DEF CountAccess
  <2>. QED  BY <2>1 DEF Positions, Serving, TypeOK
<1>7. ASSUME NEW s \in Services, Unlink(s) PROVE Positions'
  <2>1. /\ pc[s] = "locked" /\ pc' = [pc EXCEPT ![s] = "unlinked"] /\ file' = file
        /\ diskOf' = [diskOf EXCEPT ![file[s]] = None]
    BY <1>7 DEF Unlink
  <2>2. \A u \in Services : u # s => pc'[u] = pc[u] /\ (pc[u] = "locked" => file[u] # file[s])
    BY <2>1 DEF TypeOK, Positions
  <2>3. pc'[s] = "unlinked" /\ pc'[Main] = pc[Main] /\ (Serving' <=> Serving) /\ Serving
    BY <2>1 DEF TypeOK, Positions, Serving
  <2>4. \A f \in Files : f # file[s] => diskOf'[f] = diskOf[f]
    BY <2>1 DEF TypeOK
  <2>5. target'[s] \in Disks /\ \A u \in Services : u # s => target'[u] = target[u]
    BY <1>7 DEF Unlink, TypeOK
  <2>. QED  BY <2>1, <2>2, <2>3, <2>4, <2>5 DEF Positions, TypeOK
<1>8. ASSUME NEW s \in Services, Link(s) PROVE Positions'
  <2>1. /\ pc[s] = "unlinked" /\ pc' = [pc EXCEPT ![s] = "linked"] /\ file' = file
        /\ diskOf' = [diskOf EXCEPT ![file[s]] = target[s]]
    BY <1>8 DEF Link
  <2>2. target[s] \in Disks /\ file[s] \in Files
    BY <2>1 DEF TypeOK, Positions
  <2>3. \A u \in Services : u # s => pc'[u] = pc[u]
    BY <2>1 DEF TypeOK
  <2>4. pc'[s] = "linked" /\ pc'[Main] = pc[Main] /\ (Serving' <=> Serving) /\ Serving
    BY <2>1 DEF TypeOK, Positions, Serving
  <2>5. \A f \in Files : f # file[s] => diskOf'[f] = diskOf[f]
    BY <2>1 DEF TypeOK
  <2>6. \A u \in Services : u # s => target'[u] = target[u]
    BY <1>8 DEF Link, TypeOK
  <2>. QED  BY <2>1, <2>2, <2>3, <2>4, <2>5, <2>6 DEF Positions, TypeOK
<1>9. ASSUME NEW s \in Services, LeaveFile(s) PROVE Positions'
  <2>1. /\ pc[s] = "locked" /\ pc' = [pc EXCEPT ![s] = "idle"] /\ UNCHANGED <<diskOf, target>>
        /\ file' = [file EXCEPT ![s] = None]
    BY <1>9 DEF LeaveFile, data
  <2>2. \A u \in Services : u # s => pc'[u] = pc[u] /\ file'[u] = file[u]
    BY <2>1 DEF TypeOK
  <2>3. /\ pc'[s] = "idle" /\ file'[s] = None /\ (Serving' <=> Serving) /\ Serving
        /\ pc'[Main] = pc[Main] /\ file'[Main] = file[Main]
    BY <2>1 DEF TypeOK, Positions, Serving
  <2>. QED  BY <2>1, <2>2, <2>3 DEF Positions
<1>10. ASSUME NEW t \in Threads, WriteLinked(t) PROVE Positions'
  <2>1. pc[t] = "linked" /\ pc' = [pc EXCEPT ![t] = "writing"] /\ UNCHANGED <<diskOf, file, target>>
    BY <1>10, LockTaken DEF WriteLinked, data
  <2>. QED  BY <2>1 DEF Positions, Serving, TypeOK
<1>11. CASE Unlock
  <2>1. lock \in Threads /\ pc[lock] = "writing" /\ UNCHANGED <<diskOf, target>>
    BY <1>11 DEF Unlock, TypeOK, data
  <2>2. file' = [file EXCEPT ![lock] = None]
    BY <1>11 DEF Unlock
  <2>3. CASE lock = Main
    <3>1. pc' = [pc EXCEPT ![Main] = IF file[Main] = None THEN "serve" ELSE "assign"]
      BY <1>11, <2>3 DEF Unlock
    <3>. QED  BY <2>1, <2>2, <2>3, <3>1 DEF Positions, Serving, TypeOK
  <2>4. CASE lock # Main
    <3>1. pc' = [pc EXCEPT ![lock] = "idle"] /\ lock \in Services
      BY <1>11, <2>1, <2>4 DEF Unlock
    <3>2. \A u \in Services : u # lock => pc'[u] = pc[u] /\ file'[u] = file[u]
      BY <2>2, <3>1 DEF TypeOK
    <3>3. /\ pc'[lock] = "idle" /\ file'[lock] = None /\ (Serving' <=> Serving) /\ Serving
          /\ pc'[Main] = pc[Main] /\ file'[Main] = file[Main]
      BY <2>1, <2>2, <2>4, <3>1 DEF TypeOK, Positions, Serving
    <3>. QED  BY <2>1, <3>1, <3>2, <3>3 DEF Positions
  <2>. QED  BY <2>3, <2>4
<1>12. CASE ClearCount \/ Format \/ Succeed \/ Fail \/ DumpStarts \/ DumpEnds \/ Exited
            \/ UNCHANGED vars
  <2>1. UNCHANGED <<diskOf, pc, file, target>>
    BY <1>12 DEF ClearCount, Format, Succeed, Fail, DumpStarts, DumpEnds, Exited, vars, data
  <2>. QED  BY <2>1 DEF Positions, Serving
<1>. QED
  BY <1>1, <1>2, <1>3, <1>4, <1>5, <1>6, <1>7, <1>8, <1>9, <1>10, <1>11, <1>12
  DEF Next, MainThread, Service, Write

-----------------------------------------------------------------------------
(* The beginning of a load.                                                *)

LEMMA FreshInit == Init => Fresh
BY DEF Init, Fresh

LEMMA FreshStep == TypeOK /\ Queued /\ Positions /\ Fresh /\ [Next]_vars => Fresh'
<1>. SUFFICES ASSUME TypeOK, Queued, Positions, Fresh, [Next]_vars PROVE Fresh'
  OBVIOUS
<1>. USE Apart DEF Threads
<1>1. CASE Reload
  BY <1>1, Bounds DEF Reload, Fresh
<1>2. CASE OpenDb \/ ResetDb
  BY <1>2 DEF OpenDb, ResetDb, Fresh, data, TypeOK
<1>3. CASE Write
  <2>1. calls # <<>> \/ lock # None
    BY <1>3 DEF Write, ClearCount, Format, Succeed, Fail, Ready, Unlock, TypeOK
  <2>2. lock # None
    BY <2>1 DEF Queued
  <2>3. pc[Main] \notin {"open", "reset"}
    BY <2>2 DEF Positions, TypeOK, Serving
  <2>4. pc'[Main] \in {pc[Main], "serve", "assign"}
    BY <1>3 DEF Write, ClearCount, Format, Succeed, Fail, Unlock, TypeOK
  <2>. QED  BY <2>3, <2>4 DEF Fresh
<1>4. ASSUME NEW s \in Services, Service(s) PROVE Fresh'
  <2>1. Serving
    BY <1>4 DEF Service, LockFile, CountAccess, Unlink, Link, LeaveFile, Positions
  <2>2. pc[Main] \notin {"open", "reset"}
    BY <2>1 DEF Serving
  <2>3. pc'[Main] = pc[Main]
    BY <1>4 DEF Service, LockFile, CountAccess, LockAndWrite, Unlink, Link, LeaveFile, TypeOK
  <2>. QED  BY <2>2, <2>3 DEF Fresh
<1>5. ASSUME NEW t \in Threads, WriteLinked(t) PROVE Fresh'
  <2>1. pc[Main] \notin {"open", "reset"}
    BY <1>5 DEF WriteLinked, Positions, Serving
  <2>2. pc'[Main] \in {pc[Main], "writing"}
    BY <1>5, LockTaken DEF WriteLinked, TypeOK
  <2>. QED  BY <2>1, <2>2 DEF Fresh
<1>6. CASE Assign \/ ResetCounts
  BY <1>6, LockTaken DEF Assign, ResetCounts, Fresh, TypeOK
<1>7. CASE DumpStarts \/ DumpEnds \/ Exited \/ UNCHANGED vars
  BY <1>7 DEF DumpStarts, DumpEnds, Exited, vars, tables, data, Fresh
<1>. QED
  BY <1>1, <1>2, <1>3, <1>4, <1>5, <1>6, <1>7 DEF Next, MainThread

-----------------------------------------------------------------------------
(* Rows.                                                                   *)

Rest == StmtCurrent /\ FilesFollow /\ DisksFollow
Known == TypeOK /\ Queued /\ Positions /\ Fresh

LEMMA RestInit == Init => Rest
BY DEF Init, Rest, StmtCurrent, FilesFollow, DisksFollow

(* Nothing is written or counted, and no move ends.                        *)
LEMMA QuietRest ==
  ASSUME Rest, UNCHANGED <<db, row, inserted, spoiled, diskOf, count, total, calls, stmt>>,
         \A f \in Files : Moving(f) => Moving(f)'
  PROVE  Rest'
BY DEF Rest, StmtCurrent, FilesFollow, DisksFollow, Pending, Current

(* Calls are begun: no row is out of date but that of the file that was    *)
(* moved, which they write.                                                *)
LEMMA CallsRest ==
  ASSUME Known, Rest, NEW t \in Threads, NEW c, LockAndWrite(t, c),
         UNCHANGED <<db, row, inserted, spoiled, diskOf, count, total, file>>,
         \A f \in Files : Moving(f) => Moving(f)' \/ Pending(FileRow(f))'
  PROVE  Rest'
<1>1. calls = <<>> /\ stmt' = None
  BY LockTaken DEF Known
<1>2. \A r : ~Pending(r)
  BY <1>1 DEF Pending
<1>. QED  BY <1>1, <1>2 DEF Rest, StmtCurrent, FilesFollow, DisksFollow, Current

LEMMA MainThreadRest == Known /\ Rest /\ MainThread => Rest'
<1>. SUFFICES ASSUME Known, Rest, MainThread PROVE Rest'
  OBVIOUS
<1>. USE Apart DEF Known, Threads
<1>1. CASE OpenDb \/ ResetDb
  <2>1. /\ pc[Main] \in {"open", "reset"}
        /\ UNCHANGED <<inserted, spoiled, diskOf, total, stmt>>
    BY <1>1 DEF OpenDb, ResetDb, data, writer
  <2>2. inserted = {} /\ (\A f \in Files : diskOf[f] = None) /\ (\A d \in Disks : total[d] = 0)
    BY <2>1 DEF Fresh
  <2>3. stmt = None
    BY <2>1 DEF Positions, Serving, Queued, TypeOK
  <2>. QED  BY <2>1, <2>2, <2>3 DEF Rest, StmtCurrent, FilesFollow, DisksFollow
<1>2. CASE Assign
  <2>1. UNCHANGED <<db, row, inserted, spoiled, count, total, calls, stmt>>
    BY <1>2 DEF Assign, tables, writer
  <2>2. CASE \A f \in Files : diskOf[f] # None
    <3>1. pc[Main] = "assign" /\ pc' = [pc EXCEPT ![Main] = "serve"] /\ UNCHANGED <<diskOf, file>>
      BY <1>2, <2>2 DEF Assign
    <3>2. \A f \in Files : Moving(f) => Moving(f)'
      BY <3>1 DEF Moving, TypeOK
    <3>. QED  BY <2>1, <3>1, <3>2, QuietRest
  <2>3. CASE ~ \A f \in Files : diskOf[f] # None
    <3>1. PICK f \in Files, d \in Disks :
            /\ diskOf' = [diskOf EXCEPT ![f] = d] /\ file' = [file EXCEPT ![Main] = f]
            /\ pc' = [pc EXCEPT ![Main] = "linked"] /\ pc[Main] = "assign"
      BY <1>2, <2>3 DEF Assign
    <3>2. stmt = None
      BY <3>1 DEF Positions, Serving, Queued, TypeOK
    <3>3. \A g \in Files : g # f => diskOf'[g] = diskOf[g] /\ Current(g)' = Current(g)
      BY <2>1, <3>1 DEF Current, TypeOK
    <3>4. \A d2 \in Disks : Current(d2)' = Current(d2)
      BY <2>1 DEF Current
    <3>5. Moving(f)' /\ \A g \in Files : Moving(g) => Moving(g)'
      BY <3>1 DEF Moving, TypeOK
    <3>6. \A r : Pending(r)' <=> Pending(r)
      BY <2>1 DEF Pending
    <3>. QED
      BY <2>1, <3>2, <3>3, <3>4, <3>5, <3>6 DEF Rest, StmtCurrent, FilesFollow, DisksFollow
  <2>. QED  BY <2>2, <2>3
<1>3. CASE Reload
  <2>1. lock = None /\ stmt = None /\ stmt' = None
    BY <1>3 DEF Reload, TypeOK, Queued, writer
  <2>. QED  BY <1>3, <2>1 DEF Reload, Rest, StmtCurrent, FilesFollow, DisksFollow
<1>4. CASE ResetCounts
  <2>1. PICK c : LockAndWrite(Main, c)
    BY <1>4 DEF ResetCounts
  <2>2. pc[Main] = "serve" /\ UNCHANGED <<db, row, inserted, spoiled, diskOf, count, total, file>>
    BY <1>4 DEF ResetCounts, tables, data
  <2>3. \A f \in Files : Moving(f) => Moving(f)'
    BY <2>1, <2>2, LockTaken DEF Moving, TypeOK
  <2>. QED  BY <2>1, <2>2, <2>3, CallsRest
<1>5. CASE Exited
  BY <1>5, QuietRest DEF Exited, vars, tables, data, writer, Moving
<1>. QED  BY <1>1, <1>2, <1>3, <1>4, <1>5 DEF MainThread

LEMMA ServiceRest ==
  ASSUME Known, Rest, NEW s \in Services, Service(s)
  PROVE  Rest'
<1>. USE Apart DEF Known, Threads
<1>1. CASE LockFile(s) \/ LeaveFile(s)
  <2>1. /\ pc[s] \in {"idle", "locked"}
        /\ \A t \in Threads : t # s => pc'[t] = pc[t] /\ file'[t] = file[t]
        /\ UNCHANGED <<tables, data, writer>>
    BY <1>1 DEF LockFile, LeaveFile, TypeOK
  <2>2. \A f \in Files : Moving(f) => Moving(f)'
    BY <2>1 DEF Moving
  <2>. QED  BY <2>1, <2>2, QuietRest DEF tables, data, writer
<1>2. CASE CountAccess(s)
  <2>1. PICK f \in Files, d \in Disks : f = file[s] /\ d = diskOf[f] /\ pc[s] = "locked"
    BY <1>2 DEF CountAccess, Positions, TypeOK
  <2>2. /\ count' = [count EXCEPT ![f] = @ + 1] /\ total' = [total EXCEPT ![d] = @ + 1]
        /\ LockAndWrite(s, <<UpdateBoth(f, d)>>)
        /\ UNCHANGED <<db, row, inserted, spoiled, diskOf, file>>
    BY <1>2, <2>1 DEF CountAccess, tables
  <2>3. calls = <<>> /\ stmt' = None /\ calls' = <<UpdateBoth(f, d)>>
        /\ pc' = [pc EXCEPT ![s] = "writing"]
    BY <2>2, LockTaken
  <2>4. \A r : ~Pending(r)
    BY <2>3 DEF Pending
  <2>5. Pending(FileRow(f))' /\ Pending(DiskRow(d))'
    <3>1. 1 \in DOMAIN calls' /\ calls'[1].rows = <<FileRow(f), DiskRow(d)>>
      BY <2>3 DEF UpdateBoth
    <3>2. 1 \in DOMAIN calls'[1].rows /\ 2 \in DOMAIN calls'[1].rows
      BY <3>1
    <3>3. calls'[1].rows[1] = FileRow(f) /\ calls'[1].rows[2] = DiskRow(d)
      BY <3>1
    <3>. QED  BY <3>1, <3>2, <3>3 DEF Pending
  <2>6. \A g \in Files : Moving(g) => Moving(g)'
    BY <2>1, <2>2, <2>3 DEF Moving, TypeOK
  <2>7. /\ \A g \in Files : g # f => Current(g)' = Current(g)
        /\ \A e \in Disks : e # d => Current(e)' = Current(e) /\ total'[e] = total[e]
    BY <2>2 DEF Current, TypeOK
  <2>8. FilesFollow'
    BY <2>2, <2>4, <2>5, <2>6, <2>7 DEF Rest, FilesFollow
  <2>9. DisksFollow'
    BY <2>2, <2>4, <2>5, <2>7 DEF Rest, DisksFollow
  <2>. QED  BY <2>3, <2>8, <2>9 DEF Rest, StmtCurrent
<1>3. CASE Unlink(s) \/ Link(s)
  <2>1. PICK f \in Files :
          /\ f = file[s]
          /\ UNCHANGED <<db, row, inserted, spoiled, count, total, calls, stmt, file>>
          /\ pc' \in {[pc EXCEPT ![s] = "unlinked"], [pc EXCEPT ![s] = "linked"]}
          /\ \A g \in Files : g # f => diskOf'[g] = diskOf[g]
    BY <1>3 DEF Unlink, Link, tables, writer, Positions, TypeOK
  <2>2. Moving(f)' /\ \A g \in Files : Moving(g) => Moving(g)'
    BY <2>1 DEF Moving, TypeOK
  <2>3. /\ \A g \in Files : g # f => Current(g)' = Current(g)
        /\ \A e \in Disks : Current(e)' = Current(e)
    BY <2>1 DEF Current
  <2>4. \A r : Pending(r)' <=> Pending(r)
    BY <2>1 DEF Pending
  <2>5. stmt # None => stmt.on \in Rows
    BY DEF Queued
  <2>6. FilesFollow'
    BY <2>1, <2>2, <2>3, <2>4 DEF Rest, FilesFollow
  <2>7. DisksFollow'
    BY <2>1, <2>3, <2>4 DEF Rest, DisksFollow
  <2>8. StmtCurrent'
    BY <2>1, <2>2, <2>3, <2>5 DEF Rest, StmtCurrent, Rows
  <2>. QED  BY <2>6, <2>7, <2>8 DEF Rest
<1>. QED  BY <1>1, <1>2, <1>3 DEF Service

LEMMA WriteLinkedRest ==
  ASSUME Known, Rest, NEW t \in Threads, WriteLinked(t)
  PROVE  Rest'
<1>1. LockAndWrite(t, <<UpdateFile(file[t])>>) /\ pc[t] = "linked"
      /\ UNCHANGED <<db, row, inserted, spoiled, diskOf, count, total, file>>
  BY DEF WriteLinked, tables, data
<1>2. calls' = <<UpdateFile(file[t])>> /\ pc' = [pc EXCEPT ![t] = "writing"]
  BY <1>1, LockTaken DEF Known
<1>3. Pending(FileRow(file[t]))'
  BY <1>1, <1>2 DEF Pending, UpdateFile
<1>4. \A f \in Files : Moving(f) => Moving(f)' \/ f = file[t]
  BY <1>1, <1>2 DEF Moving, Known, TypeOK
<1>. QED  BY <1>1, <1>3, <1>4, CallsRest

(* The count that is cleared is that of a row yet to be written.           *)
LEMMA ClearRest == Known /\ Rest /\ ClearCount => Rest'
<1>. SUFFICES ASSUME Known, Rest, ClearCount PROVE Rest'
  OBVIOUS
<1>. USE Apart DEF Known
<1>. DEFINE x == calls[1].rows[1].of
<1>1. /\ calls # <<>> /\ calls[1].zero /\ 1 \in DOMAIN calls
      /\ calls[1] \in Calls /\ calls[1].rows[1] \in RowRefs /\ 1 \in DOMAIN calls[1].rows
  BY FirstRow DEF ClearCount, Queued
<1>2. stmt = None /\ stmt' = None
  BY <1>1 DEF ClearCount, Queued
<1>3. calls[1].rows[1] = FileRow(x) /\ x \in Rows
  BY <1>1 DEF Calls, RowRefs, FileRow
<1>4. UNCHANGED <<db, row, inserted, spoiled, diskOf, pc, file>>
  BY DEF ClearCount, tables
<1>5. /\ \/ x \in Files /\ count' = [count EXCEPT ![x] = 0] /\ total' = total
         \/ x \notin Files /\ total' = [total EXCEPT ![x] = 0] /\ count' = count
  BY DEF ClearCount
<1>6. \A r : Pending(r)' <=> Pending(r)
  <2>1. calls' = [calls EXCEPT ![1].zero = FALSE] /\ calls \in Seq(Calls)
    BY DEF ClearCount, Queued
  <2>2. DOMAIN calls' = DOMAIN calls /\ \A i \in DOMAIN calls : calls'[i].rows = calls[i].rows
    BY <1>1, <2>1 DEF Calls
  <2>. QED  BY <2>2 DEF Pending
<1>7. Pending(FileRow(x))
  BY <1>1, <1>3 DEF Pending
<1>8. \A f \in Files : Moving(f)' <=> Moving(f)
  BY <1>4 DEF Moving
<1>. HIDE DEF x
<1>9. \A y \in Rows : y # x => Current(y)' = Current(y) /\ (y \in Disks => total'[y] = total[y])
  BY <1>4, <1>5 DEF Current, TypeOK, Rows
<1>10. FilesFollow'
  BY <1>4, <1>6, <1>7, <1>8, <1>9 DEF Rest, FilesFollow, Rows
<1>11. DisksFollow'
  BY <1>4, <1>6, <1>7, <1>9 DEF Rest, DisksFollow, Rows, FileRow, DiskRow
<1>. QED  BY <1>2, <1>10, <1>11 DEF Rest, StmtCurrent

(* A statement says what is true when it is formatted.                     *)
LEMMA FormatRest == Known /\ Rest /\ Format => Rest'
<1>. SUFFICES ASSUME Known, Rest, Format PROVE Rest'
  OBVIOUS
<1>. USE Apart DEF Known
<1>. DEFINE r == calls[1].rows[1]
            x == Resolve(r)
<1>1. /\ calls # <<>> /\ ~calls[1].zero /\ stmt = None
      /\ UNCHANGED <<db, row, inserted, spoiled, diskOf, count, total, pc, file>>
  BY DEF Format, tables, data
<1>2. /\ r \in RowRefs /\ 1 \in DOMAIN calls /\ 1 \in DOMAIN calls[1].rows
  BY <1>1, FirstRow DEF Queued
<1>3. \A f \in Files : Moving(f)' <=> Moving(f)
  BY <1>1 DEF Moving
<1>4. \A y : Current(y)' = Current(y)
  BY <1>1 DEF Current
<1>5. CASE db = None
  BY <1>1, <1>5 DEF Format, Rest, StmtCurrent, FilesFollow, DisksFollow
<1>6. CASE db # None /\ x = None
  <2>1. SkipRow /\ stmt' = None
    BY <1>1, <1>6 DEF Format
  <2>2. r.kind # "row"
    BY <1>2, <1>6 DEF Resolve, RowRefs, Rows
  <2>3. \A y : Pending(FileRow(y)) => Pending(FileRow(y))'
    BY <1>1, <2>1, <2>2, RowDone DEF Queued, FileRow
  <2>4. FilesFollow'
    BY <1>1, <1>3, <1>4, <2>3 DEF Rest, FilesFollow
  <2>5. DisksFollow'
    BY <1>1, <1>4, <2>3 DEF Rest, DisksFollow, FileRow, DiskRow
  <2>. QED  BY <2>1, <2>4, <2>5 DEF Rest, StmtCurrent
<1>7. CASE db # None /\ x # None
  <2>1. /\ calls' = calls
        /\ stmt' = [op |-> IF x \in inserted THEN "update" ELSE "insert", on |-> x,
                    value |-> IF x \in inserted THEN Current(x) ELSE Empty]
    BY <1>1, <1>7 DEF Format
  <2>2. \A y : Pending(y)' <=> Pending(y)
    BY <2>1 DEF Pending
  <2>. HIDE DEF x
  <2>3. stmt'.op = "update" => stmt'.value = Current(stmt'.on)
    BY <2>1
  <2>4. StmtCurrent'
    BY <1>4, <2>3 DEF StmtCurrent
  <2>5. FilesFollow'
    BY <1>1, <1>3, <1>4, <2>2 DEF Rest, FilesFollow
  <2>6. DisksFollow'
    BY <1>1, <1>4, <2>2 DEF Rest, DisksFollow
  <2>. QED  BY <2>4, <2>5, <2>6 DEF Rest
<1>. QED  BY <1>5, <1>6, <1>7

(* A statement that is executed brings its row up to date.                 *)
LEMMA SucceedRest == Known /\ Rest /\ Succeed => Rest'
<1>. SUFFICES ASSUME Known, Rest, Succeed PROVE Rest'
  OBVIOUS
<1>. USE Apart DEF Known
<1>. DEFINE x == stmt.on
            r == calls[1].rows[1]
<1>1. /\ stmt # None /\ stmt' = None /\ x \in Rows /\ calls # <<>> /\ ~calls[1].zero
      /\ stmt.op \in {"insert", "update"} /\ r \in RowRefs
      /\ 1 \in DOMAIN calls /\ 1 \in DOMAIN calls[1].rows /\ calls \in Seq(Calls)
  BY FirstRow DEF Succeed, Ready, Queued
<1>2. /\ UNCHANGED <<db, diskOf, count, total, pc, file>> /\ row' = Written
      /\ ~(stmt.op = "insert" /\ row[x] # None)
  BY DEF Succeed, Taken, data
<1>3. \A f \in Files : Moving(f)' <=> Moving(f)
  BY <1>2 DEF Moving
<1>4. \A y : Current(y)' = Current(y)
  BY <1>2 DEF Current
<1>5. CASE stmt.op = "insert"
  <2>1. /\ inserted' = inserted \cup {x} /\ calls' = calls /\ spoiled' = spoiled
        /\ row' = [row EXCEPT ![x] = Empty] /\ x \notin inserted
    BY <1>1, <1>2, <1>5 DEF Succeed, Written, Queued
  <2>2. \A y : Pending(y)' <=> Pending(y)
    BY <2>1 DEF Pending
  <2>3. x \in Files => Pending(FileRow(x))
    <3>1. x \in Files => r = FileRow(x)
      BY <1>1 DEF Queued, RowRefs, FileRow
    <3>. QED  BY <1>1, <3>1 DEF Pending
  <2>4. \A y \in Rows : y # x => row'[y] = row[y]
    BY <2>1 DEF TypeOK
  <2>5. x \in Disks => row'[x] = Empty
    BY <2>1 DEF TypeOK, Rows
  <2>6. x \in Disks /\ total[x] = 0 => Current(x) = Empty
    BY DEF Current, Empty
  <2>. HIDE DEF x, r
  <2>7. FilesFollow'
    BY <1>2, <1>3, <1>4, <2>1, <2>2, <2>3, <2>4 DEF Rest, FilesFollow, Rows
  <2>8. DisksFollow'
    BY <1>2, <1>4, <2>1, <2>2, <2>4, <2>5, <2>6 DEF Rest, DisksFollow, Rows
  <2>. QED  BY <1>1, <2>7, <2>8 DEF Rest, StmtCurrent
<1>6. CASE stmt.op = "update"
  <2>1. /\ SkipRow /\ inserted' = inserted /\ x \in inserted
        /\ spoiled' = IF row[x] = None THEN spoiled \cup {x} ELSE spoiled \ {x}
        /\ row' = IF row[x] # None THEN [row EXCEPT ![x] = stmt.value] ELSE row
    BY <1>1, <1>2, <1>6 DEF Succeed, Written, Queued
  <2>2. \A y : Pending(FileRow(y)) => Pending(FileRow(y))' \/ y = x
    <3>1. \A y : Pending(FileRow(y)) => Pending(FileRow(y))' \/ FileRow(y) = r
      BY <1>1, <2>1, RowDone
    <3>2. \A y : FileRow(y) = r => y = x
      BY <1>1 DEF Queued, FileRow
    <3>. QED  BY <3>1, <3>2
  <2>3. \A y \in Rows : y # x => row'[y] = row[y] /\ (y \in spoiled' <=> y \in spoiled)
    BY <2>1 DEF TypeOK
  <2>4. x \notin spoiled' => row'[x] = stmt.value
    BY <1>1, <2>1 DEF TypeOK
  <2>5. \/ stmt.value = Current(x)
        \/ x \in Files /\ (diskOf[x] = None \/ Moving(x))
    BY <1>1, <1>6 DEF Rest, StmtCurrent
  <2>. HIDE DEF x, r
  <2>6. FilesFollow'
    <3>. SUFFICES ASSUME db # None, NEW f \in Files, f \notin spoiled', diskOf[f] # None, ~Moving(f)
                  PROVE  row'[f] = Current(f) \/ Pending(FileRow(f))'
      BY <1>2, <1>3, <1>4 DEF FilesFollow
    <3>1. CASE f = x
      BY <2>4, <2>5, <3>1
    <3>2. CASE f # x
      BY <2>2, <2>3, <3>2 DEF Rest, FilesFollow, Rows
    <3>. QED  BY <3>1, <3>2
  <2>7. DisksFollow'
    <3>. SUFFICES ASSUME db # None, NEW d \in Disks, d \notin spoiled'
                  PROVE  \/ Pending(DiskRow(d))'
                         \/ IF d \in inserted THEN row'[d] = Current(d) ELSE total[d] = 0
      BY <1>2, <1>4, <2>1 DEF DisksFollow
    <3>1. CASE d = x
      BY <2>1, <2>4, <2>5, <3>1
    <3>2. CASE d # x
      BY <2>2, <2>3, <3>2 DEF Rest, DisksFollow, Rows, FileRow, DiskRow
    <3>. QED  BY <3>1, <3>2
  <2>. QED  BY <1>1, <2>6, <2>7 DEF Rest, StmtCurrent
<1>. QED  BY <1>1, <1>5, <1>6

(* A statement that fails spoils its row, and those of its call that are   *)
(* given up with it.                                                       *)
LEMMA FailRest == Known /\ Rest /\ Fail => Rest'
<1>. SUFFICES ASSUME Known, Rest, Fail PROVE Rest'
  OBVIOUS
<1>. USE Apart DEF Known
<1>. DEFINE x == stmt.on
            r == calls[1].rows[1]
<1>1. /\ stmt # None /\ stmt' = None /\ x \in Rows /\ calls # <<>> /\ ~calls[1].zero
      /\ stmt.op \in {"insert", "update"} /\ calls \in Seq(Calls)
  BY DEF Fail, Ready, Queued
<1>2. UNCHANGED <<db, diskOf, count, total, pc, file>>
  BY DEF Fail, data
<1>3. \A f \in Files : Moving(f)' <=> Moving(f)
  BY <1>2 DEF Moving
<1>4. \A y : Current(y)' = Current(y)
  BY <1>2 DEF Current
<1>5. \A y \in Rows : y # x => row'[y] = row[y] /\ (y \in inserted' <=> y \in inserted)
  BY <1>1 DEF Fail, Written, TypeOK
<1>6. x \in spoiled' /\ spoiled \subseteq spoiled'
  <2>1. None \notin spoiled /\ x # None
    BY <1>1, DatabaseAssumption DEF TypeOK
  <2>. QED  BY <2>1 DEF Fail
<1>7. ASSUME NEW y \in Rows, Pending(FileRow(y)) PROVE Pending(FileRow(y))' \/ y \in spoiled'
  <2>1. CASE db = "sqlite3"
    <3>1. SkipRow \/ calls' = calls
      BY <2>1 DEF Fail
    <3>2. CASE SkipRow
      <4>1. Pending(FileRow(y))' \/ FileRow(y) = r
        BY <1>1, <1>7, <3>2, RowDone
      <4>2. FileRow(y) = r => y = x
        BY <1>1 DEF Queued, FileRow
      <4>. QED  BY <1>6, <4>1, <4>2
    <3>3. CASE calls' = calls
      BY <1>7, <3>3 DEF Pending
    <3>. QED  BY <3>1, <3>2, <3>3
  <2>2. CASE db # "sqlite3"
    <3>1. calls' = Tail(calls)
      BY <2>2 DEF Fail
    <3>2. Pending(FileRow(y))' \/ \E j \in DOMAIN calls[1].rows : calls[1].rows[j] = FileRow(y)
      BY <1>1, <1>7, <3>1, CallDone
    <3>3. ASSUME NEW j \in DOMAIN calls[1].rows, calls[1].rows[j] = FileRow(y)
          PROVE  y \in spoiled'
      <4>1. Resolve(calls[1].rows[j]) = y /\ y # None
        BY <3>3, DatabaseAssumption DEF Resolve, FileRow
      <4>. QED  BY <2>2, <4>1 DEF Fail
    <3>. QED  BY <3>2, <3>3
  <2>. QED  BY <2>1, <2>2
<1>. HIDE DEF x, r
<1>8. FilesFollow'
  BY <1>2, <1>3, <1>4, <1>5, <1>6, <1>7 DEF Rest, FilesFollow, Rows
<1>9. DisksFollow'
  BY <1>2, <1>4, <1>5, <1>6, <1>7 DEF Rest, DisksFollow, Rows, FileRow, DiskRow
<1>. QED  BY <1>1, <1>8, <1>9 DEF Rest, StmtCurrent

LEMMA UnlockRest == Known /\ Rest /\ Unlock => Rest'
<1>. SUFFICES ASSUME Known, Rest, Unlock PROVE Rest'
  OBVIOUS
<1>1. /\ UNCHANGED <<db, row, inserted, spoiled, diskOf, count, total, calls, stmt>>
      /\ lock \in Threads /\ pc[lock] = "writing"
      /\ \A t \in Threads : t # lock => pc'[t] = pc[t] /\ file'[t] = file[t]
  BY DEF Unlock, tables, data, Known, TypeOK
<1>2. \A f \in Files : Moving(f) => Moving(f)'
  BY <1>1 DEF Moving
<1>. QED  BY <1>1, <1>2, QuietRest

LEMMA RestStep == Known /\ Rest /\ [Next]_vars => Rest'
<1>. SUFFICES ASSUME Known, Rest, [Next]_vars PROVE Rest'
  OBVIOUS
<1>1. CASE Write
  BY <1>1, ClearRest, FormatRest, SucceedRest, FailRest, UnlockRest DEF Write
<1>2. CASE DumpStarts \/ DumpEnds \/ UNCHANGED vars
  BY <1>2, QuietRest DEF DumpStarts, DumpEnds, vars, tables, data, writer, Moving
<1>. QED  BY <1>1, <1>2, MainThreadRest, ServiceRest, WriteLinkedRest DEF Next

LEMMA Inductive == Spec => []IInv
<1>1. Init => IInv
  BY TypesInit, QueuedInit, PositionsInit, FreshInit, RestInit DEF IInv, Rest
<1>2. IInv /\ [Next]_vars => IInv'
  BY TypesStep, QueuedStep, PositionsStep, FreshStep, RestStep DEF IInv, Known, Rest
<1>. QED  BY <1>1, <1>2, PTL DEF Spec

-----------------------------------------------------------------------------
(* Every variable of the database keeps its type; who writes holds         *)
(* m_reassign_lock, and only who holds it has something to write.          *)
THEOREM TypeCorrect == Spec => []TypeOK
<1>. QED  BY Inductive, PTL DEF IInv

(* Between two writers the row of a file that is not being moved says      *)
(* where the file is and how often it was accessed, unless its last        *)
(* statement failed (workload_db.c 96-180): for any number of services     *)
(* that move files while the main thread resets all counts.                *)
THEOREM FileRowsFollow == Spec => []RowsFollow
<1>1. IInv => RowsFollow
  BY DEF IInv, Queued, FilesFollow, RowsFollow, Pending
<1>. QED  BY <1>1, Inductive, PTL

(* Likewise the row of a disk, though the disk whose row is written for a  *)
(* moved file may be another one by then.                                  *)
THEOREM DisksRowsFollow == Spec => []DiskRowsFollow
<1>1. IInv => DiskRowsFollow
  BY DEF IInv, Queued, DisksFollow, DiskRowsFollow, Pending
<1>. QED  BY <1>1, Inductive, PTL
=============================================================================
